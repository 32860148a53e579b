----------------------------- MODULE APIVersion -----------------------------
(***************************************************************************)
(* The buildpack API version primitive the codecs call (api.MustParse,     *)
(* AtLeast, LessThan).  That package is not part of this repository; it   *)
(* is modelled from spec.md section 1: a dotted major.minor identifier,   *)
(* here a pair <<major, minor>>, compared lexicographically.               *)
(***************************************************************************)
EXTENDS Naturals

\* api.MustParse(v).LessThan(w)
LessThan(v, w) ==
    \/ v[1] < w[1]
    \/ v[1] = w[1] /\ v[2] < w[2]

\* api.MustParse(v).AtLeast(w)
AtLeast(v, w) == ~LessThan(v, w)

=============================================================================
