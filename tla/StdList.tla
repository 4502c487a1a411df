------------------------------ MODULE StdList ------------------------------
(***************************************************************************)
(* The operations of std::list that the event engines use besides pushing  *)
(* and popping at the ends; positions count from 1.                        *)
(***************************************************************************)
EXTENDS Integers, Sequences

\* list::erase: the list without its entry k.
Erase(s, k) == SubSeq(s, 1, k - 1) \o SubSeq(s, k + 1, Len(s))

\* list::insert: the list with e put before its entry k.
InsertBefore(s, k, e) == SubSeq(s, 1, k - 1) \o <<e>> \o SubSeq(s, k, Len(s))
=============================================================================
