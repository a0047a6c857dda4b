------------------------------ MODULE MCAddrMan ------------------------------
(***************************************************************************)
(* Small tables for AddrMan: four addresses from two sources in three new  *)
(* buckets and two tried ones.                                             *)
(***************************************************************************)
EXTENDS AddrMan

CONSTANTS a1, a2, a3, a4, lan, s1, s2

Addrs == {a1, a2, a3, a4, lan}

\* The bucket of a1 depends on who tells of it; it shares one with a3, one with a4.
NewBuckets ==
  [p \in Addrs \X {s1, s2} |->
     CASE p[1] = a2 -> 2
       [] p[1] = a3 \/ p = <<a1, s2>> -> 1
       [] OTHER -> 0]

\* a4 has a tried bucket of its own.
TriedBuckets == [a \in Addrs |-> IF a = a4 THEN 1 ELSE 0]

\* a1 is announced by both sources, with different ports.
Announcements ==
  {<<a1, 1, s1>>, <<a1, 2, s2>>, <<a2, 1, s1>>, <<a3, 1, s1>>, <<a4, 1, s1>>, <<lan, 1, s1>>}
=============================================================================
