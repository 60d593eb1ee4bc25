----------------------------- MODULE MCDictionaries -----------------------------
(* Dictionaries for TLC: two items; the second release rearranges the first *)
(* item and rewords the second.                                             *)
EXTENDS Dictionaries

CONSTANTS c1, c2

MCItems == <<c1, c2>>

Entry(facts, text) == [facts |-> facts, text |-> text]

MCDeclared ==
  << [c \in Codes |-> Entry("old", "old")],
     [c \in Codes |-> IF c = c1 THEN Entry("new", "old") ELSE Entry("old", "new")] >>

================================================================================
