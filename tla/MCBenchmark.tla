------------------------------ MODULE MCBenchmark ------------------------------
(* Instances of Benchmark for TLC: the benchmark allocates at most three   *)
(* blocks of the hundred it has, and inflate fills a buffer of two bytes   *)
(* up to three times.  An order book has up to two price levels; a name    *)
(* may occur twice, also when two names differ after a NUL only, and a     *)
(* string may have a NUL in it.                                            *)
EXTENDS Benchmark, TLC

CONSTANTS b1, b2, b3, n1, n2, n3

ThreeBlocks == <<b1, b2, b3>>
HeapNodes == {n1, n2, n3}
NodeSymmetry == Permutations(HeapNodes)

Leaf(tokens) == [type |-> "leaf", tokens |-> tokens]
Array(elements) == [type |-> "array", elements |-> elements]
Object(members) == [type |-> "object", members |-> members]
Member(name, value) == [name |-> name, value |-> value]

Leaves == {Leaf(<<"6000">>), Leaf(<<"open", "NUL", "x">>)}
Level == Array(<<Leaf(<<"6000">>), Leaf(<<"40">>)>>)
Sides == {Array(<<>>), Array(<<Level>>),
          Array(<<Level, Array(<<Leaf(<<"40">>)>>)>>)}
Books ==
  {Object(<<Member(<<"asks">>, a), Member(<<"bids">>, Array(<<Level>>))>>) :
     a \in Sides}
  \cup {Object(<<Member(<<"asks">>, Array(<<>>)), Member(<<"state">>, l)>>) :
          l \in Leaves}
  \cup {Object(<<Member(<<"asks">>, Array(<<>>)),
                 Member(<<"asks", "NUL", "x">>, a)>>) : a \in Sides}
SomeDocuments ==
  {Object(<<Member(<<"result">>, book)>>) : book \in Books}
  \cup {Object(<<Member(<<"result">>, Array(<<>>)),
                 Member(<<"result">>, book)>>) :
          book \in Books}
SomeValues ==
  Leaves \cup {Leaf(<<"40">>), Level, Array(<<Leaf(<<"40">>)>>)}
  \cup Sides \cup Books \cup SomeDocuments

SomeStreams == StreamsOf(2, 3)
=============================================================================
