----------------------------- MODULE ReplyDecoding -----------------------------
(***************************************************************************)
(* How the text of a reply becomes data (pure).                            *)
(*                                                                         *)
(* decompressGzip (order_management.cpp:122-155): the loop that collects   *)
(* what inflate writes, piece by piece, into a buffer of BufferSize bytes. *)
(* The bytes of the text are its positions 1, 2, ...                       *)
(*                                                                         *)
(* rapidjsonToNlohmannJson (utils.cpp:85-115): a rapidjson value has its   *)
(* members in a sequence, in which a name may occur twice; a nlohmann      *)
(* object is a function of the names.  A name and a leaf are sequences of  *)
(* tokens, in which "NUL" stands for the character; numbers, true, false   *)
(* and null are one token and keep their value.                            *)
(***************************************************************************)
EXTENDS Naturals, Sequences, SequencesExt

CONSTANTS
  BufferSize,  \* sizeof(outbuffer)
  Values       \* JSON values, with every value inside of them

ASSUME DecodingAssumption ==
  /\ BufferSize \in Nat \ {0}
  /\ \A v \in Values :
       \/ /\ v.type = "object" /\ v.members \in Seq(Range(v.members))
          /\ \A k \in DOMAIN v.members :
               LET m == v.members[k]
               IN  m.name \in Seq(Range(m.name)) /\ m.value \in Values
       \/ v.type = "array" /\ v.elements \in Seq(Values)
       \/ v.type = "leaf" /\ v.tokens \in Seq(Range(v.tokens))

-----------------------------------------------------------------------------
(* A stream is what the calls of inflate do: how many bytes each writes,   *)
(* and what the last one returns.  Z_OK means that something was written.  *)

StreamsOf(size, calls) ==
  {s \in [writes : UNION {[1 .. n -> 0 .. size] : n \in 1 .. calls},
          ret : {"Z_STREAM_END", "Z_DATA_ERROR", "Z_BUF_ERROR"}] :
     \A k \in 1 .. Len(s.writes) - 1 : s.writes[k] > 0}

WholeBuffer(outstring, outbuffer, total_out) ==  \* mutant: sizeof(outbuffer)
  outstring \o outbuffer
Appended(outstring, outbuffer, total_out) ==
  IF Len(outstring) < total_out
  THEN outstring \o SubSeq(outbuffer, 1, total_out - Len(outstring))
  ELSE outstring

\* One round: inflate overwrites the beginning of the buffer, the rest is old.
Round(z, n) ==
  LET total_out == z.total_out + n
      outbuffer == [k \in 1 .. BufferSize |->
                      IF k <= n THEN z.total_out + k ELSE z.outbuffer[k]]
  IN  [total_out |-> total_out, outbuffer |-> outbuffer,
       outstring |-> Appended(z.outstring, outbuffer, total_out)]

Start == [total_out |-> 0, outbuffer |-> [k \in 1 .. BufferSize |-> 0],
          outstring |-> <<>>]

OutputLoop(writes) == FoldLeft(Round, Start, writes).outstring

\* decompressGzip throws unless the last call has met the end of the stream.
Throws(s) == s.ret # "Z_STREAM_END"

\* The text that was compressed.
Whole(writes) == [k \in 1 .. FoldLeft(+, 0, writes) |-> k]

-----------------------------------------------------------------------------
\* result[name] = ...
Assign(result, name, v) ==
  [n \in DOMAIN result \cup {name} |-> IF n = name THEN v ELSE result[n]]

\* GetString(), taken for a C string.
CString(tokens) ==
  LET nul == SelectInSeq(tokens, LAMBDA t : t = "NUL")
  IN  IF nul = 0 THEN tokens ELSE SubSeq(tokens, 1, nul - 1)

rapidjsonToNlohmannJson[v \in Values] ==
  CASE v.type = "object" ->
         [type |-> "object",
          at |-> FoldLeft(LAMBDA result, m :
                   Assign(result, CString(m.name),
                          rapidjsonToNlohmannJson[m.value]),
                   <<>>, v.members)]
    [] v.type = "array" ->
         [type |-> "array",
          elements |-> FoldLeft(LAMBDA result, e :
                         Append(result, rapidjsonToNlohmannJson[e]),
                         <<>>, v.elements)]
    [] v.type = "leaf" -> [type |-> "leaf", tokens |-> CString(v.tokens)]

BeforeNul(tokens) ==
  CHOOSE p \in Prefixes(tokens) :
    /\ "NUL" \notin Range(p)
    /\ \/ p = tokens
       \/ tokens[Len(p) + 1] = "NUL"

\* What a value stands for: of members with one name the last counts, elements
\* keep their places, and a name or a string ends before its first NUL.
Meaning[v \in Values] ==
  CASE v.type = "object" ->
         LET Name(k) == BeforeNul(v.members[k].name)
             Named(n) == {k \in DOMAIN v.members : Name(k) = n}
             names == {Name(k) : k \in DOMAIN v.members}
             Final(n) == CHOOSE k \in Named(n) : \A j \in Named(n) : j <= k
         IN  [type |-> "object",
              at |-> [n \in names |-> Meaning[v.members[Final(n)].value]]]
    [] v.type = "array" ->
         [type |-> "array",
          elements |-> [k \in DOMAIN v.elements |-> Meaning[v.elements[k]]]]
    [] v.type = "leaf" ->
         [type |-> "leaf", tokens |-> BeforeNul(v.tokens)]
=============================================================================
