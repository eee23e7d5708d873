------------------------------- MODULE HttpReply -------------------------------
(***************************************************************************)
(* What performCurlRequest leaves in the caller's response string, and     *)
(* what the caller makes of it.  A string is a sequence of pieces:         *)
(*   "head"    a complete header block, up to and with "\r\n\r\n"          *)
(*   "part"    the beginning of a header block or of a body                *)
(*   "result"  a complete body that reports what the exchange has done     *)
(*   "error"   any other complete body: an error of the exchange, the page *)
(*             of a gateway, of any HTTP status (CURLOPT_FAILONERROR is    *)
(*             not set), perhaps empty                                     *)
(* Header blocks are in the string because of CURLOPT_HEADER               *)
(* (CurlConnectionManager.cpp:49), those of redirections too.              *)
(***************************************************************************)
EXTENDS Naturals, Sequences, SequencesExt

CONSTANT MaxRedirects  \* CURLOPT_MAXREDIRS (3 in the code)

ASSUME RedirectAssumption == MaxRedirects \in Nat

Bodies == {<<"result">>, <<"error">>}

\* The header blocks of a reply and of the redirections before it.
Headers(least) == UNION {[1 .. n -> {"head"}] : n \in least .. MaxRedirects + 1}

\* What an attempt that ends well appends.
Replies == {headers \o body : headers \in Headers(1), body \in Bodies}

\* What an attempt that ends in an error may have appended before: a reply
\* broken off anywhere by the time limit or a reset, or one redirection more
\* than curl follows.
Remnants == {headers \o rest : headers \in Headers(0), rest \in {<<>>, <<"part">>}}

\* The buffer after an attempt that ended well and at most n that did not.
SuccessBuffers(n) ==
  LET Junk == UNION {[1 .. m -> Remnants] : m \in 0 .. n}
  IN  {FlattenSeq(junk) \o reply : junk \in Junk, reply \in Replies}

\* readBuffer.substr(readBuffer.find("\r\n\r\n") + 4): all that follows the
\* first complete header block.
Body(buffer) ==
  LET first == CHOOSE i \in DOMAIN buffer :
                 /\ buffer[i] = "head"
                 /\ \A j \in 1 .. i - 1 : buffer[j] # "head"
  IN  SubSeq(buffer, first + 1, Len(buffer))

\* The JSON parser sees one complete body and nothing else.
IsOneBody(text) == text \in Bodies
=============================================================================
