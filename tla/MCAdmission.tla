---------------------------- MODULE MCAdmission ----------------------------
(* Instance of Admission for TLC: every key of up to two characters, and   *)
(* of three over a letter and the percent sign.  The characters are one of *)
(* each width of UTF-8, the ones with a meaning in a URL and a control     *)
(* character of one byte and of two.  MaxKeyLen, in bytes, is met and      *)
(* exceeded.                                                               *)
EXTENDS Admission

letter == 97
eacute == <<195, 169>>
euro == <<226, 130, 172>>
thumb == <<240, 159, 145, 141>>
nextLine == <<194, 133>>
characters ==
  {<<letter>>, <<Percent>>, <<Plus>>, <<Ampersand>>, <<10>>, nextLine, eacute, euro, thumb}
MCKeys ==
  {FlattenSeq(s) :
     s \in BoundedSeq(characters, 2) \cup BoundedSeq({<<letter>>, <<Percent>>}, 3)}
MCUserKeys == {NoKey, <<letter>>, <<letter, Plus>>, <<10>> \o nextLine \o euro}

\* /w, /w?n=a, /w?nkey=a, /w?key=a, /w?key= with no key, and /w?key=%E2, the
\* lead byte of a character without the rest
root == <<47, 119>>
MCPaths ==
  {root, root \o <<QuestionMark, 110, EqualSign, letter>>,
   root \o <<QuestionMark, 110>> \o KeyQueryParam \o <<EqualSign, letter>>,
   root \o <<QuestionMark>> \o KeyQueryParam \o <<EqualSign, letter>>,
   root \o <<QuestionMark>> \o KeyQueryParam \o <<EqualSign>>,
   root \o <<QuestionMark>> \o KeyQueryParam \o <<EqualSign>> \o EscapedByte(226)}
=============================================================================
