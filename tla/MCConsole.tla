------------------------------ MODULE MCConsole ------------------------------
(* Console for TLC, and what its reference definition of the lines means.  *)
EXTENDS Console, SequencesExt

Marker == <<"x", "x">>

\* The text between line feed k and the next one, without them.
LineFeeds(s) == {0} \cup {i \in DOMAIN s : s[i] = Newline}
LineFrom(s, k) ==
  LET later == {i \in DOMAIN s : i > k /\ s[i] = Newline}
  IN  SubSeq(s, k + 1, (IF later = {} THEN Len(s) + 1 ELSE Min(later)) - 1)

\* A line in pieces of Piece bytes, the last one shorter unless it fits; an
\* empty line is one empty piece.
PieceCount(l) == IF l = <<>> THEN 1 ELSE (Len(l) + Piece - 1) \div Piece
Pieces(l) ==
  [p \in 1..PieceCount(l) |->
     Trimmed(SubSeq(l, (p - 1) * Piece + 1, Min({p * Piece, Len(l)})))]

\* What is cut of a text: all pieces of its lines but the last of the unended one.
Expected(s) ==
  LET starts == SetToSortSeq(LineFeeds(s), <)
  IN  Front(FlattenSeq([k \in DOMAIN starts |-> Pieces(LineFrom(s, starts[k]))]))

Unended(s) == LineFrom(s, Max(LineFeeds(s)))

\* Taken goes from byte to byte; this is what it comes to: the lines of a text, each in
\* pieces, the last of them apart when its end is not there.
ASSUME TakenIsExpected ==
  \A n \in 0..MaxReceived : \A s \in [1..n -> Byte] :
    LET all == Taken(s, n)
    IN  /\ all.lines = Expected(s)
        /\ (all.rest = <<>>) = (Unended(s) = <<>>)
        /\ all.rest # <<>> => Trimmed(all.rest) = Last(Pieces(Unended(s)))
=============================================================================
