----------------------------- MODULE MCTextPath -----------------------------
(* TextPath with lines at the edges of every size.                         *)
EXTENDS TextPath

Piece(b, e, u, w, s) ==
  [bytes |-> b, escaped |-> e, utf8 |-> u, words |-> w, status |-> s, typed |-> TRUE]

Plain(b) == Piece(b, b, TRUE, 1, "no")

Command(v, rest) == [verb |-> v, first |-> Plain(7), rest |-> rest]

Phrase(first, rest) == [verb |-> "text", first |-> first, rest |-> rest]

\* Names of 2, 3 and 9 bytes; 8 bytes that JSON writes as 48; two words; no
\* UTF-8; and no name.
Names == {Plain(2), Plain(3), Plain(9), Piece(8, 48, TRUE, 1, "no"),
          Piece(7, 7, TRUE, 2, "no"), Piece(4, 4, FALSE, 1, "no"), Empty}

Statuses == {Piece(4, 4, TRUE, 1, "small"), Piece(4, 4, TRUE, 1, "capital"), Empty}

\* One word; a text that just does not fit command; one that just fits the
\* JSON; that just does not, plain and escaped; that outgrows 255 bytes; no
\* UTF-8; and a word that ends where the line lies in memory, with a rest and
\* without.
Phrases ==
  {Phrase(Plain(2), Empty), Phrase(Plain(2), Plain(13)), Phrase(Plain(20), Plain(202)),
   Phrase(Plain(20), Plain(203)), Phrase(Plain(1), Piece(38, 222, TRUE, 4, "no")),
   Phrase(Plain(2), Plain(260)), Phrase(Piece(3, 3, FALSE, 1, "no"), Empty),
   Phrase(Plain(LineAt), Plain(5)), Phrase(Plain(LineAt), Empty)}

AllLines ==
  {Command("\\login", n) : n \in Names} \cup {Command("\\status", s) : s \in Statuses}
    \cup Phrases \cup {Command("\\logout", Empty), Command("\\other", Plain(3))}

StrayTexts ==
  {[Piece(5, 5, TRUE, 1, "no") EXCEPT !.typed = FALSE],
   [Piece(8, 8, FALSE, 1, "no") EXCEPT !.typed = FALSE],
   [Piece(300, 300, TRUE, 1, "no") EXCEPT !.typed = FALSE]}

\* The user sends nothing while an answer and an announcement are both on
\* their way.
Paced == request = None \/ answer = None \/ relay = None
=============================================================================
