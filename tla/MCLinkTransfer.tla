--------------------------- MODULE MCLinkTransfer ---------------------------
(* Small instances of LinkTransfer for TLC. *)
EXTENDS LinkTransfer, TLC

CONSTANTS h, e

\* One-way traffic: an eof with the number of the next sof, a short message, and
\* one whose numbers wrap around.
OneWay == (h :> <<3, 1, 4>>) @@ (e :> <<>>)

\* The eof of the first message has number 1, like the sof of the second: the
\* only place where a late answer can be taken for the right one.
ThreeThenOne == (h :> <<3, 1>>) @@ (e :> <<>>)

\* The same with traffic in the other direction.
Duplex == (h :> <<3, 1>>) @@ (e :> <<1>>)

\* A single message of a single fragment.
One == (h :> <<1>>) @@ (e :> <<>>)
=============================================================================
