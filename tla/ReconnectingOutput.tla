------------------------- MODULE ReconnectingOutput -------------------------
(***************************************************************************)
(* What an output stream that reconnects promises its owner, with threads, *)
(* locks, back-off and the backend hidden.  The stream that carries the    *)
(* audio may break at any time; a break is shown by is_disconnected() in   *)
(* the end, and nothing but a fresh stream takes that away again.          *)
(***************************************************************************)

VARIABLES
    link,      \* the current stream: "up" or "broken"; "closed" once released
    visible    \* is_disconnected()

linkVars == <<link, visible>>

Init == link = "up" /\ visible = FALSE

Break == link = "up" /\ link' = "broken" /\ UNCHANGED visible

Show == link = "broken" /\ visible' = TRUE /\ UNCHANGED link

\* A fresh stream takes over.  It may have broken since it was opened, and that
\* may have been shown.
Replace ==
    /\ link = "broken" /\ visible
    /\ link' \in {"up", "broken"}
    /\ visible' \in BOOLEAN /\ (visible' => link' = "broken")

Close == link # "closed" /\ link' = "closed" /\ visible' = FALSE

Next == Break \/ Show \/ Replace \/ Close

Safety == Init /\ [][Next]_linkVars
Spec == Safety /\ WF_linkVars(Show)
=============================================================================
