--------------------------- MODULE MCHidKeyboard ---------------------------
\* A tap between two helpers: one types a key with a pause inside, as tap does; the
\* other sends one key and meets a token it cannot type.
EXTENDS HidKeyboard

CONSTANTS typist, other, k

Say(key) == [kind |-> "report", arg |-> key]
Rest(n) == [kind |-> "pause", arg |-> n]
Bad == [kind |-> "bad", arg |-> None]

Taps ==
    [h \in Helpers |->
        IF h = typist THEN <<Say(Neutral), Say(k), Rest(1), Say(Neutral)>>
                      ELSE <<Say(k), Bad>>]
=============================================================================
