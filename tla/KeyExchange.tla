----------------------------- MODULE KeyExchange -----------------------------
(***************************************************************************)
(* What a ZRTP handshake promises its two ends: the responder is the first *)
(* to know that a secret was agreed, the initiator ends up with that same  *)
(* secret, and an end that has not finished may give up at any time.       *)
(***************************************************************************)
CONSTANTS
    Secrets,    \* what may be agreed
    None        \* no secret yet

VARIABLES
    initiatorSecret, responderSecret,   \* what each end has agreed
    initiatorDone, responderDone        \* the ends that finished or gave up

exchangeVars == <<initiatorSecret, responderSecret, initiatorDone, responderDone>>

ExchangeInit ==
    /\ initiatorSecret = None /\ responderSecret = None
    /\ initiatorDone = FALSE /\ responderDone = FALSE

ResponderAgrees(s) ==
    /\ ~responderDone
    /\ responderSecret' = s /\ responderDone' = TRUE
    /\ UNCHANGED <<initiatorSecret, initiatorDone>>

InitiatorAgrees ==
    /\ ~initiatorDone
    /\ responderSecret # None
    /\ initiatorSecret' = responderSecret /\ initiatorDone' = TRUE
    /\ UNCHANGED <<responderSecret, responderDone>>

InitiatorGivesUp ==
    /\ ~initiatorDone /\ initiatorDone' = TRUE
    /\ UNCHANGED <<initiatorSecret, responderSecret, responderDone>>

ResponderGivesUp ==
    /\ ~responderDone /\ responderDone' = TRUE
    /\ UNCHANGED <<initiatorSecret, responderSecret, initiatorDone>>

ExchangeNext ==
    \/ \E s \in Secrets : ResponderAgrees(s)
    \/ InitiatorAgrees
    \/ InitiatorGivesUp
    \/ ResponderGivesUp

ExchangeSpec == ExchangeInit /\ [][ExchangeNext]_exchangeVars
=============================================================================
