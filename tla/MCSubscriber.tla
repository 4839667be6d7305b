---------------------------- MODULE MCSubscriber ----------------------------
(* Small instance of Subscriber.  The latencies wrap at 8; with the last two *)
(* of the clock differences some of the raw latencies do.                    *)
EXTENDS Subscriber

MCDelays == {0, 1, 3}
MCSkews == {2, 6, -2}
=============================================================================
