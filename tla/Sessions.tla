------------------------------ MODULE Sessions ------------------------------
(***************************************************************************)
(* What a Daemon promises over its life: sessions, one after the other.    *)
(* While one runs, the peers it shows follow those of its P2P loop as      *)
(* PeerFeed says; every session begins with nothing, and nothing of it is  *)
(* left for the next.                                                      *)
(***************************************************************************)
EXTENDS PeerFeed

VARIABLE
  up        \* the daemon runs

sessionVars == <<up, table, feed, listed>>

-----------------------------------------------------------------------------
SessionsInit ==
  /\ up = FALSE
  /\ Init

\* Daemon::start: table, channel and list are empty.
Begin ==
  /\ ~ up
  /\ up' = TRUE
  /\ UNCHANGED <<table, feed, listed>>

\* Daemon::stop: what the session knew counts no more.
End ==
  /\ up
  /\ up' = FALSE
  /\ table' = {}
  /\ feed' = <<>>
  /\ listed' = {}

\* The P2P loop and the event handler of the session.
Work ==
  /\ up
  /\ Next
  /\ UNCHANGED up

SessionsNext == Begin \/ End \/ Work

SessionsSpec == SessionsInit /\ [][SessionsNext]_sessionVars

=============================================================================
