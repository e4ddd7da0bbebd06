---------------------------- MODULE XrplWatcher ----------------------------
(***************************************************************************)
(* runReconnectingXrplWatcher (xrplWatcher.ts): the loop that keeps one    *)
(* XRPL address subscribed, with a growing pause between connections.      *)
(***************************************************************************)
EXTENDS Naturals, FiniteSetsExt

CONSTANTS
  InitialBackoff,  \* initialBackoffMs, in some unit
  MaxBackoff,      \* maxBackoffMs, in that unit
  MaxShort         \* bound on the ghost counter `short'

ASSUME BackoffAssumption ==
  /\ InitialBackoff \in Nat \ {0} /\ MaxBackoff \in Nat /\ MaxShort \in Nat
  /\ InitialBackoff <= MaxBackoff
  /\ InitialBackoff * 2^MaxShort >= MaxBackoff

VARIABLES
  loop,     \* where the loop is
  backoff,  \* backoffMs
  aborted,  \* the abort signal
  short     \* observability only: pauses since the loop began, or since the
            \* last connection that lasted a minute

watcherVars == <<loop, backoff, aborted, short>>

(***************************************************************************)
(* "deaf": connected, but the signal had been aborted before the loop      *)
(* began to listen to it, so that only a disconnection ends the wait.      *)
(***************************************************************************)
Loops == {"off", "connecting", "connected", "deaf", "sleeping", "ended"}

Subscribed == loop \in {"connected", "deaf"}

WatcherOff ==
  /\ loop' = "off" /\ aborted' = FALSE /\ backoff' = InitialBackoff /\ short' = 0

WatcherStarts ==
  /\ loop = "off" /\ loop' = "connecting"
  /\ UNCHANGED <<backoff, aborted, short>>

(***************************************************************************)
(* watchXrplAddress resolves, or any of its calls fails.                   *)
(***************************************************************************)
Connects ==
  /\ loop = "connecting"
  /\ loop' = IF aborted THEN "deaf" ELSE "connected"
  /\ UNCHANGED <<backoff, aborted, short>>

AfterWait == loop' = IF aborted THEN "ended" ELSE "sleeping"

ConnectFails ==
  /\ loop = "connecting"
  /\ AfterWait
  /\ UNCHANGED <<backoff, aborted, short>>

(***************************************************************************)
(* Mutant of Disconnects: backoffMs is reset after every connection.       *)
(***************************************************************************)
DisconnectsForgetting(minute) ==
  /\ Subscribed
  /\ AfterWait
  /\ backoff' = InitialBackoff
  /\ short' = IF minute /\ ~aborted THEN 0 ELSE short
  /\ UNCHANGED aborted

(***************************************************************************)
(* The client disconnects, after a minute or earlier.                      *)
(***************************************************************************)
Disconnects(minute) ==
  /\ Subscribed
  /\ AfterWait
  /\ IF minute /\ ~aborted THEN backoff' = InitialBackoff /\ short' = 0
                           ELSE UNCHANGED <<backoff, short>>
  /\ UNCHANGED aborted

AbortHeard ==
  /\ loop = "connected" /\ aborted
  /\ loop' = "ended"
  /\ UNCHANGED <<backoff, aborted, short>>

(***************************************************************************)
(* Mutants of Wakes: the pause has no maximum; the loop goes on whatever   *)
(* the signal says; it gives up once the pause cannot grow.                *)
(***************************************************************************)
WakesUncapped ==
  /\ loop = "sleeping"
  /\ loop' = IF aborted THEN "ended" ELSE "connecting"
  /\ backoff' = 2 * backoff
  /\ short' = Min({short + 1, MaxShort})
  /\ UNCHANGED aborted

WakesWhateverTheSignal ==
  /\ loop = "sleeping"
  /\ loop' = "connecting"
  /\ backoff' = Min({2 * backoff, MaxBackoff})
  /\ short' = Min({short + 1, MaxShort})
  /\ UNCHANGED aborted

WakesWhileThePauseGrows ==
  /\ loop = "sleeping"
  /\ loop' = IF aborted \/ backoff = MaxBackoff THEN "ended" ELSE "connecting"
  /\ backoff' = Min({2 * backoff, MaxBackoff})
  /\ short' = Min({short + 1, MaxShort})
  /\ UNCHANGED aborted

(***************************************************************************)
(* The pause is over.                                                      *)
(***************************************************************************)
Wakes ==
  /\ loop = "sleeping"
  /\ loop' = IF aborted THEN "ended" ELSE "connecting"
  /\ backoff' = Min({2 * backoff, MaxBackoff})
  /\ short' = Min({short + 1, MaxShort})
  /\ UNCHANGED aborted

Abort == ~aborted /\ aborted' = TRUE /\ UNCHANGED <<loop, backoff, short>>

(***************************************************************************)
(* Every pause is the first one doubled once per pause since the last      *)
(* connection that lasted, up to the maximum: a server that drops its      *)
(* clients at once is not asked more and more often.                       *)
(***************************************************************************)
BackoffDoublesToItsMaximum ==
  backoff = Min({InitialBackoff * 2^short, MaxBackoff})
=============================================================================
