--------------------------- MODULE ChannelServer ---------------------------
(***************************************************************************)
(* src/matlab/Quadriga.m: the channel server.  A client sends samples to   *)
(* its REP socket, and gets them back as the radio channel would deliver   *)
(* them.  A window lets the user change the settings of the channel, pause *)
(* the server and stop it.                                                 *)
(*                                                                         *)
(* MATLAB runs everything in one thread: the window's callbacks run only   *)
(* inside a drawnow or a pause of the main loop (lines 200-366) or of      *)
(* updateChannelModel.  Those places are the Yielding stages; at each of   *)
(* them any number of callbacks may run before the loop goes on.           *)
(*                                                                         *)
(* updateChannelModel declares fig, statusText and currentGainText global, *)
(* the script does not (51, 374): there they are empty, so that its test   *)
(* of the window (376) never fails and its set calls do nothing.           *)
(***************************************************************************)
EXTENDS Integers

CONSTANTS
  Places,   \* distances, scenarios and numbers of clusters
  Heights,  \* antenna heights; may contain NaN
  Models,   \* manual path loss models
  NaN,      \* what str2double returns for text that is no number
  Flat,     \* the frequency response of ones
  Floor,    \* the square root gain 1e-10
  None,     \* no request
  InitSettings,
  max_errors

Modes == {"Manual", "FullQDR"}
AllSettings == [mode : Modes, place : Places, height : Heights, pl : Models]

ASSUME ServerAssumption ==
  /\ InitSettings \in AllSettings
  /\ InitSettings.height # NaN
  /\ max_errors \in Nat \ {0}

VARIABLES
  stage,
  pauseFlag,
  stopFlag,
  updateChannelFlag,
  channelParams, \* the settings in channelParams
  H,             \* channelParams.H_freq_normalized: what it was computed for
  gain,          \* channelParams.pg_lin_sqrt_applied: the same
  figOpen,       \* ishandle(fig), in the script
  error_count,
  owes,          \* the REP socket owes a reply
  request,       \* the request that waits in the REP socket
  client,        \* the REQ client: "idle" or "waiting"
  \* History, read by no guard.
  computed,      \* the settings of the last run of updateChannelModel
  applied,       \* the settings of the last Apply that was not refused
  late,          \* settings were applied when computed was already settled
  afterStop      \* requests taken since stopFlag was set

flagVars == <<pauseFlag, stopFlag, updateChannelFlag>>
channelVars == <<channelParams, H, gain>>
socketVars == <<error_count, owes, request, client>>
histVars == <<computed, applied, late, afterStop>>
vars == <<stage, flagVars, channelVars, figOpen, socketVars, histVars>>

\* "draw": drawnow, 209.  "begin": drawnow, 384.  "show": drawnow, 466 or 479.
\* "paused", "idle", "backoff": pause, 229, 253 or 261, 270 or 364.
Yielding == {"draw", "begin", "show", "paused", "idle", "backoff"}
Stages == Yielding \cup {"top", "check", "compute", "serve", "reply", "closed"}

\* What a request may be: samples, bytes that are no whole number of samples,
\* or nothing.
Requests == {"samples", "bytes", "empty"}

\* The settings that the mode makes use of: the manual path loss model plays
\* no part in full QuaDRiGa mode.
Effective(s) ==
  [s EXCEPT !.pl = IF s.mode = "Manual" THEN s.pl ELSE None]
EffectiveSettings == {Effective(s) : s \in AllSettings}

\* Lines 51-90 and the window: the initial update may fail, but it leaves a
\* response and a gain behind, so the check that follows it passes.
Init ==
  /\ stage = "top"
  /\ pauseFlag = FALSE
  /\ stopFlag = FALSE
  /\ updateChannelFlag = FALSE
  /\ channelParams = InitSettings
  /\ H \in {Effective(InitSettings), Flat}
  /\ gain \in {Effective(InitSettings), Floor}
  /\ figOpen = TRUE
  /\ error_count = 0
  /\ owes = FALSE
  /\ request = None
  /\ client = "idle"
  /\ computed = InitSettings
  /\ applied = InitSettings
  /\ late = FALSE
  /\ afterStop = 0

Goto(s) == stage' = s

-----------------------------------------------------------------------------
(* The callbacks.                                                          *)

Callback == stage \in Yielding /\ figOpen

TogglePause ==
  /\ Callback
  /\ pauseFlag' = ~pauseFlag
  /\ UNCHANGED <<stage, stopFlag, updateChannelFlag, channelVars, figOpen,
                 socketVars, histVars>>

StopScript ==
  /\ Callback
  /\ stopFlag' = TRUE
  /\ UNCHANGED <<stage, pauseFlag, updateChannelFlag, channelVars, figOpen,
                 socketVars, histVars>>

CloseFigure ==
  /\ Callback
  /\ stopFlag' = TRUE
  /\ figOpen' = FALSE
  /\ UNCHANGED <<stage, pauseFlag, updateChannelFlag, channelVars, socketVars,
                 histVars>>

\* Heights are looked at in manual mode only; other invalid input changes
\* nothing and is left out.
Valid(s) == s.mode = "Manual" => s.height # NaN

\* abs(a - b) > 1e-6 is false when a or b is NaN.
HeightChanged(a, b) == a # NaN /\ b # NaN /\ a # b

\* Mutant: no look at the antenna heights.
NeedsUpdateLowly(old, new) ==
  \/ old.mode # new.mode
  \/ old.place # new.place
  \/ new.mode = "Manual" /\ old.pl # new.pl

NeedsUpdate(old, new) ==
  \/ old.mode # new.mode
  \/ old.place # new.place
  \/ HeightChanged(old.height, new.height)
  \/ new.mode = "Manual" /\ old.pl # new.pl

ApplyParameters(s) ==
  /\ Callback
  /\ ~stopFlag
  /\ Valid(s)
  /\ applied' = s
  /\ \/ /\ NeedsUpdate(channelParams, s)
        /\ channelParams' = s
        /\ updateChannelFlag' = TRUE
        /\ late' = (late \/ stage = "show")
     \/ /\ ~NeedsUpdate(channelParams, s)
        /\ UNCHANGED <<channelParams, updateChannelFlag, late>>
  /\ UNCHANGED <<stage, pauseFlag, stopFlag, H, gain, figOpen, socketVars,
                 computed, afterStop>>

-----------------------------------------------------------------------------
(* The start of a pass of the loop, lines 200-222.                         *)

\* The window is gone: the loop ends.
Leave ==
  /\ stopFlag' = TRUE
  /\ Goto("top")

\* A pass begins; drawnow is called at most every tenth of a second.
Top ==
  /\ stage = "top"
  /\ ~stopFlag
  /\ IF figOpen
     THEN /\ Goto("draw") \/ Goto("check")
          /\ UNCHANGED stopFlag
     ELSE Leave
  /\ UNCHANGED <<pauseFlag, updateChannelFlag, channelVars, figOpen,
                 socketVars, histVars>>

Drawn ==
  /\ stage = "draw"
  /\ IF figOpen THEN Goto("check") /\ UNCHANGED stopFlag ELSE Leave
  /\ UNCHANGED <<pauseFlag, updateChannelFlag, channelVars, figOpen,
                 socketVars, histVars>>

Check ==
  /\ stage = "check"
  /\ IF updateChannelFlag THEN Goto("begin") ELSE Goto("serve")
  /\ UNCHANGED <<flagVars, channelVars, figOpen, socketVars, histVars>>

-----------------------------------------------------------------------------
(* updateChannelModel, with getQuadrigaHfreq and calculateManualPathLoss.  *)

Begun ==
  /\ stage = "begin"
  /\ Goto("compute")
  /\ UNCHANGED <<flagVars, channelVars, figOpen, socketVars, histVars>>

\* External: what channel.fr of QuaDRiGa returns.  "pages": a response along the
\* third dimension, [Rx, Tx, Freq].  "snapshots": pages of several places.
\* "columns": responses along the first.  "other": anything else, exceptions
\* included, and a single column, of which MATLAB keeps no third dimension to
\* look at (543).
Shapes == {"pages", "snapshots", "columns", "other"}

\* Mutant: the number of rows is not looked at again (552).
getQuadrigaHfreqLax(shape) ==
  CASE shape \in {"pages", "columns"} -> "column"
    [] shape = "snapshots" -> "longer"
    [] OTHER -> "empty"

\* getQuadrigaHfreq: one column of N_fft rows, or nothing.  Snapshots, whose
\* pages line up in one longer column, do not pass line 552.
getQuadrigaHfreq(shape) ==
  IF shape \in {"pages", "columns"} THEN "column" ELSE "empty"

\* Lines 446-457: a response of the wrong size leaves the previous one in place.
\* (That one is never empty or of another length.)  It is flat, where QuaDRiGa's
\* has no power.
StoredResponses(raw) ==
  IF raw = "column" THEN {Effective(channelParams), Flat} ELSE {H}

\* A new response, and a gain for the present settings or, where the path loss
\* is infinite or no number, the lowest; or, after an error, also that of having
\* no response (410), the old response and the lowest gain.
ComputeOutcome(h, g) ==
  \/ \E shape \in Shapes :
       /\ getQuadrigaHfreq(shape) # "empty"
       /\ h \in StoredResponses(getQuadrigaHfreq(shape))
       /\ g \in {Effective(channelParams), Floor}
  \/ /\ h = H
     /\ g = Floor

Compute ==
  /\ stage = "compute"
  /\ ComputeOutcome(H', gain')
  /\ computed' = channelParams
  /\ late' = FALSE
  /\ Goto("show")
  /\ UNCHANGED <<flagVars, channelParams, figOpen, socketVars, applied,
                 afterStop>>

\* Line 220, after updateChannelModel has returned.
Shown ==
  /\ stage = "show"
  /\ updateChannelFlag' = FALSE
  /\ IF figOpen THEN Goto("serve") /\ UNCHANGED stopFlag ELSE Leave
  /\ UNCHANGED <<pauseFlag, channelVars, figOpen, socketVars, histVars>>

-----------------------------------------------------------------------------
(* Serving a request, lines 224-365.                                       *)

Pause ==
  /\ stage = "serve"
  /\ pauseFlag
  /\ Goto("paused")
  /\ UNCHANGED <<flagVars, channelVars, figOpen, socketVars, histVars>>

NoRequest ==
  /\ stage = "serve"
  /\ ~pauseFlag
  /\ ~owes
  /\ request = None
  /\ Goto("idle")
  /\ UNCHANGED <<flagVars, channelVars, figOpen, socketVars, histVars>>

\* A request without bytes looks like none (252) and is not replied to.
Receive ==
  /\ stage = "serve"
  /\ ~pauseFlag
  /\ ~owes
  /\ request # None
  /\ owes' = TRUE
  /\ request' = None
  /\ afterStop' = IF stopFlag THEN afterStop + 1 ELSE afterStop
  /\ IF request = "empty"
     THEN Goto("idle") /\ UNCHANGED error_count
     ELSE Goto("reply") /\ error_count' = 0
  /\ UNCHANGED <<flagVars, channelVars, figOpen, client, computed, applied, late>>

\* Mutant: only the first error counts.
CountFirstError == error_count' = 1 /\ UNCHANGED stopFlag

\* An error of recv or send; too many of them in a row stop the script.
CountError ==
  /\ error_count' = error_count + 1
  /\ stopFlag' = (stopFlag \/ error_count' >= max_errors)

\* recv fails as long as the socket owes a reply.
ReceiveFails ==
  /\ stage = "serve"
  /\ ~pauseFlag
  /\ owes
  /\ CountError
  /\ Goto("backoff")
  /\ UNCHANGED <<pauseFlag, updateChannelFlag, channelVars, figOpen, owes,
                 request, client, histVars>>

\* Mutant: the next request is taken at once.
ReplyAndServe ==
  /\ stage = "reply"
  /\ owes' = FALSE
  /\ client' = "idle"
  /\ error_count' = 0
  /\ Goto("serve")
  /\ UNCHANGED <<flagVars, channelVars, figOpen, request, histVars>>

\* Samples are answered with samples, other bytes and failures with nothing.
Reply ==
  /\ stage = "reply"
  /\ owes' = FALSE
  /\ client' = "idle"
  /\ error_count' = 0
  /\ Goto("top")
  /\ UNCHANGED <<flagVars, channelVars, figOpen, request, histVars>>

\* The empty reply, uint8([]), is one the Java binding may refuse.
ReplyFails ==
  /\ stage = "reply"
  /\ CountError
  /\ Goto("backoff")
  /\ UNCHANGED <<pauseFlag, updateChannelFlag, channelVars, figOpen, owes,
                 request, client, histVars>>

\* Mutant: the loop keeps to itself while the server is paused.
ContinuePaused ==
  /\ stage \in {"paused", "idle", "backoff"}
  /\ Goto(IF pauseFlag THEN "paused" ELSE "top")
  /\ UNCHANGED <<flagVars, channelVars, figOpen, socketVars, histVars>>

\* The pauses are over.
Continue ==
  /\ stage \in {"paused", "idle", "backoff"}
  /\ Goto("top")
  /\ UNCHANGED <<flagVars, channelVars, figOpen, socketVars, histVars>>

\* Line 368.
Cleanup ==
  /\ stage = "top"
  /\ stopFlag
  /\ Goto("closed")
  /\ figOpen' = FALSE
  /\ UNCHANGED <<flagVars, channelVars, socketVars, histVars>>

-----------------------------------------------------------------------------

\* External: a client sends a request and waits for the reply.
Send ==
  /\ client = "idle"
  /\ client' = "waiting"
  /\ request' \in Requests
  /\ UNCHANGED <<stage, flagVars, channelVars, figOpen, error_count, owes, histVars>>

Loop ==
  \/ Top \/ Drawn \/ Check
  \/ Begun \/ Compute \/ Shown
  \/ Pause \/ NoRequest \/ Receive \/ ReceiveFails
  \/ Reply \/ ReplyFails
  \/ Continue \/ Cleanup

User ==
  \/ TogglePause \/ StopScript \/ CloseFigure
  \/ \E s \in AllSettings : ApplyParameters(s)

Done == stage = "closed" /\ UNCHANGED vars

Next == Loop \/ User \/ Send \/ Done

Spec == Init /\ [][Next]_vars

\* A drawnow and a pause end, and the loop goes on.
FairSpec == Spec /\ WF_vars(Loop)

-----------------------------------------------------------------------------

TypeOK ==
  /\ stage \in Stages
  /\ pauseFlag \in BOOLEAN
  /\ stopFlag \in BOOLEAN
  /\ updateChannelFlag \in BOOLEAN
  /\ channelParams \in AllSettings
  /\ H \in EffectiveSettings \cup {Flat}
  /\ gain \in EffectiveSettings \cup {Floor}
  /\ figOpen \in BOOLEAN
  /\ error_count \in 0 .. max_errors
  /\ owes \in BOOLEAN
  /\ request \in Requests \cup {None}
  /\ client \in {"idle", "waiting"}
  /\ computed \in AllSettings
  /\ applied \in AllSettings
  /\ late \in BOOLEAN
  /\ afterStop \in Nat

\* Settings that were applied, whether they were found to be new or to be
\* "effectively unchanged" (837), are those the channel was computed for as
\* soon as no update is pending; but for settings applied in the last drawnow
\* of updateChannelModel.
SettingsInForce ==
  ~updateChannelFlag /\ ~late => Effective(computed) = Effective(applied)

\* "Channel model update requested." (829): the same without the exception.
UpdatesTakeEffect ==
  ~updateChannelFlag => Effective(computed) = Effective(applied)

\* The samples get the channel the user asked for: unless an update is pending,
\* or was asked for in the last drawnow of one, the gain is that of the settings
\* applied last, or the lowest where their update failed; and at no time is it
\* used with the response of other settings, which the code would do (449-457)
\* if getQuadrigaHfreq ever returned a response of the wrong size.
ChannelInForce ==
  /\ gain # Floor => H \in {gain, Flat}
  /\ ~updateChannelFlag /\ ~late => gain \in {Effective(applied), Floor}

\* Once stopFlag is set at most one more request is taken from the socket:
\* the one of the pass in which the button was pressed.
StopIsPrompt == afterStop <= 1

\* Stopping the script, or closing its window, ends the loop, also when it is
\* paused, when an update is pending, and when clients keep sending.
StopEnds == stopFlag ~> stage = "closed"

\* A client gets its reply unless the server is paused or stops: a REP socket
\* that can receive no more, because a reply was left out (252) or could not
\* be sent, is noticed and ends the script.
ClientServed == client = "waiting" ~> (client = "idle" \/ pauseFlag \/ stopFlag)
=============================================================================
