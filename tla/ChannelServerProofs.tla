------------------------- MODULE ChannelServerProofs -------------------------
(***************************************************************************)
(* Proofs about ChannelServer, for all settings and every max_errors.      *)
(*                                                                         *)
(* A pass of the loop counts one error at most, and takes one request at   *)
(* most: Bounds says in which stages the error that is one too many, and   *)
(* the request after a stop, may already have been counted.  Agreement     *)
(* strengthens SettingsInForce by what holds while an update is shown.     *)
(***************************************************************************)
EXTENDS ChannelServer, TLAPS

Ending == {"backoff", "idle", "top", "closed"}

ErrorsStop == error_count = max_errors => stopFlag /\ stage \in Ending
Bounds ==
  /\ ErrorsStop
  /\ ~stopFlag => afterStop = 0
  /\ afterStop = 0 \/ (afterStop = 1 /\ stage \in Ending \cup {"reply"})

IInv == TypeOK /\ Bounds

\* What the counters need of ServerAssumption.
LEMMA ErrorRange ==
  /\ max_errors \in Nat \ {0}
  /\ 0 \in 0 .. max_errors
  /\ 0 # max_errors
  BY ServerAssumption

\* Nothing but the loop moves the stage, so that callbacks and clients keep
\* what relates the stage to the counters.
LEMMA InitInv == Init => IInv
<1> SUFFICES ASSUME Init PROVE IInv
  OBVIOUS
<1>1. TypeOK
  <2>1. InitSettings \in AllSettings
    BY ServerAssumption
  <2>2. Effective(InitSettings) \in EffectiveSettings
    BY <2>1 DEF EffectiveSettings
  <2> QED BY <2>1, <2>2, ErrorRange DEF Init, TypeOK, Stages, Yielding
<1>2. Bounds
  BY ErrorRange DEF Init, Bounds, ErrorsStop
<1> QED BY <1>1, <1>2 DEF IInv

LEMMA TypeStep == IInv /\ [Next]_vars => TypeOK'
<1> USE DEF IInv, TypeOK, Stages, Yielding, Goto, socketVars, flagVars,
            channelVars, histVars
<1> SUFFICES ASSUME IInv, [Next]_vars PROVE TypeOK'
  OBVIOUS
<1>1. CASE Top BY <1>1 DEF Top, Leave
<1>2. CASE Drawn BY <1>2 DEF Drawn, Leave
<1>3. CASE Check BY <1>3 DEF Check
<1>4. CASE Begun BY <1>4 DEF Begun
<1>5. CASE Compute
  BY <1>5 DEF Compute, ComputeOutcome, StoredResponses, EffectiveSettings
<1>6. CASE Shown BY <1>6 DEF Shown, Leave
<1>7. CASE Pause BY <1>7 DEF Pause
<1>8. CASE NoRequest BY <1>8 DEF NoRequest
<1>9. CASE Receive BY <1>9, ErrorRange DEF Receive
<1>10. ASSUME CountError, stage \in {"serve", "reply"}
       PROVE error_count' \in 0 .. max_errors /\ stopFlag' \in BOOLEAN
  BY <1>10, ErrorRange DEF CountError, Bounds, ErrorsStop, Ending
<1>11. CASE ReceiveFails BY <1>10, <1>11 DEF ReceiveFails
<1>12. CASE Reply BY <1>12, ErrorRange DEF Reply
<1>13. CASE ReplyFails BY <1>10, <1>13 DEF ReplyFails
<1>14. CASE Continue BY <1>14 DEF Continue
<1>15. CASE Cleanup BY <1>15 DEF Cleanup
<1>16. CASE TogglePause BY <1>16 DEF TogglePause
<1>17. CASE StopScript BY <1>17 DEF StopScript
<1>18. CASE CloseFigure BY <1>18 DEF CloseFigure
<1>19. ASSUME NEW s \in AllSettings, ApplyParameters(s) PROVE TypeOK'
  <2>1. channelParams' \in AllSettings /\ applied' \in AllSettings
    BY <1>19 DEF ApplyParameters
  <2>2. updateChannelFlag' \in BOOLEAN /\ late' \in BOOLEAN
    <3>1. CASE NeedsUpdate(channelParams, s)
      <4>1. updateChannelFlag' = TRUE /\ late' = (late \/ stage = "show")
        BY <1>19, <3>1 DEF ApplyParameters
      <4> QED BY <4>1
    <3>2. CASE ~NeedsUpdate(channelParams, s)
      BY <1>19, <3>2 DEF ApplyParameters
    <3> QED BY <3>1, <3>2
  <2> QED BY <1>19, <2>1, <2>2 DEF ApplyParameters
<1>20. CASE Send BY <1>20 DEF Send, Requests
<1>21. CASE UNCHANGED vars BY <1>21 DEF vars
<1> QED BY <1>1, <1>2, <1>3, <1>4, <1>5, <1>6, <1>7, <1>8, <1>9, <1>11,
           <1>12, <1>13, <1>14, <1>15, <1>16, <1>17, <1>18, <1>19, <1>20,
           <1>21
        DEF Next, Loop, User, Done

LEMMA BoundsStep == IInv /\ [Next]_vars => Bounds'
<1> USE DEF IInv, Bounds, ErrorsStop, Ending, Goto, socketVars, flagVars,
            channelVars, histVars
<1> SUFFICES ASSUME IInv, [Next]_vars PROVE Bounds'
  OBVIOUS
<1>1. CASE Top BY <1>1 DEF Top, Leave
<1>2. CASE Drawn BY <1>2 DEF Drawn, Leave
<1>3. CASE Check BY <1>3 DEF Check
<1>4. CASE Begun BY <1>4 DEF Begun
<1>5. CASE Compute BY <1>5 DEF Compute
<1>6. CASE Shown BY <1>6 DEF Shown, Leave
<1>7. CASE Pause BY <1>7 DEF Pause
<1>8. CASE NoRequest BY <1>8 DEF NoRequest
<1>9. CASE Receive BY <1>9, ErrorRange DEF Receive, TypeOK
<1>10. CASE ReceiveFails
  <2>1. stopFlag' <=> (stopFlag \/ error_count' >= max_errors)
    BY <1>10 DEF ReceiveFails, CountError, TypeOK
  <2>2. error_count' \in Nat /\ stage' = "backoff" /\ afterStop' = afterStop
    BY <1>10 DEF ReceiveFails, CountError, TypeOK
  <2> QED BY <1>10, <2>1, <2>2, ErrorRange DEF ReceiveFails
<1>11. CASE Reply BY <1>11, ErrorRange DEF Reply
<1>12. CASE ReplyFails
  <2>1. stopFlag' <=> (stopFlag \/ error_count' >= max_errors)
    BY <1>12 DEF ReplyFails, CountError, TypeOK
  <2>2. error_count' \in Nat /\ stage' = "backoff" /\ afterStop' = afterStop
    BY <1>12 DEF ReplyFails, CountError, TypeOK
  <2> QED BY <1>12, <2>1, <2>2, ErrorRange DEF ReplyFails
<1>13. CASE Continue BY <1>13 DEF Continue
<1>14. CASE Cleanup BY <1>14 DEF Cleanup
<1>15. CASE TogglePause BY <1>15 DEF TogglePause
<1>16. CASE StopScript BY <1>16 DEF StopScript
<1>17. CASE CloseFigure BY <1>17 DEF CloseFigure
<1>18. ASSUME NEW s \in AllSettings, ApplyParameters(s) PROVE Bounds'
  BY <1>18 DEF ApplyParameters
<1>19. CASE Send BY <1>19 DEF Send
<1>20. CASE UNCHANGED vars BY <1>20 DEF vars
<1> QED BY <1>1, <1>2, <1>3, <1>4, <1>5, <1>6, <1>7, <1>8, <1>9, <1>10,
           <1>11, <1>12, <1>13, <1>14, <1>15, <1>16, <1>17, <1>18, <1>19,
           <1>20
        DEF Next, Loop, User, Done

LEMMA Invariance == Spec => []IInv
<1>1. IInv /\ [Next]_vars => IInv'
  BY TypeStep, BoundsStep DEF IInv
<1> QED BY InitInv, <1>1, PTL DEF Spec

\* Every variable keeps its type: in particular the count of errors never
\* passes max_errors, since the error that reaches it ends the loop.
THEOREM TypeCorrect == Spec => []TypeOK
<1>1. IInv => TypeOK BY DEF IInv
<1> QED BY Invariance, <1>1, PTL

\* After STOP, or after the window was closed, at most one request is taken.
THEOREM PromptStop == Spec => []StopIsPrompt
<1>1. IInv => StopIsPrompt BY DEF IInv, Bounds, StopIsPrompt
<1> QED BY Invariance, <1>1, PTL

-----------------------------------------------------------------------------

Agreement ==
  /\ Effective(channelParams) = Effective(applied)
  /\ (~updateChannelFlag \/ stage = "show") /\ ~late
       => Effective(computed) = Effective(channelParams)

\* Settings that applyParametersCallback finds "effectively unchanged" make
\* the same channel, if both heights are numbers.
LEMMA UnchangedIsSame ==
  ASSUME NEW s \in AllSettings, NEW t \in AllSettings,
         s.height # NaN, t.height # NaN, ~NeedsUpdate(s, t)
  PROVE  Effective(s) = Effective(t)
<1>1. s.mode = t.mode /\ s.place = t.place /\ s.height = t.height
  BY DEF NeedsUpdate, HeightChanged
<1>2. s.mode = "Manual" => s.pl = t.pl
  BY <1>1 DEF NeedsUpdate
<1> DEFINE E(r) == [mode |-> r.mode, place |-> r.place, height |-> r.height,
                    pl |-> IF r.mode = "Manual" THEN r.pl ELSE None]
<1>3. \A r \in AllSettings : Effective(r) = E(r)
  BY DEF AllSettings, Effective
<1>4. E(s) = E(t)
  BY <1>1, <1>2
<1> QED BY <1>3, <1>4

LEMMA AgreementStep ==
  ASSUME NaN \notin Heights, TypeOK, Agreement, [Next]_vars
  PROVE  Agreement'
<1> USE DEF Agreement, Goto, socketVars, flagVars, channelVars, histVars
<1>1. CASE Top BY <1>1 DEF Top, Leave
<1>2. CASE Drawn BY <1>2 DEF Drawn, Leave
<1>3. CASE Check BY <1>3 DEF Check
<1>4. CASE Begun BY <1>4 DEF Begun
<1>5. CASE Compute BY <1>5 DEF Compute
<1>6. CASE Shown BY <1>6 DEF Shown, Leave
<1>7. CASE Pause BY <1>7 DEF Pause
<1>8. CASE NoRequest BY <1>8 DEF NoRequest
<1>9. CASE Receive BY <1>9 DEF Receive
<1>10. CASE ReceiveFails BY <1>10 DEF ReceiveFails
<1>11. CASE Reply BY <1>11 DEF Reply
<1>12. CASE ReplyFails BY <1>12 DEF ReplyFails
<1>13. CASE Continue BY <1>13 DEF Continue
<1>14. CASE Cleanup BY <1>14 DEF Cleanup
<1>15. CASE TogglePause BY <1>15 DEF TogglePause
<1>16. CASE StopScript BY <1>16 DEF StopScript
<1>17. CASE CloseFigure BY <1>17 DEF CloseFigure
<1>18. ASSUME NEW s \in AllSettings, ApplyParameters(s) PROVE Agreement'
  <2>1. CASE NeedsUpdate(channelParams, s)
    <3>1. channelParams' = s /\ applied' = s /\ updateChannelFlag'
          /\ late' = (late \/ stage = "show") /\ stage' = stage
      BY <1>18, <2>1 DEF ApplyParameters
    <3> QED BY <3>1
  <2>2. CASE ~NeedsUpdate(channelParams, s)
    <3>1. applied' = s
          /\ UNCHANGED <<stage, channelParams, updateChannelFlag, late, computed>>
      BY <1>18, <2>2 DEF ApplyParameters
    <3>2. Effective(channelParams) = Effective(s)
      BY <2>2, UnchangedIsSame DEF TypeOK, AllSettings
    <3> QED BY <3>1, <3>2
  <2> QED BY <2>1, <2>2
<1>19. CASE Send BY <1>19 DEF Send
<1>20. CASE UNCHANGED vars BY <1>20 DEF vars
<1> QED BY <1>1, <1>2, <1>3, <1>4, <1>5, <1>6, <1>7, <1>8, <1>9, <1>10,
           <1>11, <1>12, <1>13, <1>14, <1>15, <1>16, <1>17, <1>18, <1>19,
           <1>20
        DEF Next, Loop, User, Done

\* As long as heights are numbers, settings that were applied are those the
\* channel was computed for, unless an update is pending or they were applied
\* in the last drawnow of an update.
THEOREM AppliedSettingsInForce ==
  ASSUME NaN \notin Heights
  PROVE  Spec => []SettingsInForce
<1>1. Init => Agreement
  BY DEF Init, Agreement
<1>2. TypeOK /\ Agreement /\ [Next]_vars => Agreement'
  BY AgreementStep
<1>3. Agreement => SettingsInForce
  BY DEF Agreement, SettingsInForce
<1> QED BY <1>1, <1>2, <1>3, TypeCorrect, PTL DEF Spec

-----------------------------------------------------------------------------

\* The gain is that of the last update, and the response goes with it.
GainOfUpdate ==
  /\ gain \in {Effective(computed), Floor}
  /\ gain # Floor => H \in {gain, Flat}

\* getQuadrigaHfreq returns nothing rather than a response of the wrong size, so
\* that the branch which keeps the previous response is never taken.
LEMMA SizesRight ==
  \A shape \in Shapes : getQuadrigaHfreq(shape) \in {"column", "empty"}
  BY DEF getQuadrigaHfreq

LEMMA GainStep ==
  ASSUME GainOfUpdate, [Next]_vars
  PROVE  GainOfUpdate'
<1> USE DEF GainOfUpdate
<1>1. CASE Compute
  <2>1. computed' = channelParams /\ ComputeOutcome(H', gain')
    BY <1>1 DEF Compute
  <2>2. CASE gain' = Floor
    BY <2>2
  <2>3. CASE gain' # Floor
    <3>1. PICK shape \in Shapes :
            /\ getQuadrigaHfreq(shape) # "empty"
            /\ H' \in StoredResponses(getQuadrigaHfreq(shape))
            /\ gain' = Effective(channelParams)
      BY <2>1, <2>3 DEF ComputeOutcome
    <3>2. H' \in {Effective(channelParams), Flat}
      BY <3>1, SizesRight DEF StoredResponses
    <3>3. Effective(computed)' = Effective(channelParams)
      BY <2>1 DEF Effective
    <3> QED BY <3>1, <3>2, <3>3
  <2> QED BY <2>2, <2>3
<1>2. CASE UNCHANGED <<H, gain, computed>>
  <2>1. Effective(computed)' = Effective(computed)
    BY <1>2 DEF Effective
  <2> QED BY <1>2, <2>1
<1>3. (Loop \/ User \/ Send \/ Done \/ UNCHANGED vars)
          => Compute \/ UNCHANGED <<H, gain, computed>>
  BY DEF Loop, User, Done, Top, Leave, Drawn, Check, Begun, Shown, Pause,
         NoRequest, Receive, ReceiveFails, Reply, ReplyFails, Continue,
         Cleanup, TogglePause, StopScript, CloseFigure, ApplyParameters,
         Send, vars, channelVars, histVars
<1> QED BY <1>1, <1>2, <1>3 DEF Next

\* As long as heights are numbers, the samples get the channel of the settings
\* applied last, or that of a failed update, unless an update is pending or was
\* asked for in the last drawnow of one; and never a mixture of two.
THEOREM SamplesGetChannel ==
  ASSUME NaN \notin Heights
  PROVE  Spec => []ChannelInForce
<1>1. Init => GainOfUpdate
  BY DEF Init, GainOfUpdate
<1>2. GainOfUpdate /\ [Next]_vars => GainOfUpdate'
  BY GainStep
<1>3. GainOfUpdate /\ SettingsInForce => ChannelInForce
  BY DEF GainOfUpdate, SettingsInForce, ChannelInForce
<1> QED BY <1>1, <1>2, <1>3, AppliedSettingsInForce, PTL DEF Spec
=============================================================================
