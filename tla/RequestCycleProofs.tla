------------------------- MODULE RequestCycleProofs -------------------------
(***************************************************************************)
(* Proofs about RequestCycle for any number of callbacks.                  *)
(***************************************************************************)
EXTENDS RequestCycle, TLAPS

Tearing == {"teardown", "late_teardown"}
Ending  == Tearing \cup {"streaming", "pop", "done"}

\* The teardown loop has called exactly the functions before the next one.
TornUpTo ==
    /\ pc \notin Tearing \cup {"done"} => \A i \in Tears : torn[i] = 0
    /\ pc \in Tearing =>
          /\ n \in 1..(NTear + 1)
          /\ \A i \in Tears : torn[i] = IF i < n THEN 1 ELSE 0
    /\ pc = "done" => \A i \in Tears : torn[i] = IF "finally" \in faults THEN 0 ELSE 1

\* What the current finalization has completed at each of its stages.
Complete == ran = Afters /\ (saved <=> session = "open")

FinalizedUpTo ==
    /\ pc = "after" => n \in 1..(NAfter + 1) /\ ran = 1..(n - 1)
    /\ pc = "finished" => Complete
    /\ pc = "respond" /\ ~skipped => Complete
    /\ outcome = "response" => pc \in Ending
    /\ outcome = "response" /\ ~skipped => Complete

\* The first finalization calls a function once, the one in safe mode once more.
CalledUpTo ==
    /\ pc \in {"push", "started", "before", "user_exc"} =>
          ~SafeMode /\ \A i \in Afters : called[i] = 0
    /\ pc = "make_response" => \A i \in Afters : called[i] <= IF SafeMode THEN 1 ELSE 0
    /\ pc = "after" => \A i \in Afters :
          called[i] <= (IF SafeMode THEN 1 ELSE 0) + (IF i < n THEN 1 ELSE 0)
    /\ pc = "finished" /\ ~SafeMode => \A i \in Afters : called[i] <= 1
    /\ pc = "server_exc" => SafeMode /\ \A i \in Afters : called[i] <= 1

\* The context is pushed until the last pop, which a finally clause that raises
\* leaves out.
PushedUpTo ==
    /\ pc \notin {"streaming", "done"} => "finally" \notin faults
    /\ pc = "streaming" => pushes = IF "finally" \in faults THEN 2 ELSE 1
    /\ pc = "push" => pushes = 0
    /\ pc \notin Tearing \cup {"push", "done"} => pushes \in 1..2
    /\ pc \in Tearing => pushes = 0
    /\ pc = "done" => pushes = IF "finally" \in faults THEN 1 ELSE 0

\* An exception that leaves wsgi_app was allowed to.
MayRaise ==
    \/ app.propagate
    \/ faults \cap {"base", "server_exc", "safe_response", "respond", "finally", "teardown"} # {}

Excused ==
    /\ pc = "user_exc" => exc \in Kinds \ {"base"}
    /\ pc = "server_exc" => error \in Kinds \ {"base"}
    /\ outcome = "raised" => MayRaise

IInv == TypeOK /\ TornUpTo /\ FinalizedUpTo /\ CalledUpTo /\ PushedUpTo /\ Excused

-----------------------------------------------------------------------------
(* What a step does to faults, the history of failures. *)

\* A failure is recorded under its stage, and a BaseException as such.
LEMMA RaiseAdds ==
    ASSUME NEW st, NEW k, RaiseIn(st, k)
    PROVE  faults \subseteq faults' /\ st \in faults' /\ (k = "base" => "base" \in faults')
BY Zenon DEF RaiseIn

Sources == Stages \cup {"dispatch", "session", "safe_response", "finally", "base"}

\* The sources of failures a step may record are known.
LEMMA RaiseTyped ==
    ASSUME faults \subseteq Sources, NEW st \in Sources, NEW k, RaiseIn(st, k)
    PROVE  faults' \subseteq Sources
<1>1. "base" \in Sources
  BY DEF Sources
<1> QED
  BY <1>1, Zenon DEF RaiseIn

\* A step records at most one failure.
LEMMA FaultRecorded ==
    pc \in Stages /\ [Next]_vars =>
        faults' = faults \/ \E st \in Sources : \E k : RaiseIn(st, k)
<1> SUFFICES ASSUME pc \in Stages, [Next]_vars
             PROVE  faults' = faults \/ \E st \in Sources : \E k : RaiseIn(st, k)
  OBVIOUS
<1>0. /\ pc \in Sources /\ "dispatch" \in Sources
      /\ "session" \in Sources /\ "safe_response" \in Sources /\ "finally" \in Sources
  BY DEF Sources, Stages
<1>1. CASE Push
  BY <1>1, <1>0, Zenon DEF Push, Go, InRequest, Escape, Raise, finalization
<1>2. CASE Started
  BY <1>2, <1>0, Zenon DEF Started, Go, InDispatch, Escape, Raise, finalization, teardown
<1>3. CASE Before
  BY <1>3, <1>0, Zenon DEF Before, Go, InDispatch, Escape, Raise, finalization, teardown,
       Befores
<1>4. CASE Dispatch
  BY <1>4, <1>0, Zenon DEF Dispatch, Go, InDispatch, Escape, finalization
<1>5. CASE HandleUserException
  BY <1>5, <1>0, Zenon DEF HandleUserException, Go, InRequest, Escape, Raise,
       finalization, teardown
<1>6. CASE MakeResponse
  BY <1>6, <1>0, Zenon DEF MakeResponse, Go, InRequest, Escape, Raise, SafeMode, teardown
<1>7. CASE AfterRequest
  BY <1>7, <1>0, Zenon DEF AfterRequest, InFinalize, InRequest, Escape, Raise, SafeMode,
       teardown
<1>8. CASE SaveSession
  BY <1>8, <1>0, Zenon DEF SaveSession, Go, InFinalize, InRequest, Escape, SafeMode,
       teardown
<1>9. CASE Finished
  BY <1>9, <1>0, Zenon DEF Finished, Go, InFinalize, InRequest, Escape, Raise, SafeMode,
       teardown
<1>10. CASE HandleException
  BY <1>10, <1>0, Zenon DEF HandleException, Go, Escape, Raise, finalization, teardown
<1>11. CASE Respond
  BY <1>11, <1>0, Zenon DEF Respond, Escape, Raise, finalization, teardown
<1>12. CASE Pop
  BY <1>12, <1>0, Zenon DEF Pop, FinallyRaises, finalization
<1>13. CASE DropStream
  BY <1>13, <1>0, Zenon DEF DropStream, finalization
<1>14. CASE EndStream
  BY <1>14, <1>0, Zenon DEF EndStream, StreamPops, finalization
<1>15. CASE Teardown
  BY <1>15, <1>0, Zenon DEF Teardown, Raise, finalization
<1>16. CASE Popped
  BY <1>16, <1>0, Zenon DEF Popped, finalization, teardown
<1>17. CASE UNCHANGED vars
  BY <1>17, <1>0, Zenon DEF vars
<1> QED
  BY <1>1, <1>2, <1>3, <1>4, <1>5, <1>6, <1>7, <1>8, <1>9, <1>10, <1>11, <1>12, <1>13,
       <1>14, <1>15, <1>16, <1>17 DEF Next

\* A step forgets no failure and changes no configuration.
LEMMA FaultsGrow == [Next]_vars => app' = app /\ faults \subseteq faults'
<1> SUFFICES ASSUME [Next]_vars PROVE app' = app /\ faults \subseteq faults'
  OBVIOUS
<1>1. CASE Push
  BY <1>1, RaiseAdds, SMT DEF Push, Go, InRequest, Escape, Raise, finalization
<1>2. CASE Started
  BY <1>2, RaiseAdds, SMT DEF Started, Go, InDispatch, Escape, Raise, finalization, teardown
<1>3. CASE Before
  BY <1>3, RaiseAdds, SMT DEF Before, Go, InDispatch, Escape, Raise, finalization,
       teardown, Befores
<1>4. CASE Dispatch
  BY <1>4, RaiseAdds, SMT DEF Dispatch, Go, InDispatch, Escape, finalization
<1>5. CASE HandleUserException
  BY <1>5, RaiseAdds, SMT DEF HandleUserException, Go, InRequest, Escape, Raise,
       finalization, teardown
<1>6. CASE MakeResponse
  BY <1>6, RaiseAdds, SMT DEF MakeResponse, Go, InRequest, Escape, Raise, SafeMode, teardown
<1>7. CASE AfterRequest
  BY <1>7, RaiseAdds, SMT DEF AfterRequest, InFinalize, InRequest, Escape, Raise,
       SafeMode, teardown
<1>8. CASE SaveSession
  BY <1>8, RaiseAdds, SMT DEF SaveSession, Go, InFinalize, InRequest, Escape, SafeMode,
       teardown
<1>9. CASE Finished
  BY <1>9, RaiseAdds, SMT DEF Finished, Go, InFinalize, InRequest, Escape, Raise,
       SafeMode, teardown
<1>10. CASE HandleException
  BY <1>10, RaiseAdds, SMT DEF HandleException, Go, Escape, Raise, finalization, teardown
<1>11. CASE Respond
  BY <1>11, RaiseAdds, SMT DEF Respond, Escape, Raise, finalization, teardown
<1>12. CASE Pop
  BY <1>12, RaiseAdds, SMT DEF Pop, FinallyRaises, finalization
<1>13. CASE DropStream
  BY <1>13, RaiseAdds, SMT DEF DropStream, finalization
<1>14. CASE EndStream
  BY <1>14, RaiseAdds, SMT DEF EndStream, StreamPops, finalization
<1>15. CASE Teardown
  BY <1>15, RaiseAdds, SMT DEF Teardown, Raise, finalization
<1>16. CASE Popped
  BY <1>16, RaiseAdds, SMT DEF Popped, finalization, teardown
<1>17. CASE UNCHANGED vars
  BY <1>17, RaiseAdds, SMT DEF vars
<1> QED
  BY <1>1, <1>2, <1>3, <1>4, <1>5, <1>6, <1>7, <1>8, <1>9, <1>10, <1>11, <1>12, <1>13,
       <1>14, <1>15, <1>16, <1>17 DEF Next

-----------------------------------------------------------------------------
(* Excused is inductive. *)

\* An exception leaves wsgi_app only in a step that has an excuse for it.
LEMMA RaisedNow ==
    Excused /\ [Next]_vars /\ outcome' = "raised" => outcome = "raised" \/ MayRaise'
<1> SUFFICES ASSUME Excused, [Next]_vars, outcome' = "raised", outcome # "raised"
             PROVE  MayRaise'
  OBVIOUS
<1> USE DEF SafeMode, Excused, MayRaise, Kinds
<1>1. CASE Push
  BY <1>1, RaiseAdds, SMT DEF Push, Go, InRequest, Escape, Raise, finalization
<1>2. CASE Started
  BY <1>2, RaiseAdds, SMT DEF Started, Go, InDispatch, Escape, Raise, finalization, teardown
<1>3. CASE Before
  BY <1>3, RaiseAdds, SMT DEF Before, Go, InDispatch, Escape, Raise, finalization,
       teardown, Befores
<1>4. CASE Dispatch
  BY <1>4, RaiseAdds, SMT DEF Dispatch, Go, InDispatch, Escape, finalization
<1>5. CASE HandleUserException
  BY <1>5, RaiseAdds, SMT DEF HandleUserException, Go, InRequest, Escape, Raise,
       finalization, teardown
<1>6. CASE MakeResponse
  BY <1>6, RaiseAdds, SMT DEF MakeResponse, Go, InRequest, Escape, Raise, SafeMode, teardown
<1>7. CASE AfterRequest
  BY <1>7, RaiseAdds, SMT DEF AfterRequest, InFinalize, InRequest, Escape, Raise,
       SafeMode, teardown
<1>8. CASE SaveSession
  BY <1>8, RaiseAdds, SMT DEF SaveSession, Go, InFinalize, InRequest, Escape, SafeMode,
       teardown
<1>9. CASE Finished
  BY <1>9, RaiseAdds, SMT DEF Finished, Go, InFinalize, InRequest, Escape, Raise,
       SafeMode, teardown
<1>10. CASE HandleException
  BY <1>10, RaiseAdds, SMT DEF HandleException, Go, Escape, Raise, finalization, teardown
<1>11. CASE Respond
  BY <1>11, RaiseAdds, SMT DEF Respond, Escape, Raise, finalization, teardown
<1>12. CASE Pop
  BY <1>12, RaiseAdds, SMT DEF Pop, FinallyRaises, finalization
<1>13. CASE DropStream
  BY <1>13, RaiseAdds, SMT DEF DropStream, finalization
<1>14. CASE EndStream
  BY <1>14, RaiseAdds, SMT DEF EndStream, StreamPops, finalization
<1>15. CASE Teardown
  BY <1>15, RaiseAdds, SMT DEF Teardown, Raise, finalization
<1>16. CASE Popped
  BY <1>16, RaiseAdds, SMT DEF Popped, finalization, teardown
<1>17. CASE UNCHANGED vars
  BY <1>17, RaiseAdds, SMT DEF vars
<1> QED
  BY <1>1, <1>2, <1>3, <1>4, <1>5, <1>6, <1>7, <1>8, <1>9, <1>10, <1>11, <1>12, <1>13,
       <1>14, <1>15, <1>16, <1>17 DEF Next

\* full_dispatch_request catches Exceptions only.
LEMMA UserExcStep ==
    Excused /\ [Next]_vars => (pc = "user_exc" => exc \in Kinds \ {"base"})'
<1> SUFFICES ASSUME Excused, [Next]_vars 
             PROVE  (pc = "user_exc" => exc \in Kinds \ {"base"})'
  OBVIOUS
<1> USE DEF Excused, Kinds
<1>1. CASE Push
  BY <1>1, SMT DEF Push, Go, InRequest, Escape, Raise, RaiseIn, finalization
<1>2. CASE Started
  BY <1>2, SMT DEF Started, Go, InDispatch, Escape, Raise, RaiseIn, finalization, teardown
<1>3. CASE Before
  BY <1>3, SMT DEF Before, Go, InDispatch, Escape, Raise, RaiseIn, finalization,
       teardown, Befores
<1>4. CASE Dispatch
  BY <1>4, SMT DEF Dispatch, Go, InDispatch, Escape, RaiseIn, finalization
<1>5. CASE HandleUserException
  BY <1>5, SMT DEF HandleUserException, Go, InRequest, Escape, Raise, RaiseIn,
       finalization, teardown
<1>6. CASE MakeResponse
  BY <1>6, SMT DEF MakeResponse, Go, InRequest, Escape, Raise, RaiseIn, SafeMode, teardown
<1>7. CASE AfterRequest
  BY <1>7, SMT DEF AfterRequest, InFinalize, InRequest, Escape, Raise, RaiseIn, SafeMode,
       teardown
<1>8. CASE SaveSession
  BY <1>8, SMT DEF SaveSession, Go, InFinalize, InRequest, Escape, RaiseIn, SafeMode,
       teardown
<1>9. CASE Finished
  BY <1>9, SMT DEF Finished, Go, InFinalize, InRequest, Escape, Raise, RaiseIn, SafeMode,
       teardown
<1>10. CASE HandleException
  BY <1>10, SMT DEF HandleException, Go, Escape, Raise, RaiseIn, finalization, teardown
<1>11. CASE Respond
  BY <1>11, SMT DEF Respond, Escape, Raise, RaiseIn, finalization, teardown
<1>12. CASE Pop
  BY <1>12, SMT DEF Pop, FinallyRaises, RaiseIn, finalization
<1>13. CASE DropStream
  BY <1>13, SMT DEF DropStream, finalization
<1>14. CASE EndStream
  BY <1>14, SMT DEF EndStream, StreamPops, finalization
<1>15. CASE Teardown
  BY <1>15, SMT DEF Teardown, Raise, RaiseIn, finalization
<1>16. CASE Popped
  BY <1>16, SMT DEF Popped, finalization, teardown
<1>17. CASE UNCHANGED vars
  BY <1>17, SMT DEF vars
<1> QED
  BY <1>1, <1>2, <1>3, <1>4, <1>5, <1>6, <1>7, <1>8, <1>9, <1>10, <1>11, <1>12, <1>13,
       <1>14, <1>15, <1>16, <1>17 DEF Next

\* wsgi_app hands Exceptions only to handle_exception.
LEMMA ServerExcStep ==
    TypeOK /\ Excused /\ [Next]_vars => (pc = "server_exc" => error \in Kinds \ {"base"})'
<1> SUFFICES ASSUME TypeOK /\ Excused, [Next]_vars 
             PROVE  (pc = "server_exc" => error \in Kinds \ {"base"})'
  OBVIOUS
<1> USE DEF TypeOK, Excused, SafeMode, Kinds, NoExc
<1>1. CASE Push
  BY <1>1, SMT DEF Push, Go, InRequest, Escape, Raise, RaiseIn, finalization
<1>2. CASE Started
  BY <1>2, SMT DEF Started, Go, InDispatch, Escape, Raise, RaiseIn, finalization, teardown
<1>3. CASE Before
  BY <1>3, SMT DEF Before, Go, InDispatch, Escape, Raise, RaiseIn, finalization,
       teardown, Befores
<1>4. CASE Dispatch
  BY <1>4, SMT DEF Dispatch, Go, InDispatch, Escape, RaiseIn, finalization
<1>5. CASE HandleUserException
  BY <1>5, SMT DEF HandleUserException, Go, InRequest, Escape, Raise, RaiseIn,
       finalization, teardown
<1>6. CASE MakeResponse
  BY <1>6, SMT DEF MakeResponse, Go, InRequest, Escape, Raise, RaiseIn, SafeMode, teardown
<1>7. CASE AfterRequest
  BY <1>7, SMT DEF AfterRequest, InFinalize, InRequest, Escape, Raise, RaiseIn, SafeMode,
       teardown
<1>8. CASE SaveSession
  BY <1>8, SMT DEF SaveSession, Go, InFinalize, InRequest, Escape, RaiseIn, SafeMode,
       teardown
<1>9. CASE Finished
  BY <1>9, SMT DEF Finished, Go, InFinalize, InRequest, Escape, Raise, RaiseIn, SafeMode,
       teardown
<1>10. CASE HandleException
  BY <1>10, SMT DEF HandleException, Go, Escape, Raise, RaiseIn, finalization, teardown
<1>11. CASE Respond
  BY <1>11, SMT DEF Respond, Escape, Raise, RaiseIn, finalization, teardown
<1>12. CASE Pop
  BY <1>12, SMT DEF Pop, FinallyRaises, RaiseIn, finalization
<1>13. CASE DropStream
  BY <1>13, SMT DEF DropStream, finalization
<1>14. CASE EndStream
  BY <1>14, SMT DEF EndStream, StreamPops, finalization
<1>15. CASE Teardown
  BY <1>15, SMT DEF Teardown, Raise, RaiseIn, finalization
<1>16. CASE Popped
  BY <1>16, SMT DEF Popped, finalization, teardown
<1>17. CASE UNCHANGED vars
  BY <1>17, SMT DEF vars
<1> QED
  BY <1>1, <1>2, <1>3, <1>4, <1>5, <1>6, <1>7, <1>8, <1>9, <1>10, <1>11, <1>12, <1>13,
       <1>14, <1>15, <1>16, <1>17 DEF Next

\* What escapes from wsgi_app keeps an excuse.
LEMMA ExcusedStep == TypeOK /\ Excused /\ [Next]_vars => Excused'
<1> SUFFICES ASSUME TypeOK /\ Excused, [Next]_vars PROVE Excused'
  OBVIOUS
<1>1. (pc = "user_exc" => exc \in Kinds \ {"base"})'
  BY UserExcStep
<1>2. (pc = "server_exc" => error \in Kinds \ {"base"})'
  BY ServerExcStep
<1>3. MayRaise => MayRaise'
  BY FaultsGrow, Zenon DEF MayRaise
<1>4. outcome' = "raised" => MayRaise'
  BY RaisedNow, <1>3 DEF Excused
<1> QED
  BY <1>1, <1>2, <1>4 DEF Excused

-----------------------------------------------------------------------------
(* The stages keep what they have completed. *)

\* The teardown loop calls each function once, in turn.
LEMMA TornStep == TypeOK /\ TornUpTo /\ PushedUpTo /\ [Next]_vars => TornUpTo'
<1> SUFFICES ASSUME TypeOK /\ TornUpTo /\ PushedUpTo, [Next]_vars PROVE TornUpTo'
  OBVIOUS
<1> USE CountAssumption DEF TypeOK, TornUpTo, PushedUpTo, Tearing, Kinds, NoExc, GeneratorExit,
     Stages, Afters, Tears
<1>1. CASE Push
  BY <1>1, SMT DEF Push, Go, InRequest, Escape, Raise, RaiseIn, finalization
<1>2. CASE Started
  BY <1>2, SMT DEF Started, Go, InDispatch, Escape, Raise, RaiseIn, finalization, teardown
<1>3. CASE Before
  BY <1>3, SMT DEF Before, Go, InDispatch, Escape, Raise, RaiseIn, finalization,
       teardown, Befores
<1>4. CASE Dispatch
  BY <1>4, SMT DEF Dispatch, Go, InDispatch, Escape, RaiseIn, finalization
<1>5. CASE HandleUserException
  BY <1>5, SMT DEF HandleUserException, Go, InRequest, Escape, Raise, RaiseIn,
       finalization, teardown
<1>6. CASE MakeResponse
  BY <1>6, SMT DEF MakeResponse, Go, InRequest, Escape, Raise, RaiseIn, SafeMode, teardown
<1>7. CASE AfterRequest
  BY <1>7, SMT DEF AfterRequest, InFinalize, InRequest, Escape, Raise, RaiseIn, SafeMode,
       teardown
<1>8. CASE SaveSession
  BY <1>8, SMT DEF SaveSession, Go, InFinalize, InRequest, Escape, RaiseIn, SafeMode,
       teardown
<1>9. CASE Finished
  BY <1>9, SMT DEF Finished, Go, InFinalize, InRequest, Escape, Raise, RaiseIn, SafeMode,
       teardown
<1>10. CASE HandleException
  BY <1>10, SMT DEF HandleException, Go, Escape, Raise, RaiseIn, finalization, teardown
<1>11. CASE Respond
  BY <1>11, SMT DEF Respond, Escape, Raise, RaiseIn, finalization, teardown
<1>12. CASE Pop
  BY <1>12, SMT DEF Pop, FinallyRaises, RaiseIn, finalization
<1>13. CASE DropStream
  BY <1>13, SMT DEF DropStream, finalization
<1>14. CASE EndStream
  BY <1>14, SMT DEF EndStream, StreamPops, finalization
<1>15. CASE Teardown
  BY <1>15, SMT DEF Teardown, Raise, RaiseIn, finalization
<1>16. CASE Popped
  BY <1>16, SMT DEF Popped, finalization, teardown
<1>17. CASE UNCHANGED vars
  BY <1>17, SMT DEF vars
<1> QED
  BY <1>1, <1>2, <1>3, <1>4, <1>5, <1>6, <1>7, <1>8, <1>9, <1>10, <1>11, <1>12, <1>13,
       <1>14, <1>15, <1>16, <1>17 DEF Next

\* The context stays pushed until its teardown.
LEMMA PushedStep == TypeOK /\ PushedUpTo /\ [Next]_vars => PushedUpTo'
<1> SUFFICES ASSUME TypeOK /\ PushedUpTo, [Next]_vars PROVE PushedUpTo'
  OBVIOUS
<1> USE CountAssumption DEF TypeOK, PushedUpTo, Tearing, Kinds, NoExc, GeneratorExit,
     Stages, Afters, Tears
<1>1. CASE Push
  BY <1>1, SMT DEF Push, Go, InRequest, Escape, Raise, RaiseIn, finalization
<1>2. CASE Started
  BY <1>2, SMT DEF Started, Go, InDispatch, Escape, Raise, RaiseIn, finalization, teardown
<1>3. CASE Before
  BY <1>3, SMT DEF Before, Go, InDispatch, Escape, Raise, RaiseIn, finalization,
       teardown, Befores
<1>4. CASE Dispatch
  BY <1>4, SMT DEF Dispatch, Go, InDispatch, Escape, RaiseIn, finalization
<1>5. CASE HandleUserException
  BY <1>5, SMT DEF HandleUserException, Go, InRequest, Escape, Raise, RaiseIn,
       finalization, teardown
<1>6. CASE MakeResponse
  BY <1>6, SMT DEF MakeResponse, Go, InRequest, Escape, Raise, RaiseIn, SafeMode, teardown
<1>7. CASE AfterRequest
  BY <1>7, SMT DEF AfterRequest, InFinalize, InRequest, Escape, Raise, RaiseIn, SafeMode,
       teardown
<1>8. CASE SaveSession
  BY <1>8, SMT DEF SaveSession, Go, InFinalize, InRequest, Escape, RaiseIn, SafeMode,
       teardown
<1>9. CASE Finished
  BY <1>9, SMT DEF Finished, Go, InFinalize, InRequest, Escape, Raise, RaiseIn, SafeMode,
       teardown
<1>10. CASE HandleException
  BY <1>10, SMT DEF HandleException, Go, Escape, Raise, RaiseIn, finalization, teardown
<1>11. CASE Respond
  BY <1>11, SMT DEF Respond, Escape, Raise, RaiseIn, finalization, teardown
<1>12. CASE Pop
  BY <1>12, SMT DEF Pop, FinallyRaises, RaiseIn, finalization
<1>13. CASE DropStream
  BY <1>13, SMT DEF DropStream, finalization
<1>14. CASE EndStream
  BY <1>14, SMT DEF EndStream, StreamPops, finalization
<1>15. CASE Teardown
  BY <1>15, SMT DEF Teardown, Raise, RaiseIn, finalization
<1>16. CASE Popped
  BY <1>16, SMT DEF Popped, finalization, teardown
<1>17. CASE UNCHANGED vars
  BY <1>17, SMT DEF vars
<1> QED
  BY <1>1, <1>2, <1>3, <1>4, <1>5, <1>6, <1>7, <1>8, <1>9, <1>10, <1>11, <1>12, <1>13,
       <1>14, <1>15, <1>16, <1>17 DEF Next

\* A finalization that reaches the response has completed every part.
LEMMA FinalizedStep == TypeOK /\ FinalizedUpTo /\ [Next]_vars => FinalizedUpTo'
<1> SUFFICES ASSUME TypeOK /\ FinalizedUpTo, [Next]_vars PROVE FinalizedUpTo'
  OBVIOUS
<1> USE CountAssumption DEF TypeOK, FinalizedUpTo, Complete, Ending, Tearing, Kinds,
     NoExc, GeneratorExit, Stages, Afters, Tears
<1>1. CASE Push
  BY <1>1, SMT DEF Push, Go, InRequest, Escape, Raise, RaiseIn, finalization
<1>2. CASE Started
  BY <1>2, SMT DEF Started, Go, InDispatch, Escape, Raise, RaiseIn, finalization, teardown
<1>3. CASE Before
  BY <1>3, SMT DEF Before, Go, InDispatch, Escape, Raise, RaiseIn, finalization,
       teardown, Befores
<1>4. CASE Dispatch
  BY <1>4, SMT DEF Dispatch, Go, InDispatch, Escape, RaiseIn, finalization
<1>5. CASE HandleUserException
  BY <1>5, SMT DEF HandleUserException, Go, InRequest, Escape, Raise, RaiseIn,
       finalization, teardown
<1>6. CASE MakeResponse
  <2>1. 1..(1 - 1) = {}
    BY SMT
  <2>2. CASE ran' = {} /\ saved' = FALSE /\ Go("after")
    BY <1>6, <2>1, <2>2, SMT DEF MakeResponse, Go
  <2>3. CASE pc' \in {"server_exc", "pop"} /\ (outcome' = "raised" \/ outcome' = outcome)
    BY <1>6, <2>3, SMT DEF MakeResponse
  <2> QED
    BY <1>6, <2>2, <2>3, Zenon DEF MakeResponse, InRequest, Escape
<1>7. CASE AfterRequest
  <2>1. 1..(n - 1) \cup {n} = 1..(n + 1 - 1) /\ n + 1 \in 1..(NAfter + 1)
    BY <1>7, SMT DEF AfterRequest
  <2>2. CASE ran' = ran \cup {n} /\ n' = n + 1 /\ UNCHANGED <<pc, outcome, skipped>>
    BY <1>7, <2>1, <2>2, SMT DEF AfterRequest
  <2>3. CASE pc' \in {"server_exc", "pop"} /\ (outcome' = "raised" \/ outcome' = outcome)
    BY <1>7, <2>3, SMT DEF AfterRequest
  <2>4. CASE pc' = "respond" /\ skipped' = TRUE /\ outcome' = outcome
    BY <1>7, <2>4, SMT DEF AfterRequest
  <2> QED
    BY <1>7, <2>2, <2>3, <2>4, Zenon DEF AfterRequest, InFinalize, InRequest, Escape
<1>8. CASE SaveSession
  <2>1. n = NAfter + 1 /\ ran = Afters /\ outcome # "response"
    BY <1>8, SMT DEF SaveSession
  <2>2. CASE saved' = (session' = "open") /\ Go("finished") /\ UNCHANGED ran
    BY <1>8, <2>1, <2>2, Zenon DEF Go
  <2>3. CASE pc' \in {"server_exc", "pop"} /\ (outcome' = "raised" \/ outcome' = outcome)
    BY <1>8, <2>3, Zenon DEF SaveSession
  <2>4. CASE pc' = "respond" /\ skipped' = TRUE /\ outcome' = outcome
    BY <1>8, <2>4, Zenon DEF SaveSession
  <2> QED
    BY <1>8, <2>2, <2>3, <2>4, Zenon DEF SaveSession, InFinalize, InRequest, Escape
<1>9. CASE Finished
  BY <1>9, SMT DEF Finished, Go, InFinalize, InRequest, Escape, Raise, RaiseIn, SafeMode,
       teardown
<1>10. CASE HandleException
  BY <1>10, SMT DEF HandleException, Go, Escape, Raise, RaiseIn, finalization, teardown
<1>11. CASE Respond
  BY <1>11, SMT DEF Respond, Escape, Raise, RaiseIn, finalization, teardown
<1>12. CASE Pop
  BY <1>12, SMT DEF Pop, FinallyRaises, RaiseIn, finalization
<1>13. CASE DropStream
  BY <1>13, SMT DEF DropStream, finalization
<1>14. CASE EndStream
  BY <1>14, SMT DEF EndStream, StreamPops, finalization
<1>15. CASE Teardown
  BY <1>15, SMT DEF Teardown, Raise, RaiseIn, finalization
<1>16. CASE Popped
  BY <1>16, SMT DEF Popped, finalization, teardown
<1>17. CASE UNCHANGED vars
  BY <1>17, SMT DEF vars
<1> QED
  BY <1>1, <1>2, <1>3, <1>4, <1>5, <1>6, <1>7, <1>8, <1>9, <1>10, <1>11, <1>12, <1>13,
       <1>14, <1>15, <1>16, <1>17 DEF Next

\* The second finalization is in safe mode, so there is no third.
LEMMA CalledStep == TypeOK /\ Excused /\ CalledUpTo /\ FinalizedUpTo /\ [Next]_vars => CalledUpTo'
<1> SUFFICES ASSUME TypeOK /\ Excused /\ CalledUpTo /\ FinalizedUpTo, [Next]_vars PROVE CalledUpTo'
  OBVIOUS
<1> USE CountAssumption DEF TypeOK, Excused, FinalizedUpTo, CalledUpTo, SafeMode, Ending,
     Tearing, Kinds, NoExc, GeneratorExit, Stages, Afters, Tears
<1>1. CASE Push
  BY <1>1, SMT DEF Push, Go, InRequest, Escape, Raise, RaiseIn, finalization
<1>2. CASE Started
  BY <1>2, SMT DEF Started, Go, InDispatch, Escape, Raise, RaiseIn, finalization, teardown
<1>3. CASE Before
  BY <1>3, SMT DEF Before, Go, InDispatch, Escape, Raise, RaiseIn, finalization,
       teardown, Befores
<1>4. CASE Dispatch
  BY <1>4, SMT DEF Dispatch, Go, InDispatch, Escape, RaiseIn, finalization
<1>5. CASE HandleUserException
  BY <1>5, SMT DEF HandleUserException, Go, InRequest, Escape, Raise, RaiseIn,
       finalization, teardown
<1>6. CASE MakeResponse
  BY <1>6, SMT DEF MakeResponse, Go, InRequest, Escape, Raise, RaiseIn, SafeMode, teardown
<1>7. CASE AfterRequest
  <2>1. n \in Afters /\ called' = [called EXCEPT ![n] = @ + 1]
    BY <1>7 DEF AfterRequest
  <2>2. CASE n' = n + 1 /\ UNCHANGED <<pc, error>>
    <3>1. pc = "after" /\ pc' = "after" /\ SafeMode' = SafeMode
      BY <1>7, <2>2, Zenon DEF AfterRequest
    <3>2. ASSUME NEW i \in Afters
          PROVE  called'[i] <= (IF SafeMode THEN 1 ELSE 0) + (IF i < n' THEN 1 ELSE 0)
      <4>1. called[i] <= (IF SafeMode THEN 1 ELSE 0) + (IF i < n THEN 1 ELSE 0)
        BY <3>1, Zenon DEF CalledUpTo
      <4>2. n \in Nat /\ i \in Nat /\ called[i] \in Nat /\ called \in [Afters -> Nat] /\ n' = n + 1
        BY <2>1, <2>2, SMT
      <4>3. CASE i = n
        <5>1. called'[i] = called[i] + 1 /\ ~(i < n) /\ i < n'
          BY <2>1, <4>2, <4>3, SMT
        <5> QED
          BY <4>1, <4>2, <5>1, SMT
      <4>4. CASE i # n
        <5>1. called'[i] = called[i] /\ (i < n <=> i < n')
          BY <2>1, <4>2, <4>4, SMT
        <5> QED
          BY <4>1, <5>1, Zenon
      <4> QED
        BY <4>3, <4>4
    <3> QED
      BY <3>1, <3>2, SMT
  <2>3. CASE ~SafeMode /\ pc' = "server_exc" /\ error' # NoExc
    BY <1>7, <2>1, <2>3, SMT DEF AfterRequest
  <2>4. CASE pc' \in {"pop", "respond"}
    BY <2>4, SMT
  <2> QED
    BY <1>7, <2>2, <2>3, <2>4, SMT DEF AfterRequest, InFinalize, InRequest, Escape, SafeMode
<1>8. CASE SaveSession
  BY <1>8, SMT DEF SaveSession, Go, InFinalize, InRequest, Escape, RaiseIn, SafeMode,
       teardown
<1>9. CASE Finished
  BY <1>9, SMT DEF Finished, Go, InFinalize, InRequest, Escape, Raise, RaiseIn, SafeMode,
       teardown
<1>10. CASE HandleException
  BY <1>10, SMT DEF HandleException, Go, Escape, Raise, RaiseIn, finalization, teardown
<1>11. CASE Respond
  BY <1>11, SMT DEF Respond, Escape, Raise, RaiseIn, finalization, teardown
<1>12. CASE Pop
  BY <1>12, SMT DEF Pop, FinallyRaises, RaiseIn, finalization
<1>13. CASE DropStream
  BY <1>13, SMT DEF DropStream, finalization
<1>14. CASE EndStream
  BY <1>14, SMT DEF EndStream, StreamPops, finalization
<1>15. CASE Teardown
  BY <1>15, SMT DEF Teardown, Raise, RaiseIn, finalization
<1>16. CASE Popped
  BY <1>16, SMT DEF Popped, finalization, teardown
<1>17. CASE UNCHANGED vars
  BY <1>17, SMT DEF vars
<1> QED
  BY <1>1, <1>2, <1>3, <1>4, <1>5, <1>6, <1>7, <1>8, <1>9, <1>10, <1>11, <1>12, <1>13,
       <1>14, <1>15, <1>16, <1>17 DEF Next

-----------------------------------------------------------------------------
(* Types, in four parts. *)

ScalarsOK ==
    /\ app \in [http : BOOLEAN, user : BOOLEAN, server : BOOLEAN,
                propagate : BOOLEAN, trap : BOOLEAN, ignore : BOOLEAN]
    /\ pc \in Stages
    /\ n \in Nat
    /\ exc \in Kinds \cup {NoExc}
    /\ error \in Kinds \cup {NoExc}
    /\ rv \in {"none", "value", "stream", "exception", "handled", "error"}
    /\ session \in {"unopened", "open", "null"}
    /\ outcome \in {"none", "response", "raised"}
    /\ seen \in Kinds \cup {NoExc, GeneratorExit}

FlagsOK == saved \in BOOLEAN /\ skipped \in BOOLEAN

\* The scalar variables keep their types.
LEMMA ScalarsStep == ScalarsOK /\ [Next]_vars => ScalarsOK'
<1> SUFFICES ASSUME ScalarsOK, [Next]_vars PROVE ScalarsOK'
  OBVIOUS
<1> USE DEF ScalarsOK, SafeMode, Befores, Kinds, NoExc, GeneratorExit, Stages
<1>1. CASE Push
  BY <1>1, SMT DEF Push, Go, InRequest, Escape, Raise, RaiseIn, finalization
<1>2. CASE Started
  BY <1>2, SMT DEF Started, Go, InDispatch, Escape, Raise, RaiseIn, finalization, teardown
<1>3. CASE Before
  BY <1>3, SMT DEF Before, Go, InDispatch, Escape, Raise, RaiseIn, finalization,
       teardown, Befores
<1>4. CASE Dispatch
  BY <1>4, SMT DEF Dispatch, Go, InDispatch, Escape, RaiseIn, finalization
<1>5. CASE HandleUserException
  BY <1>5, SMT DEF HandleUserException, Go, InRequest, Escape, Raise, RaiseIn,
       finalization, teardown
<1>6. CASE MakeResponse
  BY <1>6, SMT DEF MakeResponse, Go, InRequest, Escape, Raise, RaiseIn, SafeMode, teardown
<1>7. CASE AfterRequest
  BY <1>7, SMT DEF AfterRequest, InFinalize, InRequest, Escape, Raise, RaiseIn, SafeMode,
       teardown
<1>8. CASE SaveSession
  BY <1>8, SMT DEF SaveSession, Go, InFinalize, InRequest, Escape, RaiseIn, SafeMode,
       teardown
<1>9. CASE Finished
  BY <1>9, SMT DEF Finished, Go, InFinalize, InRequest, Escape, Raise, RaiseIn, SafeMode,
       teardown
<1>10. CASE HandleException
  BY <1>10, SMT DEF HandleException, Go, Escape, Raise, RaiseIn, finalization, teardown
<1>11. CASE Respond
  BY <1>11, SMT DEF Respond, Escape, Raise, RaiseIn, finalization, teardown
<1>12. CASE Pop
  BY <1>12, SMT DEF Pop, FinallyRaises, RaiseIn, finalization
<1>13. CASE DropStream
  BY <1>13, SMT DEF DropStream, finalization
<1>14. CASE EndStream
  BY <1>14, SMT DEF EndStream, StreamPops, finalization
<1>15. CASE Teardown
  BY <1>15, SMT DEF Teardown, Raise, RaiseIn, finalization
<1>16. CASE Popped
  BY <1>16, SMT DEF Popped, finalization, teardown
<1>17. CASE UNCHANGED vars
  BY <1>17, SMT DEF vars
<1> QED
  BY <1>1, <1>2, <1>3, <1>4, <1>5, <1>6, <1>7, <1>8, <1>9, <1>10, <1>11, <1>12, <1>13,
       <1>14, <1>15, <1>16, <1>17 DEF Next

\* The two flags stay Boolean.
LEMMA FlagsStep == FlagsOK /\ [Next]_vars => FlagsOK'
<1> SUFFICES ASSUME FlagsOK, [Next]_vars PROVE FlagsOK'
  OBVIOUS
<1> USE DEF FlagsOK
<1>1. CASE Push
  BY <1>1, Zenon DEF Push, Go, InRequest, Escape, Raise, RaiseIn, finalization
<1>2. CASE Started
  BY <1>2, Zenon DEF Started, Go, InDispatch, Escape, Raise, RaiseIn, finalization, teardown
<1>3. CASE Before
  BY <1>3, Zenon DEF Before, Go, InDispatch, Escape, Raise, RaiseIn, finalization,
       teardown, Befores
<1>4. CASE Dispatch
  BY <1>4, Zenon DEF Dispatch, Go, InDispatch, Escape, RaiseIn, finalization
<1>5. CASE HandleUserException
  BY <1>5, Zenon DEF HandleUserException, Go, InRequest, Escape, Raise, RaiseIn,
       finalization, teardown
<1>6. CASE MakeResponse
  BY <1>6, Zenon DEF MakeResponse, Go, InRequest, Escape, Raise, RaiseIn, SafeMode, teardown
<1>7. CASE AfterRequest
  BY <1>7, Zenon DEF AfterRequest, InFinalize, InRequest, Escape, Raise, RaiseIn,
       SafeMode, teardown
<1>8. CASE SaveSession
  BY <1>8, Zenon DEF SaveSession, Go, InFinalize, InRequest, Escape, RaiseIn, SafeMode,
       teardown
<1>9. CASE Finished
  BY <1>9, Zenon DEF Finished, Go, InFinalize, InRequest, Escape, Raise, RaiseIn,
       SafeMode, teardown
<1>10. CASE HandleException
  BY <1>10, Zenon DEF HandleException, Go, Escape, Raise, RaiseIn, finalization, teardown
<1>11. CASE Respond
  BY <1>11, Zenon DEF Respond, Escape, Raise, RaiseIn, finalization, teardown
<1>12. CASE Pop
  BY <1>12, Zenon DEF Pop, FinallyRaises, RaiseIn, finalization
<1>13. CASE DropStream
  BY <1>13, Zenon DEF DropStream, finalization
<1>14. CASE EndStream
  BY <1>14, Zenon DEF EndStream, StreamPops, finalization
<1>15. CASE Teardown
  BY <1>15, Zenon DEF Teardown, Raise, RaiseIn, finalization
<1>16. CASE Popped
  BY <1>16, Zenon DEF Popped, finalization, teardown
<1>17. CASE UNCHANGED vars
  BY <1>17, Zenon DEF vars
<1> QED
  BY <1>1, <1>2, <1>3, <1>4, <1>5, <1>6, <1>7, <1>8, <1>9, <1>10, <1>11, <1>12, <1>13,
       <1>14, <1>15, <1>16, <1>17 DEF Next

\* An after_request function is called at most twice.
LEMMA CallsStep ==
    TypeOK /\ CalledUpTo /\ [Next]_vars =>
        ran' \in SUBSET Afters /\ failed' \in SUBSET Afters /\ called' \in [Afters -> 0..2]
<1> SUFFICES ASSUME TypeOK /\ CalledUpTo, [Next]_vars
             PROVE  ran' \in SUBSET Afters /\ failed' \in SUBSET Afters /\ called' \in [Afters -> 0..2]
  OBVIOUS
<1>1. CASE Push
  BY <1>1, Zenon DEF TypeOK, Push, Go, InRequest, Escape, Raise, RaiseIn, finalization
<1>2. CASE Started
  BY <1>2, Zenon DEF TypeOK, Started, Go, InDispatch, Escape, Raise, RaiseIn,
       finalization, teardown
<1>3. CASE Before
  BY <1>3, Zenon DEF TypeOK, Before, Go, InDispatch, Escape, Raise, RaiseIn,
       finalization, teardown, Befores
<1>4. CASE Dispatch
  BY <1>4, Zenon DEF TypeOK, Dispatch, Go, InDispatch, Escape, RaiseIn, finalization
<1>5. CASE HandleUserException
  BY <1>5, Zenon DEF TypeOK, HandleUserException, Go, InRequest, Escape, Raise, RaiseIn,
       finalization, teardown
<1>6. CASE MakeResponse
  BY <1>6, Zenon DEF TypeOK, MakeResponse, Go, InRequest, Escape, Raise, RaiseIn,
       SafeMode, teardown
<1>7. CASE AfterRequest
  <2>1. n \in Afters /\ called' = [called EXCEPT ![n] = @ + 1]
    BY <1>7 DEF AfterRequest
  <2>2. called[n] \in 0..1
    BY <1>7, <2>1, SMT DEF AfterRequest, TypeOK, CalledUpTo, Afters
  <2>3. called' \in [Afters -> 0..2]
    BY <2>1, <2>2, SMT DEF TypeOK
  <2>4. ran' \in SUBSET Afters /\ failed' \in SUBSET Afters
    BY <1>7, <2>1, Zenon DEF AfterRequest, TypeOK
  <2> QED
    BY <2>3, <2>4
<1>8. CASE SaveSession
  BY <1>8, Zenon DEF TypeOK, SaveSession, Go, InFinalize, InRequest, Escape, RaiseIn,
       SafeMode, teardown
<1>9. CASE Finished
  BY <1>9, Zenon DEF TypeOK, Finished, Go, InFinalize, InRequest, Escape, Raise, RaiseIn,
       SafeMode, teardown
<1>10. CASE HandleException
  BY <1>10, Zenon DEF TypeOK, HandleException, Go, Escape, Raise, RaiseIn, finalization,
       teardown
<1>11. CASE Respond
  BY <1>11, Zenon DEF TypeOK, Respond, Escape, Raise, RaiseIn, finalization, teardown
<1>12. CASE Pop
  BY <1>12, Zenon DEF TypeOK, Pop, finalization
<1>13. CASE DropStream
  BY <1>13, Zenon DEF TypeOK, DropStream, finalization
<1>14. CASE EndStream
  BY <1>14, Zenon DEF TypeOK, EndStream, StreamPops, finalization
<1>15. CASE Teardown
  BY <1>15, Zenon DEF TypeOK, Teardown, Raise, RaiseIn, finalization
<1>16. CASE Popped
  BY <1>16, Zenon DEF TypeOK, Popped, finalization, teardown
<1>17. CASE UNCHANGED vars
  BY <1>17, Zenon DEF TypeOK, vars
<1> QED
  BY <1>1, <1>2, <1>3, <1>4, <1>5, <1>6, <1>7, <1>8, <1>9, <1>10, <1>11, <1>12, <1>13,
       <1>14, <1>15, <1>16, <1>17 DEF Next

\* No teardown function is called twice.
LEMMA TearsStep == torn \in [Tears -> 0..1] /\ TornUpTo /\ [Next]_vars => torn' \in [Tears -> 0..1]
<1> SUFFICES ASSUME torn \in [Tears -> 0..1] /\ TornUpTo, [Next]_vars PROVE torn' \in [Tears -> 0..1]
  OBVIOUS
<1> USE DEF Tears, TornUpTo, Tearing
<1>1. CASE Push
  BY <1>1, SMT DEF Push, Go, InRequest, Escape, Raise, RaiseIn, finalization
<1>2. CASE Started
  BY <1>2, SMT DEF Started, Go, InDispatch, Escape, Raise, RaiseIn, finalization, teardown
<1>3. CASE Before
  BY <1>3, SMT DEF Before, Go, InDispatch, Escape, Raise, RaiseIn, finalization,
       teardown, Befores
<1>4. CASE Dispatch
  BY <1>4, SMT DEF Dispatch, Go, InDispatch, Escape, RaiseIn, finalization
<1>5. CASE HandleUserException
  BY <1>5, SMT DEF HandleUserException, Go, InRequest, Escape, Raise, RaiseIn,
       finalization, teardown
<1>6. CASE MakeResponse
  BY <1>6, SMT DEF MakeResponse, Go, InRequest, Escape, Raise, RaiseIn, SafeMode, teardown
<1>7. CASE AfterRequest
  BY <1>7, SMT DEF AfterRequest, InFinalize, InRequest, Escape, Raise, RaiseIn, SafeMode,
       teardown
<1>8. CASE SaveSession
  BY <1>8, SMT DEF SaveSession, Go, InFinalize, InRequest, Escape, RaiseIn, SafeMode,
       teardown
<1>9. CASE Finished
  BY <1>9, SMT DEF Finished, Go, InFinalize, InRequest, Escape, Raise, RaiseIn, SafeMode,
       teardown
<1>10. CASE HandleException
  BY <1>10, SMT DEF HandleException, Go, Escape, Raise, RaiseIn, finalization, teardown
<1>11. CASE Respond
  BY <1>11, SMT DEF Respond, Escape, Raise, RaiseIn, finalization, teardown
<1>12. CASE Pop
  BY <1>12, SMT DEF Pop, FinallyRaises, RaiseIn, finalization
<1>13. CASE DropStream
  BY <1>13, SMT DEF DropStream, finalization
<1>14. CASE EndStream
  BY <1>14, SMT DEF EndStream, StreamPops, finalization
<1>15. CASE Teardown
  BY <1>15, SMT DEF Teardown, Raise, RaiseIn, finalization
<1>16. CASE Popped
  BY <1>16, SMT DEF Popped, finalization, teardown
<1>17. CASE UNCHANGED vars
  BY <1>17, SMT DEF vars
<1> QED
  BY <1>1, <1>2, <1>3, <1>4, <1>5, <1>6, <1>7, <1>8, <1>9, <1>10, <1>11, <1>12, <1>13,
       <1>14, <1>15, <1>16, <1>17 DEF Next

\* No context is pushed three times.
LEMMA PushesStep == TypeOK /\ PushedUpTo /\ [Next]_vars => pushes' \in 0..2
<1> SUFFICES ASSUME TypeOK /\ PushedUpTo, [Next]_vars PROVE pushes' \in 0..2
  OBVIOUS
<1> USE DEF TypeOK, PushedUpTo, Tearing, Stages
<1>1. CASE Push
  BY <1>1, SMT DEF Push, Go, InRequest, Escape, Raise, RaiseIn, finalization
<1>2. CASE Started
  BY <1>2, SMT DEF Started, Go, InDispatch, Escape, Raise, RaiseIn, finalization, teardown
<1>3. CASE Before
  BY <1>3, SMT DEF Before, Go, InDispatch, Escape, Raise, RaiseIn, finalization,
       teardown, Befores
<1>4. CASE Dispatch
  BY <1>4, SMT DEF Dispatch, Go, InDispatch, Escape, RaiseIn, finalization
<1>5. CASE HandleUserException
  BY <1>5, SMT DEF HandleUserException, Go, InRequest, Escape, Raise, RaiseIn,
       finalization, teardown
<1>6. CASE MakeResponse
  BY <1>6, SMT DEF MakeResponse, Go, InRequest, Escape, Raise, RaiseIn, SafeMode, teardown
<1>7. CASE AfterRequest
  BY <1>7, SMT DEF AfterRequest, InFinalize, InRequest, Escape, Raise, RaiseIn, SafeMode,
       teardown
<1>8. CASE SaveSession
  BY <1>8, SMT DEF SaveSession, Go, InFinalize, InRequest, Escape, RaiseIn, SafeMode,
       teardown
<1>9. CASE Finished
  BY <1>9, SMT DEF Finished, Go, InFinalize, InRequest, Escape, Raise, RaiseIn, SafeMode,
       teardown
<1>10. CASE HandleException
  BY <1>10, SMT DEF HandleException, Go, Escape, Raise, RaiseIn, finalization, teardown
<1>11. CASE Respond
  BY <1>11, SMT DEF Respond, Escape, Raise, RaiseIn, finalization, teardown
<1>12. CASE Pop
  BY <1>12, SMT DEF Pop, FinallyRaises, RaiseIn, finalization
<1>13. CASE DropStream
  BY <1>13, SMT DEF DropStream, finalization
<1>14. CASE EndStream
  BY <1>14, SMT DEF EndStream, StreamPops, finalization
<1>15. CASE Teardown
  BY <1>15, SMT DEF Teardown, Raise, RaiseIn, finalization
<1>16. CASE Popped
  BY <1>16, SMT DEF Popped, finalization, teardown
<1>17. CASE UNCHANGED vars
  BY <1>17, SMT DEF vars
<1> QED
  BY <1>1, <1>2, <1>3, <1>4, <1>5, <1>6, <1>7, <1>8, <1>9, <1>10, <1>11, <1>12, <1>13,
       <1>14, <1>15, <1>16, <1>17 DEF Next

\* Types are kept.
LEMMA TypeStep == IInv /\ [Next]_vars => TypeOK'
<1> SUFFICES ASSUME IInv, [Next]_vars PROVE TypeOK'
  OBVIOUS
<1>1. ScalarsOK'
  BY ScalarsStep, Zenon DEF IInv, TypeOK, ScalarsOK
<1>2. FlagsOK'
  BY FlagsStep, Zenon DEF IInv, TypeOK, FlagsOK
<1>3. ran' \in SUBSET Afters /\ failed' \in SUBSET Afters /\ called' \in [Afters -> 0..2]
  BY CallsStep, Zenon DEF IInv
<1>4. torn' \in [Tears -> 0..1]
  BY TearsStep, Zenon DEF IInv, TypeOK
<1>5. pushes' \in 0..2
  BY PushesStep, Zenon DEF IInv
<1>6. faults' \subseteq Sources
  <2>1. faults \subseteq Sources /\ pc \in Stages
    BY Zenon DEF IInv, TypeOK, Sources
  <2> QED
    BY <2>1, FaultRecorded, RaiseTyped, Zenon
<1> QED
  BY <1>1, <1>2, <1>3, <1>4, <1>5, <1>6, Zenon DEF TypeOK, ScalarsOK, FlagsOK, Sources

\* The invariant is inductive.
LEMMA IInvStep == IInv /\ [Next]_vars => IInv'
  BY TypeStep, TornStep, FinalizedStep, CalledStep, PushedStep, ExcusedStep, Zenon DEF IInv

\* The invariant holds of a request that has not begun.
LEMMA InitIInv == Init => IInv
<1> SUFFICES ASSUME Init PROVE IInv
  OBVIOUS
<1> USE CountAssumption DEF Init, Kinds, NoExc, GeneratorExit, Stages, Tears, Afters
<1>1. TypeOK
  <2>1. ScalarsOK
    BY SMT DEF ScalarsOK
  <2>2. FlagsOK
    BY Zenon DEF FlagsOK
  <2>3. called \in [Afters -> 0..2] /\ torn \in [Tears -> 0..1] /\ pushes \in 0..2
    BY SMT
  <2> QED
    BY <2>1, <2>2, <2>3, Zenon DEF TypeOK, ScalarsOK, FlagsOK
<1>2. TornUpTo /\ PushedUpTo
  BY SMT DEF TornUpTo, PushedUpTo, Tearing
<1>3. FinalizedUpTo /\ CalledUpTo /\ Excused
  BY SMT DEF FinalizedUpTo, CalledUpTo, Excused, Ending, Tearing, SafeMode
<1> QED
  BY <1>1, <1>2, <1>3 DEF IInv

\* The invariant holds in every reachable state.
THEOREM Invariance == Spec => []IInv
<1>1. Init => IInv
  BY InitIInv
<1>2. IInv /\ [Next]_vars => IInv'
  BY IInvStep
<1> QED
  BY <1>1, <1>2, PTL DEF Spec

-----------------------------------------------------------------------------
\* No after_request function is called more than twice for a request and no
\* teardown function more than once; every variable keeps its type.
THEOREM TypeCorrect == Spec => []TypeOK
<1>1. IInv => TypeOK
  BY DEF IInv
<1> QED
  BY <1>1, Invariance, PTL

\* Every teardown function runs exactly once, however many there are and
\* whichever of them, or of the earlier callbacks, raise; only the calls of the
\* finally clause itself can keep the context pushed and every one from running.
THEOREM EveryTeardownRuns == Spec => []TeardownComplete
<1>1. IInv => TeardownComplete
  BY DEF IInv, TornUpTo, PushedUpTo, TeardownComplete
<1> QED
  BY <1>1, Invariance, PTL

\* A response is sent unfinalized only after a failure in safe mode.
THEOREM NothingUnfinalized == Spec => []SentMeansFinalized
<1>1. IInv => SentMeansFinalized
  BY DEF IInv, FinalizedUpTo, Complete, SentMeansFinalized
<1> QED
  BY <1>1, Invariance, PTL

\* The server gets an exception only with one of the excuses of AlwaysAnswered.
THEOREM FailuresAnswered == Spec => []AlwaysAnswered
<1>1. IInv => AlwaysAnswered
  BY DEF IInv, Excused, MayRaise, AlwaysAnswered
<1> QED
  BY <1>1, Invariance, PTL

-----------------------------------------------------------------------------
(* What teardown is told of. *)

Caught == {"started", "before", "dispatch"}

\* Every failure so far was turned into a response, or is raised after it.
Plain ==
    /\ faults \subseteq Caught \cup {"respond", "teardown"}
    /\ faults \cap Caught # {} => rv \in {"exception", "handled"}

\* While wsgi_app holds no exception only full_dispatch_request caught some.
ToldUpTo ==
    /\ pc \in {"push", "started", "before"} => faults = {}
    /\ pc = "user_exc" => faults \subseteq Caught
    /\ pc \in {"make_response", "after", "finished", "respond", "pop", "streaming"}
          /\ error = NoExc /\ "finally" \notin faults => Plain
    /\ pc \notin {"teardown", "done"} => "teardown" \notin faults
    /\ pc = "teardown" /\ ~app.ignore /\ seen = NoExc => Plain
    /\ pc = "late_teardown" /\ seen = NoExc => rv = "stream" /\ outcome = "response"
    /\ pc = "done" => TeardownSeesError

LEMMA ToldStep == TypeOK /\ Excused /\ CalledUpTo /\ PushedUpTo /\ ToldUpTo /\ [Next]_vars => ToldUpTo'
<1> SUFFICES ASSUME TypeOK /\ Excused /\ CalledUpTo /\ PushedUpTo /\ ToldUpTo, [Next]_vars PROVE ToldUpTo'
  OBVIOUS
<1>0. /\ pc \in {"push", "started", "before", "user_exc"} => error = NoExc
      /\ pc = "server_exc" => error # NoExc
      /\ pc = "user_exc" => exc \in Kinds
  BY DEF CalledUpTo, Excused, SafeMode, Kinds, NoExc
<1>a. /\ pc \notin {"streaming", "done"} => "finally" \notin faults
      /\ pc = "streaming" => pushes = IF "finally" \in faults THEN 2 ELSE 1
  BY Zenon DEF PushedUpTo
<1> USE <1>0, <1>a DEF ToldUpTo, Plain, Caught, TeardownSeesError, NotDelayed, Kinds, NoExc,
     GeneratorExit, SafeMode
<1>1. CASE Push
  BY <1>1, SMT DEF Push, Go, InRequest, Escape, Raise, RaiseIn, finalization
<1>2. CASE Started
  BY <1>2, SMT DEF Started, Go, InDispatch, Escape, Raise, RaiseIn, finalization, teardown
<1>3. CASE Before
  BY <1>3, SMT DEF Before, Go, InDispatch, Escape, Raise, RaiseIn, finalization,
       teardown, Befores
<1>4. CASE Dispatch
  BY <1>4, SMT DEF Dispatch, Go, InDispatch, Escape, RaiseIn, finalization
<1>5. CASE HandleUserException
  BY <1>5, SMT DEF HandleUserException, Go, InRequest, Escape, Raise, RaiseIn,
       finalization, teardown
<1>6. CASE MakeResponse
  BY <1>6, SMT DEF MakeResponse, Go, InRequest, Escape, Raise, RaiseIn, teardown
<1>7. CASE AfterRequest
  BY <1>7, SMT DEF AfterRequest, InFinalize, InRequest, Escape, Raise, RaiseIn,
       teardown
<1>8. CASE SaveSession
  BY <1>8, SMT DEF SaveSession, Go, InFinalize, InRequest, Escape, RaiseIn,
       teardown
<1>9. CASE Finished
  BY <1>9, SMT DEF Finished, Go, InFinalize, InRequest, Escape, Raise, RaiseIn,
       teardown
<1>10. CASE HandleException
  BY <1>10, SMT DEF HandleException, Go, Escape, Raise, RaiseIn, finalization, teardown
<1>11. CASE Respond
  BY <1>11, SMT DEF Respond, Escape, Raise, RaiseIn, finalization, teardown
<1>12. CASE Pop
  BY <1>12, SMT DEF Pop, FinallyRaises, RaiseIn, finalization
<1>13. CASE DropStream
  BY <1>13, SMT DEF DropStream, finalization
<1>14. CASE EndStream
  BY <1>14, SMT DEF EndStream, StreamPops, finalization
<1>15. CASE Teardown
  BY <1>15, SMT DEF Teardown, Raise, RaiseIn, finalization
<1>16. CASE Popped
  BY <1>16, SMT DEF Popped, finalization, teardown
<1>17. CASE UNCHANGED vars
  BY <1>17, SMT DEF vars
<1> QED
  BY <1>1, <1>2, <1>3, <1>4, <1>5, <1>6, <1>7, <1>8, <1>9, <1>10, <1>11, <1>12, <1>13,
       <1>14, <1>15, <1>16, <1>17 DEF Next

\* When nothing delays or hides it, teardown is told of every exception that the
\* application did not answer itself, whichever callbacks raised before, in
\* between and after (wsgi_app's finally clause).
THEOREM TeardownTold == Spec => []TeardownSeesError
<1>1. Init => ToldUpTo
  BY DEF Init, ToldUpTo
<1>2. IInv /\ ToldUpTo /\ [Next]_vars => ToldUpTo'
  BY ToldStep DEF IInv
<1>3. ToldUpTo /\ IInv => TeardownSeesError
  BY DEF ToldUpTo, TeardownSeesError
<1> QED
  BY <1>1, <1>2, <1>3, Invariance, PTL DEF Spec
=============================================================================
