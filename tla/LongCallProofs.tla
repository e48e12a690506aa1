---------------------------- MODULE LongCallProofs ----------------------------
(***************************************************************************)
(* Proofs about LongCall, for all timeouts the assumption allows and every *)
(* bound.                                                                  *)
(***************************************************************************)
EXTENDS LongCall, TLAPS, SequenceTheorems

-----------------------------------------------------------------------------
(* Types.                                                                  *)

\* A handler that ends its call awaits the publication of an end event.
EndingPublishes == handler = "ending" => publishing["handler"] # None

Shape == TypeOK /\ EndingPublishes

\* The events the parties publish are events.
LEMMA EventType ==
  ASSUME TypeOK, NEW own \in BOOLEAN, NEW state \in Ends \cup {"running"}
  PROVE  CallEvent(own, state) \in EventTypes
<1>1. now \in Nat /\ ServerNow + Ttl \in Int
  BY LongCallAssumption DEF TypeOK, CallerTypes, ServerNow
<1> QED
  BY <1>1 DEF CallEvent, GoodUntil, EventTypes, Ends

\* An end event that enters the stream is an event, and an end.
LEMMA EmitType ==
  ASSUME TypeOK, NEW state \in Ends, Emit(state)
  PROVE  events' \in Seq(EventTypes) /\ firstEnd' \in Ends \cup {None}
  BY EventType, AppendProperties DEF Emit, TypeOK, WayTypes, CountTypes

\* What is being published is an end event.
LEMMA PublishingType ==
  ASSUME Shape, NEW p \in Publishers
  PROVE  /\ publishing[p] # None => publishing[p] \in Ends
         /\ handler = "ending" => publishing["handler"] \in Ends
  BY DEF Shape, TypeOK, ServerTypes, EndingPublishes, Publishers

\* The caller's part keeps its types.
LEMMA CallerTypesStep ==
  ASSUME Shape, [Next]_vars
  PROVE  CallerTypes'
<1>0. CASE UNCHANGED vars
  BY <1>0 DEF Shape, TypeOK, CallerTypes, vars, clocks, callerVars
<1>1. CASE Deliver
  <2>1. Append(queue, Head(events)) \in Seq(EventTypes)
    BY <1>1, HeadTailProperties, AppendProperties
       DEF Shape, TypeOK, CallerTypes, WayTypes, Deliver
  <2> QED
    BY <2>1, <1>1 DEF Shape, TypeOK, CallerTypes, Deliver, clocks
<1>2. ASSUME NEW state \in Ends \cup {"running"}, Noise(state) PROVE CallerTypes'
  BY <1>2 DEF Shape, TypeOK, CallerTypes, Noise, clocks, callerVars
<1>3. CASE Send
  BY <1>3 DEF Shape, TypeOK, CallerTypes, Send, clocks
<1>4. CASE ReplyTimesOut
  BY <1>4 DEF Shape, TypeOK, CallerTypes, ReplyTimesOut, clocks, Leave, Outcomes
<1>5. CASE Accepted
  BY <1>5, LongCallAssumption DEF Shape, TypeOK, CallerTypes, Accepted, clocks
<1>6. CASE Refused
  BY <1>6 DEF Shape, TypeOK, CallerTypes, Refused, clocks, Leave, Outcomes
<1>7. CASE ReplyLost
  BY <1>7 DEF Shape, TypeOK, CallerTypes, ReplyLost, clocks, callerVars
<1>8. CASE Skip
  BY <1>8 DEF Shape, TypeOK, CallerTypes, Skip, clocks
<1>9. CASE Continue
  <2>1. Head(queue) \in EventTypes /\ Tail(queue) \in Seq(EventTypes)
    BY <1>9, HeadTailProperties DEF Shape, TypeOK, CallerTypes, Continue
  <2>2. NextTimeout(Head(queue)) \in Int
    BY <2>1, <1>9 DEF Shape, TypeOK, CallerTypes, Continue, NextTimeout, EventTypes, Ends
  <2> QED
    BY <2>1, <2>2, <1>9 DEF Shape, TypeOK, CallerTypes, Continue, clocks
<1>10. CASE Resolve
  BY <1>10 DEF Shape, TypeOK, CallerTypes, Resolve, clocks, Leave, Outcomes
<1>11. CASE EventsTimeOut
  BY <1>11 DEF Shape, TypeOK, CallerTypes, EventsTimeOut, clocks, Leave, Outcomes
<1>12. CASE CallerCanceled
  BY <1>12 DEF Shape, TypeOK, CallerTypes, CallerCanceled, clocks, Leave, Outcomes
<1>13. CASE RequestLost
  BY <1>13 DEF Shape, TypeOK, CallerTypes, RequestLost, clocks, callerVars
<1>14. CASE ArriveTooLate
  BY <1>14 DEF Shape, TypeOK, CallerTypes, ArriveTooLate, clocks, callerVars
<1>15. CASE StartHandler
  BY <1>15 DEF Shape, TypeOK, CallerTypes, StartHandler, clocks, callerVars
<1>16. CASE Accept
  BY <1>16 DEF Shape, TypeOK, CallerTypes, Accept, clocks, callerVars
<1>17. CASE Reject
  BY <1>17 DEF Shape, TypeOK, CallerTypes, Reject, clocks, callerVars
<1>18. CASE SendReply
  BY <1>18 DEF Shape, TypeOK, CallerTypes, SendReply, clocks, callerVars
<1>19. CASE HandlerExits
  BY <1>19 DEF Shape, TypeOK, CallerTypes, HandlerExits, clocks, callerVars
<1>20. CASE Progress
  BY <1>20 DEF Shape, TypeOK, CallerTypes, Progress, clocks, callerVars
<1>21. CASE ProgressFails
  BY <1>21 DEF Shape, TypeOK, CallerTypes, ProgressFails, clocks, callerVars
<1>22. ASSUME NEW p \in Publishers, NEW state \in Ends, BeginEnd(p, state)
       PROVE  CallerTypes'
  BY <1>22 DEF Shape, TypeOK, CallerTypes, BeginEnd, clocks, callerVars
<1>23. ASSUME NEW p \in Publishers, EndPublished(p) PROVE CallerTypes'
  BY <1>23 DEF Shape, TypeOK, CallerTypes, EndPublished, clocks, callerVars
<1>24. ASSUME NEW p \in Publishers, NEW delivered \in BOOLEAN, EndFails(p, delivered)
       PROVE  CallerTypes'
  BY <1>24 DEF Shape, TypeOK, CallerTypes, EndFails, clocks, callerVars
<1>25. ASSUME NEW delivered \in BOOLEAN, HandlerCanceled(delivered) PROVE CallerTypes'
  BY <1>25 DEF Shape, TypeOK, CallerTypes, HandlerCanceled, clocks, callerVars
<1>26. CASE Tick
  BY <1>26 DEF Shape, TypeOK, CallerTypes, Tick, callerVars
<1> QED
  BY <1>0, <1>1, <1>2, <1>3, <1>4, <1>5, <1>6, <1>7, <1>8, <1>9, <1>10, <1>11, <1>12,
     <1>13, <1>14, <1>15, <1>16, <1>17, <1>18, <1>19, <1>20, <1>21, <1>22, <1>23, <1>24,
     <1>25, <1>26 DEF Next

\* What is under way keeps its types.
LEMMA WayTypesStep ==
  ASSUME Shape, [Next]_vars
  PROVE  WayTypes'
<1>0. CASE UNCHANGED vars
  BY <1>0 DEF Shape, TypeOK, WayTypes, vars
<1>1. CASE Deliver
  BY <1>1 DEF Shape, TypeOK, WayTypes, Deliver
<1>2. ASSUME NEW state \in Ends \cup {"running"}, Noise(state) PROVE WayTypes'
  BY <1>2, EventType, AppendProperties DEF Shape, TypeOK, WayTypes, Noise
<1>3. CASE Send
  BY <1>3 DEF Shape, TypeOK, WayTypes, Send
<1>4. CASE ReplyTimesOut
  BY <1>4 DEF Shape, TypeOK, WayTypes, ReplyTimesOut
<1>5. CASE Accepted
  BY <1>5 DEF Shape, TypeOK, WayTypes, Accepted
<1>6. CASE Refused
  BY <1>6 DEF Shape, TypeOK, WayTypes, Refused
<1>7. CASE ReplyLost
  BY <1>7 DEF Shape, TypeOK, WayTypes, ReplyLost
<1>8. CASE Skip
  BY <1>8 DEF Shape, TypeOK, WayTypes, Skip
<1>9. CASE Continue
  BY <1>9 DEF Shape, TypeOK, WayTypes, Continue
<1>10. CASE Resolve
  BY <1>10 DEF Shape, TypeOK, WayTypes, Resolve
<1>11. CASE EventsTimeOut
  BY <1>11 DEF Shape, TypeOK, WayTypes, EventsTimeOut
<1>12. CASE CallerCanceled
  BY <1>12 DEF Shape, TypeOK, WayTypes, CallerCanceled
<1>13. CASE RequestLost
  BY <1>13 DEF Shape, TypeOK, WayTypes, RequestLost
<1>14. CASE ArriveTooLate
  BY <1>14 DEF Shape, TypeOK, WayTypes, ArriveTooLate
<1>15. CASE StartHandler
  BY <1>15 DEF Shape, TypeOK, WayTypes, StartHandler
<1>16. CASE Accept
  BY <1>16 DEF Shape, TypeOK, WayTypes, Accept
<1>17. CASE Reject
  BY <1>17 DEF Shape, TypeOK, WayTypes, Reject
<1>18. CASE SendReply
  <2>1. Answer \in {"accepted", "rejected", "failed"}
    BY DEF Shape, TypeOK, ServerTypes, Answer
  <2> QED
    BY <2>1, <1>18 DEF Shape, TypeOK, WayTypes, SendReply
<1>19. CASE HandlerExits
  BY <1>19 DEF Shape, TypeOK, WayTypes, HandlerExits
<1>20. CASE Progress
  BY <1>20, EventType, AppendProperties DEF Shape, TypeOK, WayTypes, Progress
<1>21. CASE ProgressFails
  BY <1>21 DEF Shape, TypeOK, WayTypes, ProgressFails
<1>22. ASSUME NEW p \in Publishers, NEW state \in Ends, BeginEnd(p, state) PROVE WayTypes'
  BY <1>22 DEF Shape, TypeOK, WayTypes, BeginEnd
<1>23. ASSUME NEW p \in Publishers, EndPublished(p) PROVE WayTypes'
  BY <1>23, PublishingType, EmitType DEF Shape, TypeOK, WayTypes, EndPublished
<1>24. ASSUME NEW p \in Publishers, NEW delivered \in BOOLEAN, EndFails(p, delivered)
       PROVE  WayTypes'
  <2>1. events' \in Seq(EventTypes)
    BY <1>24, PublishingType, EmitType DEF Shape, TypeOK, WayTypes, EndFails
  <2>2. UNCHANGED <<request, reply>>
    BY <1>24 DEF EndFails
  <2> QED
    BY <2>1, <2>2 DEF Shape, TypeOK, WayTypes
<1>25. ASSUME NEW delivered \in BOOLEAN, HandlerCanceled(delivered) PROVE WayTypes'
  <2>1. events' \in Seq(EventTypes)
    BY <1>25, PublishingType, EmitType
       DEF Shape, TypeOK, WayTypes, HandlerCanceled, Publishers
  <2>2. UNCHANGED <<request, reply>>
    BY <1>25 DEF HandlerCanceled
  <2> QED
    BY <2>1, <2>2 DEF Shape, TypeOK, WayTypes
<1>26. CASE Tick
  BY <1>26 DEF Shape, TypeOK, WayTypes, Tick
<1> QED
  BY <1>0, <1>1, <1>2, <1>3, <1>4, <1>5, <1>6, <1>7, <1>8, <1>9, <1>10, <1>11, <1>12,
     <1>13, <1>14, <1>15, <1>16, <1>17, <1>18, <1>19, <1>20, <1>21, <1>22, <1>23, <1>24,
     <1>25, <1>26 DEF Next

\* The server's part keeps its types.
LEMMA ServerTypesStep ==
  ASSUME Shape, [Next]_vars
  PROVE  ServerTypes'
<1>0. CASE UNCHANGED vars
  BY <1>0 DEF Shape, TypeOK, ServerTypes, vars, contextVars, serverVars
<1>1. CASE Deliver
  BY <1>1 DEF Shape, TypeOK, ServerTypes, Deliver, contextVars, serverVars
<1>2. ASSUME NEW state \in Ends \cup {"running"}, Noise(state) PROVE ServerTypes'
  BY <1>2 DEF Shape, TypeOK, ServerTypes, Noise, contextVars, serverVars
<1>3. CASE Send
  BY <1>3 DEF Shape, TypeOK, ServerTypes, Send, contextVars, serverVars
<1>4. CASE ReplyTimesOut
  BY <1>4 DEF Shape, TypeOK, ServerTypes, ReplyTimesOut, contextVars, serverVars
<1>5. CASE Accepted
  BY <1>5 DEF Shape, TypeOK, ServerTypes, Accepted, contextVars, serverVars
<1>6. CASE Refused
  BY <1>6 DEF Shape, TypeOK, ServerTypes, Refused, contextVars, serverVars
<1>7. CASE ReplyLost
  BY <1>7 DEF Shape, TypeOK, ServerTypes, ReplyLost, contextVars, serverVars
<1>8. CASE Skip
  BY <1>8 DEF Shape, TypeOK, ServerTypes, Skip, contextVars, serverVars
<1>9. CASE Continue
  BY <1>9 DEF Shape, TypeOK, ServerTypes, Continue, contextVars, serverVars
<1>10. CASE Resolve
  BY <1>10 DEF Shape, TypeOK, ServerTypes, Resolve, contextVars, serverVars
<1>11. CASE EventsTimeOut
  BY <1>11 DEF Shape, TypeOK, ServerTypes, EventsTimeOut, contextVars, serverVars
<1>12. CASE CallerCanceled
  BY <1>12 DEF Shape, TypeOK, ServerTypes, CallerCanceled, contextVars, serverVars
<1>13. CASE RequestLost
  BY <1>13 DEF Shape, TypeOK, ServerTypes, RequestLost, contextVars, serverVars
<1>14. CASE ArriveTooLate
  BY <1>14 DEF Shape, TypeOK, ServerTypes, ArriveTooLate, contextVars, serverVars
<1>15. CASE StartHandler
  BY <1>15 DEF Shape, TypeOK, ServerTypes, StartHandler, contextVars
<1>16. CASE Accept
  BY <1>16 DEF Shape, TypeOK, ServerTypes, Accept, CallerTypes
<1>17. CASE Reject
  BY <1>17 DEF Shape, TypeOK, ServerTypes, Reject
<1>18. CASE SendReply
  BY <1>18 DEF Shape, TypeOK, ServerTypes, SendReply, contextVars, Abandoned
<1>19. CASE HandlerExits
  BY <1>19 DEF Shape, TypeOK, ServerTypes, HandlerExits, contextVars, Exit, Abandoned
<1>20. CASE Progress
  BY <1>20, LongCallAssumption
     DEF Shape, TypeOK, ServerTypes, Progress, contextVars, CallerTypes
<1>21. CASE ProgressFails
  BY <1>21 DEF Shape, TypeOK, ServerTypes, ProgressFails, contextVars, Exit, Abandoned
<1>22. ASSUME NEW p \in Publishers, NEW state \in Ends, BeginEnd(p, state)
       PROVE  ServerTypes'
  BY <1>22 DEF Shape, TypeOK, ServerTypes, BeginEnd, contextVars, Publishers
<1>23. ASSUME NEW p \in Publishers, EndPublished(p) PROVE ServerTypes'
  BY <1>23 DEF Shape, TypeOK, ServerTypes, EndPublished
<1>24. ASSUME NEW p \in Publishers, NEW delivered \in BOOLEAN, EndFails(p, delivered)
       PROVE  ServerTypes'
  <2>1. publishing' \in [Publishers -> Ends \cup {None}]
    BY <1>24 DEF Shape, TypeOK, ServerTypes, EndFails
  <2>2. UNCHANGED <<answer, replied, finalized>>
    BY <1>24 DEF EndFails, contextVars
  <2>3. CASE p = "handler"
    BY <2>1, <2>2, <2>3, <1>24 DEF Shape, TypeOK, ServerTypes, EndFails, Exit, Abandoned
  <2>4. CASE p # "handler"
    BY <2>1, <2>2, <2>4, <1>24 DEF Shape, TypeOK, ServerTypes, EndFails
  <2> QED
    BY <2>3, <2>4
<1>25. ASSUME NEW delivered \in BOOLEAN, HandlerCanceled(delivered) PROVE ServerTypes'
  BY <1>25 DEF Shape, TypeOK, ServerTypes, HandlerCanceled, contextVars, Exit, Abandoned
<1>26. CASE Tick
  BY <1>26 DEF Shape, TypeOK, ServerTypes, Tick, contextVars, serverVars
<1> QED
  BY <1>0, <1>1, <1>2, <1>3, <1>4, <1>5, <1>6, <1>7, <1>8, <1>9, <1>10, <1>11, <1>12,
     <1>13, <1>14, <1>15, <1>16, <1>17, <1>18, <1>19, <1>20, <1>21, <1>22, <1>23, <1>24,
     <1>25, <1>26 DEF Next

\* Counters and history keep their types.
LEMMA CountTypesStep ==
  ASSUME Shape, [Next]_vars
  PROVE  CountTypes'
<1>0. CASE UNCHANGED vars
  BY <1>0 DEF Shape, TypeOK, CountTypes, vars, bounds, history
<1>1. CASE Deliver
  BY <1>1 DEF Shape, TypeOK, CountTypes, Deliver, bounds, history
<1>2. ASSUME NEW state \in Ends \cup {"running"}, Noise(state) PROVE CountTypes'
  BY <1>2, LongCallAssumption DEF Shape, TypeOK, CountTypes, Noise, history
<1>3. CASE Send
  BY <1>3 DEF Shape, TypeOK, CountTypes, Send, bounds, history
<1>4. CASE ReplyTimesOut
  BY <1>4 DEF Shape, TypeOK, CountTypes, ReplyTimesOut, bounds, Leave
<1>5. CASE Accepted
  BY <1>5
     DEF Shape, TypeOK, CountTypes, Accepted, bounds, Publishers, CallerTypes, ServerTypes
<1>6. CASE Refused
  BY <1>6 DEF Shape, TypeOK, CountTypes, Refused, bounds, Leave
<1>7. CASE ReplyLost
  BY <1>7 DEF Shape, TypeOK, CountTypes, ReplyLost, bounds, history
<1>8. CASE Skip
  BY <1>8 DEF Shape, TypeOK, CountTypes, Skip, bounds, history
<1>9. CASE Continue
  BY <1>9 DEF Shape, TypeOK, CountTypes, Continue, bounds
<1>10. CASE Resolve
  BY <1>10 DEF Shape, TypeOK, CountTypes, Resolve, bounds, Leave
<1>11. CASE EventsTimeOut
  BY <1>11 DEF Shape, TypeOK, CountTypes, EventsTimeOut, bounds, Leave
<1>12. CASE CallerCanceled
  BY <1>12 DEF Shape, TypeOK, CountTypes, CallerCanceled, bounds, Leave
<1>13. CASE RequestLost
  BY <1>13 DEF Shape, TypeOK, CountTypes, RequestLost, bounds, history
<1>14. CASE ArriveTooLate
  BY <1>14 DEF Shape, TypeOK, CountTypes, ArriveTooLate, bounds, history
<1>15. CASE StartHandler
  BY <1>15
     DEF Shape, TypeOK, CountTypes, StartHandler, bounds, Publishers, CallerTypes,
         ServerTypes
<1>16. CASE Accept
  BY <1>16 DEF Shape, TypeOK, CountTypes, Accept, bounds, history
<1>17. CASE Reject
  BY <1>17
     DEF Shape, TypeOK, CountTypes, Reject, bounds, Publishers, CallerTypes, ServerTypes
<1>18. CASE SendReply
  BY <1>18 DEF Shape, TypeOK, CountTypes, SendReply, bounds, history
<1>19. CASE HandlerExits
  BY <1>19
     DEF Shape, TypeOK, CountTypes, HandlerExits, bounds, Exit, Publishers, CallerTypes,
         ServerTypes
<1>20. CASE Progress
  BY <1>20 DEF Shape, TypeOK, CountTypes, Progress, bounds, history
<1>21. CASE ProgressFails
  BY <1>21, LongCallAssumption
     DEF Shape, TypeOK, CountTypes, ProgressFails, Exit, Publishers, CallerTypes,
         ServerTypes
<1>22. ASSUME NEW p \in Publishers, NEW state \in Ends, BeginEnd(p, state) PROVE CountTypes'
  BY <1>22 DEF Shape, TypeOK, CountTypes, BeginEnd, bounds, history
<1>23. ASSUME NEW p \in Publishers, EndPublished(p) PROVE CountTypes'
  BY <1>23
     DEF Shape, TypeOK, CountTypes, EndPublished, bounds, Emit, Publishers, CallerTypes,
         ServerTypes
<1>24. ASSUME NEW p \in Publishers, NEW delivered \in BOOLEAN, EndFails(p, delivered)
       PROVE  CountTypes'
  <2>1. firstEnd' \in Ends \cup {None}
    BY <1>24, PublishingType, EmitType DEF Shape, TypeOK, CountTypes, EndFails
  <2>2. faults' \in 0..MaxTrouble /\ doneAt' \in Nat \cup {None}
    BY <1>24, LongCallAssumption DEF Shape, TypeOK, CallerTypes, CountTypes, EndFails, Exit
  <2>3. UNCHANGED <<noise, startedAt, followedAt>>
    BY <1>24 DEF EndFails
  <2> QED
    BY <2>1, <2>2, <2>3 DEF Shape, TypeOK, CountTypes
<1>25. ASSUME NEW delivered \in BOOLEAN, HandlerCanceled(delivered) PROVE CountTypes'
  <2>1. firstEnd' \in Ends \cup {None}
    BY <1>25, PublishingType, EmitType
       DEF Shape, TypeOK, CountTypes, HandlerCanceled, Publishers
  <2>2. faults' \in 0..MaxTrouble /\ doneAt' \in Nat \cup {None}
    BY <1>25, LongCallAssumption
       DEF Shape, TypeOK, CallerTypes, CountTypes, HandlerCanceled, Exit
  <2>3. UNCHANGED <<noise, startedAt, followedAt>>
    BY <1>25 DEF HandlerCanceled
  <2> QED
    BY <2>1, <2>2, <2>3 DEF Shape, TypeOK, CountTypes
<1>26. CASE Tick
  BY <1>26 DEF Shape, TypeOK, CountTypes, Tick, bounds, history
<1> QED
  BY <1>0, <1>1, <1>2, <1>3, <1>4, <1>5, <1>6, <1>7, <1>8, <1>9, <1>10, <1>11, <1>12,
     <1>13, <1>14, <1>15, <1>16, <1>17, <1>18, <1>19, <1>20, <1>21, <1>22, <1>23, <1>24,
     <1>25, <1>26 DEF Next

\* A handler is never left ending without a publication.
LEMMA EndingPublishesStep ==
  ASSUME Shape, [Next]_vars
  PROVE  EndingPublishes'
<1>0. CASE UNCHANGED vars
  BY <1>0 DEF Shape, EndingPublishes, vars, serverVars
<1>1. CASE Deliver
  BY <1>1 DEF Shape, EndingPublishes, Deliver, serverVars
<1>2. ASSUME NEW state \in Ends \cup {"running"}, Noise(state) PROVE EndingPublishes'
  BY <1>2 DEF Shape, EndingPublishes, Noise, serverVars
<1>3. CASE Send
  BY <1>3 DEF Shape, EndingPublishes, Send, serverVars
<1>4. CASE ReplyTimesOut
  BY <1>4 DEF Shape, EndingPublishes, ReplyTimesOut, serverVars
<1>5. CASE Accepted
  BY <1>5 DEF Shape, EndingPublishes, Accepted, serverVars
<1>6. CASE Refused
  BY <1>6 DEF Shape, EndingPublishes, Refused, serverVars
<1>7. CASE ReplyLost
  BY <1>7 DEF Shape, EndingPublishes, ReplyLost, serverVars
<1>8. CASE Skip
  BY <1>8 DEF Shape, EndingPublishes, Skip, serverVars
<1>9. CASE Continue
  BY <1>9 DEF Shape, EndingPublishes, Continue, serverVars
<1>10. CASE Resolve
  BY <1>10 DEF Shape, EndingPublishes, Resolve, serverVars
<1>11. CASE EventsTimeOut
  BY <1>11 DEF Shape, EndingPublishes, EventsTimeOut, serverVars
<1>12. CASE CallerCanceled
  BY <1>12 DEF Shape, EndingPublishes, CallerCanceled, serverVars
<1>13. CASE RequestLost
  BY <1>13 DEF Shape, EndingPublishes, RequestLost, serverVars
<1>14. CASE ArriveTooLate
  BY <1>14 DEF Shape, EndingPublishes, ArriveTooLate, serverVars
<1>15. CASE StartHandler
  BY <1>15 DEF Shape, EndingPublishes, StartHandler
<1>16. CASE Accept
  BY <1>16 DEF Shape, EndingPublishes, Accept
<1>17. CASE Reject
  BY <1>17 DEF Shape, EndingPublishes, Reject
<1>18. CASE SendReply
  BY <1>18 DEF Shape, EndingPublishes, SendReply
<1>19. CASE HandlerExits
  BY <1>19 DEF Shape, EndingPublishes, HandlerExits, Exit
<1>20. CASE Progress
  BY <1>20 DEF Shape, EndingPublishes, Progress
<1>21. CASE ProgressFails
  BY <1>21 DEF Shape, EndingPublishes, ProgressFails, Exit
<1>22. ASSUME NEW p \in Publishers, NEW state \in Ends, BeginEnd(p, state)
       PROVE  EndingPublishes'
  <2>1. state # None
    BY LongCallAssumption DEF Ends
  <2>2. publishing' = [publishing EXCEPT ![p] = state]
    BY <1>22 DEF BeginEnd
  <2>3. p # "handler" => UNCHANGED handler
    BY <1>22 DEF BeginEnd, Publishers
  <2> QED
    BY <2>1, <2>2, <2>3 DEF Shape, TypeOK, ServerTypes, EndingPublishes, Publishers
<1>23. ASSUME NEW p \in Publishers, EndPublished(p) PROVE EndingPublishes'
  BY <1>23 DEF Shape, EndingPublishes, EndPublished
<1>24. ASSUME NEW p \in Publishers, NEW delivered \in BOOLEAN, EndFails(p, delivered)
       PROVE  EndingPublishes'
  BY <1>24 DEF Shape, EndingPublishes, EndFails, Exit
<1>25. ASSUME NEW delivered \in BOOLEAN, HandlerCanceled(delivered) PROVE EndingPublishes'
  BY <1>25 DEF Shape, EndingPublishes, HandlerCanceled, Exit
<1>26. CASE Tick
  BY <1>26 DEF Shape, EndingPublishes, Tick, serverVars
<1> QED
  BY <1>0, <1>1, <1>2, <1>3, <1>4, <1>5, <1>6, <1>7, <1>8, <1>9, <1>10, <1>11, <1>12,
     <1>13, <1>14, <1>15, <1>16, <1>17, <1>18, <1>19, <1>20, <1>21, <1>22, <1>23, <1>24,
     <1>25, <1>26 DEF Next

\* Every step keeps the types.
LEMMA ShapeStep ==
  ASSUME Shape, [Next]_vars
  PROVE  Shape'
  BY CallerTypesStep, WayTypesStep, ServerTypesStep, CountTypesStep, EndingPublishesStep
     DEF Shape, TypeOK

\* The initial state has the types.
LEMMA InitShape ==
  ASSUME Init
  PROVE  Shape
<1>1. CallerTypes /\ WayTypes
  <2>1. queue \in Seq(EventTypes) /\ events \in Seq(EventTypes)
    BY EmptySeq DEF Init
  <2>2. CallerTypes
    BY <2>1, LongCallAssumption DEF Init, CallerTypes
  <2>3. WayTypes
    BY <2>1, Zenon DEF Init, WayTypes
  <2> QED
    BY <2>2, <2>3
<1>2. ServerTypes /\ EndingPublishes
  BY DEF Init, ServerTypes, EndingPublishes
<1>3. CountTypes
  BY LongCallAssumption DEF Init, CountTypes
<1> QED
  BY <1>1, <1>2, <1>3 DEF Shape, TypeOK

\* The type invariant holds in every behaviour (TypeOK).
THEOREM TypeCorrect == Spec => []TypeOK
<1>1. Shape => TypeOK
  BY DEF Shape
<1>2. Shape /\ [Next]_vars => Shape'
  BY ShapeStep
<1> QED
  BY <1>1, <1>2, InitShape, PTL DEF Spec

-----------------------------------------------------------------------------
(* The order of a call, and what a refusal means.                          *)

\* A call goes one way: nothing is under way before it is sent, nothing runs
\* before it arrives, and it arrives once.
OneWay ==
  /\ caller = "idle" => /\ ~request /\ reply = None /\ handler = "none"
                        /\ queue = <<>> /\ events = <<>>
  /\ request => handler = "none"
  /\ handler = "none" => /\ startedAt = None /\ firstEnd = None
                         /\ \A p \in Publishers : publishing[p] = None
  /\ handler \in {"none", "deciding"} => answer = None

\* After a refusal there is no way left for the call to be accepted.
Refusal ==
  (reply \in {"rejected", "failed"} \/ caller \in {"rejected", "errored"}) =>
    answer # "accepted" /\ ~request /\ handler # "deciding"

\* Every step keeps a call on its way.
LEMMA OneWayStep ==
  ASSUME Shape, OneWay, [Next]_vars
  PROVE  OneWay'
<1>0. CASE UNCHANGED vars
  BY <1>0 DEF OneWay, vars, callerVars, contextVars, serverVars, history
<1>1. CASE Deliver
  BY <1>1 DEF OneWay, Subscribed, Deliver, contextVars, serverVars, history
<1>2. ASSUME NEW state \in Ends \cup {"running"}, Noise(state) PROVE OneWay'
  BY <1>2 DEF OneWay, Subscribed, Noise, callerVars, contextVars, serverVars, history
<1>3. CASE Send
  BY <1>3 DEF OneWay, Send, contextVars, serverVars, history
<1>4. CASE ReplyTimesOut
  BY <1>4 DEF OneWay, Leave, ReplyTimesOut, contextVars, serverVars
<1>5. CASE Accepted
  BY <1>5 DEF OneWay, Accepted, contextVars, serverVars
<1>6. CASE Refused
  BY <1>6 DEF OneWay, Leave, Refused, contextVars, serverVars
<1>7. CASE ReplyLost
  BY <1>7 DEF OneWay, ReplyLost, callerVars, contextVars, serverVars, history
<1>8. CASE Skip
  BY <1>8 DEF OneWay, Skip, contextVars, serverVars, history
<1>9. CASE Continue
  BY <1>9 DEF OneWay, Continue, contextVars, serverVars
<1>10. CASE Resolve
  BY <1>10 DEF OneWay, Leave, Resolve, contextVars, serverVars
<1>11. CASE EventsTimeOut
  BY <1>11 DEF OneWay, Leave, EventsTimeOut, contextVars, serverVars
<1>12. CASE CallerCanceled
  BY <1>12 DEF OneWay, Leave, Subscribed, CallerCanceled, contextVars, serverVars
<1>13. CASE RequestLost
  BY <1>13 DEF OneWay, RequestLost, callerVars, contextVars, serverVars, history
<1>14. CASE ArriveTooLate
  BY <1>14 DEF OneWay, ArriveTooLate, callerVars, contextVars, serverVars, history
<1>15. CASE StartHandler
  BY <1>15 DEF OneWay, StartHandler, callerVars, contextVars
<1>16. CASE Accept
  BY <1>16 DEF OneWay, Accept, callerVars, history
<1>17. CASE Reject
  BY <1>17 DEF OneWay, Reject, callerVars
<1>18. CASE SendReply
  BY <1>18 DEF OneWay, HandlerDone, SendReply, callerVars, contextVars, history
<1>19. CASE HandlerExits
  BY <1>19 DEF OneWay, Exit, HandlerExits, callerVars, contextVars
<1>20. CASE Progress
  BY <1>20 DEF OneWay, Progress, callerVars, contextVars, history
<1>21. CASE ProgressFails
  BY <1>21 DEF OneWay, Exit, ProgressFails, callerVars, contextVars
<1>22. ASSUME NEW p \in Publishers, NEW state \in Ends, BeginEnd(p, state) PROVE OneWay'
  BY <1>22, LongCallAssumption
     DEF OneWay, Publishers, Shape, TypeOK, ServerTypes, BeginEnd, callerVars, contextVars,
         history
<1>23. ASSUME NEW p \in Publishers, EndPublished(p) PROVE OneWay'
  BY <1>23 DEF OneWay, Emit, EndPublished, callerVars
<1>24. ASSUME NEW p \in Publishers, NEW delivered \in BOOLEAN, EndFails(p, delivered)
       PROVE  OneWay'
  BY <1>24 DEF OneWay, Exit, Emit, EndFails, callerVars, contextVars
<1>25. ASSUME NEW delivered \in BOOLEAN, HandlerCanceled(delivered) PROVE OneWay'
  BY <1>25 DEF OneWay, Exit, Emit, HandlerCanceled, callerVars, contextVars
<1>26. CASE Tick
  BY <1>26 DEF OneWay, HandlerDone, Tick, callerVars, contextVars, serverVars, history
<1> QED
  BY <1>0, <1>1, <1>2, <1>3, <1>4, <1>5, <1>6, <1>7, <1>8, <1>9, <1>10, <1>11, <1>12,
     <1>13, <1>14, <1>15, <1>16, <1>17, <1>18, <1>19, <1>20, <1>21, <1>22, <1>23, <1>24,
     <1>25, <1>26 DEF Next

\* No step accepts a call that was refused.
LEMMA RefusalStep ==
  ASSUME Shape, OneWay, Refusal, [Next]_vars
  PROVE  Refusal'
<1>0. CASE UNCHANGED vars
  BY <1>0 DEF Refusal, OneWay, vars, callerVars, contextVars, serverVars
<1>1. CASE Deliver
  BY <1>1 DEF Refusal, OneWay, Deliver, contextVars, serverVars
<1>2. ASSUME NEW state \in Ends \cup {"running"}, Noise(state) PROVE Refusal'
  BY <1>2 DEF Refusal, OneWay, Noise, callerVars, contextVars, serverVars
<1>3. CASE Send
  BY <1>3, LongCallAssumption DEF Refusal, OneWay, Send, contextVars, serverVars
<1>4. CASE ReplyTimesOut
  BY <1>4 DEF Refusal, OneWay, Leave, ReplyTimesOut, contextVars, serverVars
<1>5. CASE Accepted
  BY <1>5, LongCallAssumption DEF Refusal, OneWay, Accepted, contextVars, serverVars
<1>6. CASE Refused
  BY <1>6 DEF Refusal, OneWay, Leave, Refused, contextVars, serverVars
<1>7. CASE ReplyLost
  BY <1>7, LongCallAssumption
     DEF Refusal, OneWay, ReplyLost, callerVars, contextVars, serverVars
<1>8. CASE Skip
  BY <1>8 DEF Refusal, OneWay, Skip, contextVars, serverVars
<1>9. CASE Continue
  BY <1>9 DEF Refusal, OneWay, Continue, contextVars, serverVars
<1>10. CASE Resolve
  BY <1>10 DEF Refusal, OneWay, Leave, Resolve, contextVars, serverVars
<1>11. CASE EventsTimeOut
  BY <1>11 DEF Refusal, OneWay, Leave, EventsTimeOut, contextVars, serverVars
<1>12. CASE CallerCanceled
  BY <1>12 DEF Refusal, OneWay, Leave, CallerCanceled, contextVars, serverVars
<1>13. CASE RequestLost
  BY <1>13 DEF Refusal, OneWay, RequestLost, callerVars, contextVars, serverVars
<1>14. CASE ArriveTooLate
  BY <1>14, LongCallAssumption
     DEF Refusal, OneWay, ArriveTooLate, callerVars, contextVars, serverVars
<1>15. CASE StartHandler
  BY <1>15 DEF Refusal, OneWay, StartHandler, callerVars, contextVars
<1>16. CASE Accept
  BY <1>16 DEF Refusal, OneWay, Accept, callerVars
<1>17. CASE Reject
  BY <1>17 DEF Refusal, OneWay, Reject, callerVars
<1>18. CASE SendReply
  BY <1>18, LongCallAssumption
     DEF Refusal, OneWay, HandlerDone, Answer, SendReply, callerVars, contextVars
<1>19. CASE HandlerExits
  BY <1>19 DEF Refusal, OneWay, Exit, HandlerExits, callerVars, contextVars
<1>20. CASE Progress
  BY <1>20 DEF Refusal, OneWay, Progress, callerVars, contextVars
<1>21. CASE ProgressFails
  BY <1>21 DEF Refusal, OneWay, Exit, ProgressFails, callerVars, contextVars
<1>22. ASSUME NEW p \in Publishers, NEW state \in Ends, BeginEnd(p, state) PROVE Refusal'
  BY <1>22 DEF Refusal, OneWay, BeginEnd, callerVars, contextVars
<1>23. ASSUME NEW p \in Publishers, EndPublished(p) PROVE Refusal'
  BY <1>23 DEF Refusal, OneWay, EndPublished, callerVars
<1>24. ASSUME NEW p \in Publishers, NEW delivered \in BOOLEAN, EndFails(p, delivered)
       PROVE  Refusal'
  BY <1>24 DEF Refusal, OneWay, Exit, EndFails, callerVars, contextVars
<1>25. ASSUME NEW delivered \in BOOLEAN, HandlerCanceled(delivered) PROVE Refusal'
  BY <1>25 DEF Refusal, OneWay, Exit, HandlerCanceled, callerVars, contextVars
<1>26. CASE Tick
  BY <1>26 DEF Refusal, OneWay, HandlerDone, Tick, callerVars, contextVars, serverVars
<1> QED
  BY <1>0, <1>1, <1>2, <1>3, <1>4, <1>5, <1>6, <1>7, <1>8, <1>9, <1>10, <1>11, <1>12,
     <1>13, <1>14, <1>15, <1>16, <1>17, <1>18, <1>19, <1>20, <1>21, <1>22, <1>23, <1>24,
     <1>25, <1>26 DEF Next

\* No step starts a handler too late.
LEMMA PunctualStep ==
  ASSUME Shape, OneWay, NoLateStart, [Next]_vars
  PROVE  NoLateStart'
<1>0. CASE UNCHANGED vars
  BY <1>0 DEF NoLateStart, vars, callerVars, history
<1>1. CASE Deliver
  BY <1>1 DEF NoLateStart, Deliver, history
<1>2. ASSUME NEW state \in Ends \cup {"running"}, Noise(state) PROVE NoLateStart'
  BY <1>2 DEF NoLateStart, ServerNow, Noise, callerVars, history
<1>3. CASE Send
  BY <1>3 DEF NoLateStart, OneWay, Shape, TypeOK, CallerTypes, CountTypes, Send, history
<1>4. CASE ReplyTimesOut
  BY <1>4 DEF NoLateStart, ReplyTimesOut
<1>5. CASE Accepted
  BY <1>5 DEF NoLateStart, Accepted
<1>6. CASE Refused
  BY <1>6 DEF NoLateStart, Refused
<1>7. CASE ReplyLost
  BY <1>7 DEF NoLateStart, ReplyLost, callerVars, history
<1>8. CASE Skip
  BY <1>8 DEF NoLateStart, Skip, history
<1>9. CASE Continue
  BY <1>9 DEF NoLateStart, Continue
<1>10. CASE Resolve
  BY <1>10 DEF NoLateStart, Resolve
<1>11. CASE EventsTimeOut
  BY <1>11 DEF NoLateStart, EventsTimeOut
<1>12. CASE CallerCanceled
  BY <1>12 DEF NoLateStart, CallerCanceled
<1>13. CASE RequestLost
  BY <1>13 DEF NoLateStart, RequestLost, callerVars, history
<1>14. CASE ArriveTooLate
  BY <1>14 DEF NoLateStart, TooLate, Age, ServerNow, ArriveTooLate, callerVars, history
<1>15. CASE StartHandler
  BY <1>15, LongCallAssumption
     DEF NoLateStart, OneWay, TooLate, Age, ServerNow, Shape, TypeOK, CallerTypes,
         CountTypes, StartHandler, callerVars
<1>16. CASE Accept
  BY <1>16 DEF NoLateStart, Accept, callerVars, history
<1>17. CASE Reject
  BY <1>17 DEF NoLateStart, Reject, callerVars
<1>18. CASE SendReply
  BY <1>18 DEF NoLateStart, SendReply, callerVars, history
<1>19. CASE HandlerExits
  BY <1>19 DEF NoLateStart, HandlerExits, callerVars
<1>20. CASE Progress
  BY <1>20 DEF NoLateStart, ServerNow, Progress, callerVars, history
<1>21. CASE ProgressFails
  BY <1>21 DEF NoLateStart, ProgressFails, callerVars
<1>22. ASSUME NEW p \in Publishers, NEW state \in Ends, BeginEnd(p, state)
       PROVE  NoLateStart'
  BY <1>22 DEF NoLateStart, BeginEnd, callerVars, history
<1>23. ASSUME NEW p \in Publishers, EndPublished(p) PROVE NoLateStart'
  BY <1>23 DEF NoLateStart, ServerNow, EndPublished, callerVars
<1>24. ASSUME NEW p \in Publishers, NEW delivered \in BOOLEAN, EndFails(p, delivered)
       PROVE  NoLateStart'
  BY <1>24 DEF NoLateStart, ServerNow, EndFails, callerVars
<1>25. ASSUME NEW delivered \in BOOLEAN, HandlerCanceled(delivered) PROVE NoLateStart'
  BY <1>25 DEF NoLateStart, ServerNow, HandlerCanceled, callerVars
<1>26. CASE Tick
  BY <1>26 DEF NoLateStart, Tick, callerVars, history
<1> QED
  BY <1>0, <1>1, <1>2, <1>3, <1>4, <1>5, <1>6, <1>7, <1>8, <1>9, <1>10, <1>11, <1>12,
     <1>13, <1>14, <1>15, <1>16, <1>17, <1>18, <1>19, <1>20, <1>21, <1>22, <1>23, <1>24,
     <1>25, <1>26 DEF Next

-----------------------------------------------------------------------------
(* The first end event of a sequence of events.                            *)

End(e) == Own(e) /\ e.state \in Ends

NoEnd(s) == \A i \in 1..Len(s) : ~End(s[i])

FirstEndIs(s, x) ==
  \E i \in 1..Len(s) : /\ End(s[i]) /\ s[i].state = x
                       /\ \A j \in 1..(i - 1) : ~End(s[j])

\* Without an end event, the appended one is the first or there is none.
LEMMA NoEndAppend ==
  ASSUME NEW s \in Seq(EventTypes), NEW e \in EventTypes, NoEnd(s)
  PROVE  /\ End(e) => FirstEndIs(Append(s, e), e.state)
         /\ ~End(e) => NoEnd(Append(s, e))
<1>1. /\ Len(s) \in Nat /\ Len(Append(s, e)) = Len(s) + 1
      /\ \A i \in 1..Len(s) : Append(s, e)[i] = s[i]
      /\ Append(s, e)[Len(s) + 1] = e
  BY AppendProperties, LenProperties
<1> QED
  BY <1>1 DEF NoEnd, FirstEndIs

\* The first end event stays the first.
LEMMA FirstEndAppend ==
  ASSUME NEW s \in Seq(EventTypes), NEW e \in EventTypes, NEW x, FirstEndIs(s, x)
  PROVE  FirstEndIs(Append(s, e), x)
<1>1. /\ Len(s) \in Nat /\ Len(Append(s, e)) = Len(s) + 1
      /\ \A i \in 1..Len(s) : Append(s, e)[i] = s[i]
  BY AppendProperties, LenProperties
<1>2. PICK i \in 1..Len(s) :
        End(s[i]) /\ s[i].state = x /\ \A j \in 1..(i - 1) : ~End(s[j])
  BY DEF FirstEndIs
<1>3. i \in 1..Len(Append(s, e)) /\ Append(s, e)[i] = s[i]
  BY <1>1, <1>2
<1>4. \A j \in 1..(i - 1) : Append(s, e)[j] = s[j]
  BY <1>1, <1>2
<1> QED
  BY <1>2, <1>3, <1>4 DEF FirstEndIs

\* Taking the head off a sequence without end events leaves one without.
LEMMA NoEndTail ==
  ASSUME NEW s \in Seq(EventTypes), s # <<>>, NoEnd(s)
  PROVE  ~End(Head(s)) /\ NoEnd(Tail(s))
<1>1. /\ Len(s) \in Nat \ {0} /\ Len(Tail(s)) = Len(s) - 1
      /\ \A i \in 1..(Len(s) - 1) : Tail(s)[i] = s[i + 1]
      /\ Head(s) = s[1]
  BY HeadTailProperties, EmptySeq
<1> QED
  BY <1>1 DEF NoEnd

\* Taking the head off either takes the first end event or keeps it the first.
LEMMA FirstEndTail ==
  ASSUME NEW s \in Seq(EventTypes), s # <<>>, NEW x, FirstEndIs(s, x)
  PROVE  /\ End(Head(s)) => Head(s).state = x
         /\ ~End(Head(s)) => FirstEndIs(Tail(s), x)
<1>1. /\ Len(s) \in Nat \ {0} /\ Len(Tail(s)) = Len(s) - 1
      /\ \A i \in 1..(Len(s) - 1) : Tail(s)[i] = s[i + 1]
      /\ Head(s) = s[1]
  BY HeadTailProperties, EmptySeq
<1>2. PICK i \in 1..Len(s) :
        End(s[i]) /\ s[i].state = x /\ \A j \in 1..(i - 1) : ~End(s[j])
  BY DEF FirstEndIs
<1>3. CASE i = 1
  BY <1>1, <1>2, <1>3
<1>4. CASE i # 1
  <2>1. 1 \in 1..(i - 1) /\ ~End(Head(s))
    BY <1>1, <1>2, <1>4
  <2>2. i - 1 \in 1..Len(Tail(s)) /\ Tail(s)[i - 1] = s[i]
    BY <1>1, <1>2, <1>4
  <2>3. \A j \in 1..(i - 2) : j + 1 \in 1..(i - 1) /\ Tail(s)[j] = s[j + 1]
    BY <1>1, <1>2, <1>4
  <2>4. \A j \in 1..((i - 1) - 1) : ~End(Tail(s)[j])
    BY <1>2, <2>3
  <2> QED
    BY <1>2, <2>1, <2>2, <2>4 DEF FirstEndIs
<1> QED
  BY <1>3, <1>4

-----------------------------------------------------------------------------
(* The outcome of a call.                                                  *)

\* What the caller will take for its outcome is the first end event of the
\* stream: it is the first in the queue, or the first under way.
FirstEndAhead ==
  \/ firstEnd = None /\ NoEnd(queue) /\ NoEnd(events)
  \/ firstEnd # None /\ FirstEndIs(queue, firstEnd)
  \/ firstEnd # None /\ NoEnd(queue) /\ FirstEndIs(events, firstEnd)

Stream == (Subscribed => FirstEndAhead) /\ OutcomeIsFirstEnd

\* What all steps about it may use.
LEMMA StreamTypes ==
  ASSUME Shape
  PROVE  /\ queue \in Seq(EventTypes) /\ events \in Seq(EventTypes)
         /\ firstEnd \in Ends \cup {None} /\ None \notin Ends
  BY LongCallAssumption DEF Shape, TypeOK, CallerTypes, WayTypes, CountTypes

\* A step that leaves the stream alone, and does not resolve the call.
LEMMA StreamUnchanged ==
  ASSUME Stream, UNCHANGED <<queue, events, firstEnd>>, Subscribed' => Subscribed,
         caller' \notin {"succeeded", "failed"} \/ caller' = caller
  PROVE  Stream'
  BY DEF Stream, FirstEndAhead, OutcomeIsFirstEnd, NoEnd, FirstEndIs, End, Own, Subscribed

\* A step that leaves caller and stream alone.
LEMMA StreamAlone ==
  ASSUME Stream, UNCHANGED <<caller, queue, events, firstEnd>>
  PROVE  Stream'
  BY StreamUnchanged DEF Subscribed

\* A step after which the call is over and not resolved.
LEMMA StreamLeft ==
  ASSUME Stream, Leave(caller'), UNCHANGED firstEnd,
         caller' \in Outcomes \ {"succeeded", "failed"}
  PROVE  Stream'
  BY DEF Stream, OutcomeIsFirstEnd, Subscribed, Outcomes

\* An event that is no end event enters the stream.
LEMMA StreamGrows ==
  ASSUME Shape, Stream, NEW e \in EventTypes, ~End(e), events' = Append(events, e),
         UNCHANGED <<caller, queue, firstEnd>>
  PROVE  Stream'
<1>1. FirstEndAhead => FirstEndAhead'
  BY StreamTypes, NoEndAppend, FirstEndAppend
     DEF FirstEndAhead, NoEnd, FirstEndIs, End, Own
<1> QED
  BY <1>1 DEF Stream, OutcomeIsFirstEnd, Subscribed

\* An end event enters the stream.
LEMMA StreamEnds ==
  ASSUME Shape, Stream, NEW x \in Ends, Emit(x), UNCHANGED <<caller, queue>>
  PROVE  Stream'
<1> DEFINE e == CallEvent(TRUE, x)
<1>1. e \in EventTypes /\ End(e) /\ e.state = x
  BY EventType DEF Shape, CallEvent, End, Own, Ends
<1>2. events' = Append(events, e) /\ firstEnd' = IF firstEnd = None THEN x ELSE firstEnd
  BY DEF Emit
<1> HIDE DEF e
<1>3. ASSUME FirstEndAhead PROVE FirstEndAhead'
  <2>1. CASE firstEnd = None /\ NoEnd(queue) /\ NoEnd(events)
    <3>1. FirstEndIs(Append(events, e), x)
      BY <1>1, <2>1, StreamTypes, NoEndAppend
    <3>2. firstEnd' = x /\ x # None
      BY <1>2, <2>1, StreamTypes
    <3> QED
      BY <1>2, <2>1, <3>1, <3>2 DEF FirstEndAhead, NoEnd, FirstEndIs, End, Own
  <2>2. CASE firstEnd # None /\ FirstEndIs(queue, firstEnd)
    BY <1>2, <2>2 DEF FirstEndAhead, FirstEndIs, End, Own
  <2>3. CASE firstEnd # None /\ NoEnd(queue) /\ FirstEndIs(events, firstEnd)
    <3>1. FirstEndIs(Append(events, e), firstEnd)
      BY <1>1, <2>3, StreamTypes, FirstEndAppend
    <3> QED
      BY <1>2, <2>3, <3>1 DEF FirstEndAhead, NoEnd, FirstEndIs, End, Own
  <2> QED
    BY <1>3, <2>1, <2>2, <2>3 DEF FirstEndAhead
<1> QED
  BY <1>2, <1>3, LongCallAssumption DEF Stream, OutcomeIsFirstEnd, Subscribed, Ends

\* An event that is no end event is taken off the queue.
LEMMA StreamTaken ==
  ASSUME Shape, Stream, queue # <<>>, ~End(Head(queue)), queue' = Tail(queue),
         UNCHANGED <<caller, events, firstEnd>>
  PROVE  Stream'
<1>1. ASSUME FirstEndAhead PROVE FirstEndAhead'
  <2>1. NoEnd(queue) => NoEnd(Tail(queue))
    BY StreamTypes, NoEndTail
  <2>2. FirstEndIs(queue, firstEnd) => FirstEndIs(Tail(queue), firstEnd)
    BY StreamTypes, FirstEndTail
  <2> QED
    BY <1>1, <2>1, <2>2 DEF FirstEndAhead, NoEnd, FirstEndIs, End, Own
<1> QED
  BY <1>1 DEF Stream, OutcomeIsFirstEnd, Subscribed

\* An event reaches the queue.
LEMMA StreamMoves ==
  ASSUME Shape, Stream, Deliver
  PROVE  Stream'
<1>1. UNCHANGED <<caller, firstEnd>> /\ events # <<>> /\ events' = Tail(events)
  BY DEF Deliver, history
<1>2. Head(events) \in EventTypes
  BY <1>1, StreamTypes, HeadTailProperties
<1>3. ASSUME Subscribed, FirstEndAhead PROVE FirstEndAhead'
  <2>1. queue' = Append(queue, Head(events))
    BY <1>3 DEF Deliver
  <2>2. CASE firstEnd = None /\ NoEnd(queue) /\ NoEnd(events)
    <3>1. ~End(Head(events)) /\ NoEnd(Tail(events))
      BY <1>1, <2>2, StreamTypes, NoEndTail
    <3>2. NoEnd(Append(queue, Head(events)))
      BY <1>2, <2>2, <3>1, StreamTypes, NoEndAppend
    <3> QED
      BY <1>1, <2>1, <2>2, <3>1, <3>2 DEF FirstEndAhead, NoEnd, End, Own
  <2>3. CASE firstEnd # None /\ FirstEndIs(queue, firstEnd)
    <3>1. FirstEndIs(Append(queue, Head(events)), firstEnd)
      BY <1>2, <2>3, StreamTypes, FirstEndAppend
    <3> QED
      BY <1>1, <2>1, <2>3, <3>1 DEF FirstEndAhead, FirstEndIs, End, Own
  <2>4. CASE firstEnd # None /\ NoEnd(queue) /\ FirstEndIs(events, firstEnd)
    <3>1. /\ End(Head(events)) => Head(events).state = firstEnd
          /\ ~End(Head(events)) => FirstEndIs(Tail(events), firstEnd)
      BY <1>1, <2>4, StreamTypes, FirstEndTail
    <3>2. /\ End(Head(events)) => FirstEndIs(Append(queue, Head(events)), Head(events).state)
          /\ ~End(Head(events)) => NoEnd(Append(queue, Head(events)))
      BY <1>2, <2>4, StreamTypes, NoEndAppend
    <3> QED
      BY <1>1, <2>1, <2>4, <3>1, <3>2 DEF FirstEndAhead, NoEnd, FirstEndIs, End, Own
  <2> QED
    BY <1>3, <2>2, <2>3, <2>4 DEF FirstEndAhead
<1> QED
  BY <1>1, <1>3 DEF Stream, OutcomeIsFirstEnd, Subscribed

\* No step puts another end event before the first, or resolves the call by one.
LEMMA StreamStep ==
  ASSUME Shape, OneWay, Stream, [Next]_vars
  PROVE  Stream'
<1>0. CASE UNCHANGED vars
  BY <1>0, StreamAlone DEF vars, callerVars, history
<1>1. CASE Deliver
  BY <1>1, StreamMoves
<1>2. ASSUME NEW state \in Ends \cup {"running"}, Noise(state) PROVE Stream'
  <2>1. CallEvent(FALSE, state) \in EventTypes /\ ~End(CallEvent(FALSE, state))
    BY EventType DEF Shape, End, Own, CallEvent
  <2> QED
    BY <1>2, <2>1, StreamGrows DEF Noise, callerVars, history
<1>3. CASE Send
  <2>1. queue = <<>> /\ events = <<>> /\ firstEnd = None
    BY <1>3 DEF Send, OneWay
  <2>2. UNCHANGED <<queue, events, firstEnd>> /\ caller' = "asking"
    BY <1>3 DEF Send, history
  <2> QED
    BY <2>1, <2>2 DEF Stream, FirstEndAhead, NoEnd, OutcomeIsFirstEnd
<1>4. CASE ReplyTimesOut
  <2>1. Leave(caller') /\ UNCHANGED firstEnd
    BY <1>4 DEF ReplyTimesOut, Leave
  <2>2. caller' \in Outcomes \ {"succeeded", "failed"}
    BY <1>4 DEF ReplyTimesOut, Leave, Outcomes
  <2> QED
    BY <2>1, <2>2, StreamLeft
<1>5. CASE Accepted
  BY <1>5, StreamUnchanged DEF Accepted, Subscribed
<1>6. CASE Refused
  <2>1. Leave(caller') /\ UNCHANGED firstEnd
    BY <1>6 DEF Refused, Leave
  <2>2. caller' \in Outcomes \ {"succeeded", "failed"}
    BY <1>6 DEF Refused, Leave, Outcomes
  <2> QED
    BY <2>1, <2>2, StreamLeft
<1>7. CASE ReplyLost
  BY <1>7, StreamAlone DEF ReplyLost, callerVars, history
<1>8. CASE Skip
  BY <1>8, StreamTaken DEF Skip, End, history
<1>9. CASE Continue
  BY <1>9, StreamTaken DEF Continue, End, Ends
<1>10. CASE Resolve
  <2>1. End(Head(queue)) /\ FirstEndAhead /\ queue # <<>>
    BY <1>10 DEF Resolve, End, Stream, Subscribed
  <2>2. firstEnd = Head(queue).state
    BY <2>1, StreamTypes, NoEndTail, FirstEndTail DEF FirstEndAhead
  <2>3. UNCHANGED firstEnd
    BY <1>10 DEF Resolve
  <2>4. caller' = IF Head(queue).state = "success" THEN "succeeded" ELSE "failed"
    BY <1>10 DEF Resolve, Leave
  <2>5. Head(queue).state \in Ends
    BY <1>10 DEF Resolve
  <2> QED
    BY <2>2, <2>3, <2>4, <2>5 DEF Stream, Subscribed, OutcomeIsFirstEnd, Ends
<1>11. CASE EventsTimeOut
  <2>1. Leave(caller') /\ UNCHANGED firstEnd
    BY <1>11 DEF EventsTimeOut, Leave
  <2>2. caller' \in Outcomes \ {"succeeded", "failed"}
    BY <1>11 DEF EventsTimeOut, Leave, Outcomes
  <2> QED
    BY <2>1, <2>2, StreamLeft
<1>12. CASE CallerCanceled
  <2>1. Leave(caller') /\ UNCHANGED firstEnd
    BY <1>12 DEF CallerCanceled, Leave
  <2>2. caller' \in Outcomes \ {"succeeded", "failed"}
    BY <1>12 DEF CallerCanceled, Leave, Outcomes
  <2> QED
    BY <2>1, <2>2, StreamLeft
<1>13. CASE RequestLost
  BY <1>13, StreamAlone DEF RequestLost, callerVars, history
<1>14. CASE ArriveTooLate
  BY <1>14, StreamAlone DEF ArriveTooLate, callerVars, history
<1>15. CASE StartHandler
  BY <1>15, StreamAlone DEF StartHandler, callerVars, history
<1>16. CASE Accept
  BY <1>16, StreamAlone DEF Accept, callerVars, history
<1>17. CASE Reject
  BY <1>17, StreamAlone DEF Reject, callerVars, history
<1>18. CASE SendReply
  BY <1>18, StreamAlone DEF SendReply, callerVars, history
<1>19. CASE HandlerExits
  BY <1>19, StreamAlone DEF HandlerExits, callerVars, history
<1>20. CASE Progress
  <2>1. CallEvent(TRUE, "running") \in EventTypes /\ ~End(CallEvent(TRUE, "running"))
    BY EventType DEF Shape, End, Own, CallEvent, Ends
  <2> QED
    BY <1>20, <2>1, StreamGrows DEF Progress, callerVars, history
<1>21. CASE ProgressFails
  BY <1>21, StreamAlone DEF ProgressFails, callerVars, history
<1>22. ASSUME NEW p \in Publishers, NEW state \in Ends, BeginEnd(p, state) PROVE Stream'
  BY <1>22, StreamAlone DEF BeginEnd, callerVars, history
<1>23. ASSUME NEW p \in Publishers, EndPublished(p) PROVE Stream'
  <2>1. publishing[p] \in Ends /\ Emit(publishing[p]) /\ UNCHANGED <<caller, queue>>
    BY <1>23, PublishingType DEF EndPublished, callerVars
  <2> QED
    BY <2>1, StreamEnds
<1>24. ASSUME NEW p \in Publishers, NEW delivered \in BOOLEAN, EndFails(p, delivered)
       PROVE  Stream'
  <2>1. publishing[p] \in Ends /\ UNCHANGED <<caller, queue>>
    BY <1>24, PublishingType DEF EndFails, callerVars
  <2>2. Emit(publishing[p]) \/ UNCHANGED <<events, firstEnd>>
    BY <1>24 DEF EndFails
  <2> QED
    BY <2>1, <2>2, StreamEnds, StreamUnchanged DEF Subscribed
<1>25. ASSUME NEW delivered \in BOOLEAN, HandlerCanceled(delivered) PROVE Stream'
  <2>1. UNCHANGED <<caller, queue>>
    BY <1>25 DEF HandlerCanceled, callerVars
  <2>2. \/ publishing["handler"] \in Ends /\ Emit(publishing["handler"])
        \/ UNCHANGED <<events, firstEnd>>
    BY <1>25, PublishingType DEF HandlerCanceled, Publishers
  <2> QED
    BY <2>1, <2>2, StreamEnds, StreamUnchanged DEF Subscribed
<1>26. CASE Tick
  BY <1>26, StreamAlone DEF Tick, callerVars, history
<1> QED
  BY <1>0, <1>1, <1>2, <1>3, <1>4, <1>5, <1>6, <1>7, <1>8, <1>9, <1>10, <1>11, <1>12,
     <1>13, <1>14, <1>15, <1>16, <1>17, <1>18, <1>19, <1>20, <1>21, <1>22, <1>23, <1>24,
     <1>25, <1>26 DEF Next

-----------------------------------------------------------------------------
(* The theorems.                                                           *)

CallInv == Shape /\ OneWay /\ Refusal /\ NoLateStart /\ Stream

\* The inductive invariant behind the properties of one call: its types, its
\* order, what a refusal excludes, and where the first end event is.
THEOREM CallInvariant == Spec => []CallInv
<1>1. Init => CallInv
  <2> SUFFICES ASSUME Init PROVE CallInv
    OBVIOUS
  <2>1. Shape
    BY InitShape
  <2>2. OneWay /\ Refusal
    BY LongCallAssumption DEF Init, OneWay, Refusal, Publishers
  <2>3. NoLateStart /\ Stream
    BY DEF Init, NoLateStart, Stream, Subscribed, OutcomeIsFirstEnd
  <2> QED
    BY <2>1, <2>2, <2>3 DEF CallInv
<1>2. CallInv /\ [Next]_vars => CallInv'
  BY ShapeStep, OneWayStep, RefusalStep, PunctualStep, StreamStep DEF CallInv
<1> QED
  BY <1>1, <1>2, PTL DEF Spec

\* No handler starts for a caller that has stopped waiting (CallHandler.__call__).
THEOREM NeverStartsLate == Spec => []NoLateStart
<1>1. CallInv => NoLateStart
  BY DEF CallInv
<1> QED
  BY <1>1, CallInvariant, PTL

\* A caller that was refused has no work running for it (run_long_call).
THEOREM RefusedIsFinal == Spec => []RefusedNeverRuns
<1>1. CallInv => RefusedNeverRuns
  BY DEF CallInv, Refusal, RefusedNeverRuns
<1> QED
  BY <1>1, CallInvariant, PTL

\* A resolved call is resolved by the first end event (_await_response_events).
THEOREM FirstEndWins == Spec => []OutcomeIsFirstEnd
<1>1. CallInv => OutcomeIsFirstEnd
  BY DEF CallInv, Stream
<1> QED
  BY <1>1, CallInvariant, PTL
\* What a caller is told of its call is what became of it.
THEOREM AnswersTrue == Spec => []AnswersAreTrue
<1>1. CallInv => AnswersAreTrue
  BY DEF CallInv, Refusal, Stream, AnswersAreTrue, RefusedNeverRuns
<1> QED
  BY <1>1, CallInvariant, PTL

-----------------------------------------------------------------------------
(* The deadlines: a caller does not give up on a call that goes on, and    *)
(* notices one that does not.                                              *)


Members(s) == {s[i] : i \in DOMAIN s}

\* What is to come for the caller, in order.
Coming == queue \o events

Sorted(s) == \A i, j \in DOMAIN s : i < j => s[i].sentAt =< s[j].sentAt

-----------------------------------------------------------------------------
(* The invariants.                                                         *)

\* Only an accepted call is worked on, ended and followed.
Settled ==
  /\ answer # "accepted" => \A p \in Publishers : publishing[p] = None
  /\ answer = None => ~finalized
  /\ handler \in {"working", "ending"} => answer = "accepted"
  /\ reply = "accepted" \/ caller = "following" => answer = "accepted"
  /\ failing => replied

\* Nothing is published of a call that was not accepted.
Silent == answer # "accepted" => \A e \in Members(queue) \cup Members(events) : ~Own(e)

\* Events arrive in order and in time, and say until when they are good.
InTime ==
  /\ Sorted(events)
  /\ \A e \in Members(events) : e.sentAt =< now /\ now =< e.sentAt + Latency
  /\ \A e \in Members(queue) : e.sentAt =< now
  /\ \A e \in Members(queue) \cup Members(events) :
       Own(e) /\ e.state = "running" => e.goodUntil = e.sentAt + skew + Ttl

\* Progress is made when it is due, and the caller waits no longer than said.
Punctual ==
  /\ handler = "working" => now =< progressAt
  /\ caller = "asking" => now =< sentAt + ReplyTimeout
  /\ caller = "following" => deadline =< now + timeout

\* Something ends the call at once: a publication under way, the failure of an abandoned
\* call, or run_long_call that is about to find it abandoned.
Ending ==
  \/ \E p \in Publishers : publishing[p] # None
  \/ failing
  \/ ~replied /\ handler = "exited"

\* The next event of the call is published by t.
Going(t) ==
  /\ ~finalized
  /\ \/ handler = "working" /\ progressAt =< t
     \/ now =< t /\ Ending

\* The event after s[i] is in s, and was published within the cadence.
Leads(s, i) ==
  \E j \in DOMAIN s : j > i /\ Own(s[j]) /\ s[j].sentAt =< s[i].sentAt + Cadence

Followed(s) ==
  \A i \in DOMAIN s : Own(s[i]) /\ s[i].state = "running" =>
                        Leads(s, i) \/ Going(s[i].sentAt + Cadence)

\* An event of the call was published by t, or is going to be.
Before(t) == (\E e \in Members(Coming) : Own(e) /\ e.sentAt =< t) \/ Going(t)

\* While publications succeed, each progress event is followed in time by another event of
\* the call, and the caller waits long enough for it.
Alive ==
  Subscribed /\ faults = 0 /\ answer = "accepted" =>
    /\ Followed(Coming)
    /\ caller = "asking" => Before(now)
    /\ caller = "following" => Before(deadline - Latency - 1)

\* The order of sending, starting and ending.
Dates ==
  /\ caller # "idle" => sentAt =< now
  /\ handler # "none" => caller # "idle"
  /\ doneAt # None => /\ handler \in {"exited", "canceled"}
                      /\ sentAt =< doneAt /\ doneAt =< now

\* How long the handler has lived.
Lived == IF doneAt = None THEN now ELSE doneAt

\* No progress event is younger than its handler, and no other event is there without noise.
Marked ==
  /\ \A e \in Members(queue) \cup Members(events) :
       Own(e) /\ e.state = "running" => e.sentAt =< Lived
  /\ noise = 0 => \A e \in Members(queue) \cup Members(events) : Own(e)

\* A wait is not exceeded, and ends within bounds of the handler's end as long as nothing
\* else restarts it.
Bounded ==
  caller = "following" =>
    /\ now =< sentAt + ReplyTimeout \/ now =< deadline
    /\ now =< sentAt + ReplyTimeout \/ \A e \in Members(queue) : now =< e.sentAt + Latency
    /\ noise = 0 =>
         IF followedAt # None
         THEN /\ followedAt =< sentAt + ReplyTimeout
              /\ deadline = followedAt + FirstEventTimeout
         ELSE deadline =< Lived + Ttl + ReplyMargin

TimingInv ==
  /\ Settled /\ Silent /\ InTime /\ Punctual /\ Alive /\ NoFalseAlarm
  /\ Dates /\ Marked /\ Bounded

-----------------------------------------------------------------------------
(* Sequences of events.                                                    *)

\* The events of a sequence that grows.
LEMMA AppendMembers ==
  ASSUME NEW S, NEW s \in Seq(S), NEW e \in S
  PROVE  Members(Append(s, e)) = Members(s) \cup {e}
<1>1. /\ DOMAIN s = 1..Len(s) /\ Len(s) \in Nat
      /\ DOMAIN Append(s, e) = 1..(Len(s) + 1)
  BY AppendProperties, LenProperties
<1>2. /\ \A i \in 1..Len(s) : Append(s, e)[i] = s[i]
      /\ Append(s, e)[Len(s) + 1] = e
  BY AppendProperties
<1> QED BY <1>1, <1>2 DEF Members

\* The events of a sequence that loses its head.
LEMMA TailMembers ==
  ASSUME NEW S, NEW s \in Seq(S), s # <<>>
  PROVE  Members(s) = {Head(s)} \cup Members(Tail(s))
<1>1. /\ DOMAIN s = 1..Len(s) /\ Len(s) \in Nat \ {0}
      /\ DOMAIN Tail(s) = 1..(Len(s) - 1) /\ Head(s) = s[1]
  BY HeadTailProperties, LenProperties, EmptySeq
<1>2. \A i \in 1..(Len(s) - 1) : Tail(s)[i] = s[i + 1]
  BY <1>1, HeadTailProperties
<1>3. \A i \in 1..Len(s) : i = 1 \/ (i - 1 \in 1..(Len(s) - 1) /\ (i - 1) + 1 = i)
  BY <1>1
<1>4. \A i \in 1..Len(s) : s[i] = Head(s) \/ s[i] \in Members(Tail(s))
  <2>1. ASSUME NEW i \in 1..Len(s), i # 1 PROVE s[i] \in Members(Tail(s))
    <3>1. i - 1 \in DOMAIN Tail(s) /\ Tail(s)[i - 1] = s[i]
      BY <1>1, <1>2, <1>3, <2>1
    <3> QED BY <3>1 DEF Members
  <2> QED BY <1>1, <2>1
<1>5. \A i \in 1..(Len(s) - 1) : i + 1 \in 1..Len(s)
  BY <1>1
<1> QED BY <1>1, <1>2, <1>4, <1>5 DEF Members

\* An empty sequence has no events.
LEMMA EmptyMembers == Members(<<>>) = {} /\ Sorted(<<>>)
  BY DEF Members, Sorted

\* Two sequences one after the other.
LEMMA ConcatMembers ==
  ASSUME NEW S, NEW s \in Seq(S), NEW t \in Seq(S)
  PROVE  s \o t \in Seq(S) /\ Members(s \o t) = Members(s) \cup Members(t)
<1>1. /\ DOMAIN s = 1..Len(s) /\ Len(s) \in Nat /\ DOMAIN t = 1..Len(t) /\ Len(t) \in Nat
      /\ s \o t \in Seq(S) /\ DOMAIN (s \o t) = 1..(Len(s) + Len(t))
  BY ConcatProperties, LenProperties
<1>2. \A i \in 1..(Len(s) + Len(t)) :
        (s \o t)[i] = IF i <= Len(s) THEN s[i] ELSE t[i - Len(s)]
  BY ConcatProperties
<1>3. ASSUME NEW i \in 1..(Len(s) + Len(t))
      PROVE  (s \o t)[i] \in Members(s) \cup Members(t)
  <2>1. i \in 1..Len(s) \/ (~(i <= Len(s)) /\ i - Len(s) \in 1..Len(t))
    BY <1>1
  <2>2. CASE i \in 1..Len(s)
    <3>1. (s \o t)[i] = s[i] /\ i \in DOMAIN s
      BY <1>1, <1>2, <2>2
    <3> QED BY <3>1 DEF Members
  <2>3. CASE ~(i <= Len(s)) /\ i - Len(s) \in 1..Len(t)
    <3>1. (s \o t)[i] = t[i - Len(s)] /\ i - Len(s) \in DOMAIN t
      BY <1>1, <1>2, <2>3
    <3> QED BY <3>1 DEF Members
  <2> QED BY <2>1, <2>2, <2>3
<1>4. ASSUME NEW i \in 1..Len(s)
      PROVE  s[i] \in Members(s \o t)
  <2>1. i \in 1..(Len(s) + Len(t)) /\ i <= Len(s)
    BY <1>1
  <2> QED BY <1>1, <1>2, <2>1 DEF Members
<1>5. ASSUME NEW i \in 1..Len(t)
      PROVE  t[i] \in Members(s \o t)
  <2>1. /\ i + Len(s) \in 1..(Len(s) + Len(t)) /\ ~(i + Len(s) <= Len(s))
        /\ (i + Len(s)) - Len(s) = i
    BY <1>1
  <2> QED BY <1>1, <1>2, <2>1 DEF Members
<1>6. Members(s \o t) \subseteq Members(s) \cup Members(t)
  BY <1>1, <1>3 DEF Members
<1>7. Members(s) \cup Members(t) \subseteq Members(s \o t)
  BY <1>1, <1>4, <1>5 DEF Members
<1> QED BY <1>1, <1>6, <1>7

\* What is appended to the second is appended to both.
LEMMA ConcatGrows ==
  ASSUME NEW S, NEW s \in Seq(S), NEW t \in Seq(S), NEW e \in S
  PROVE  s \o Append(t, e) = Append(s \o t, e)
<1>1. Append(t, e) = t \o <<e>> /\ <<e>> \in Seq(S) /\ s \o t \in Seq(S)
  BY AppendIsConcat, ConcatProperties
<1>2. Append(s \o t, e) = (s \o t) \o <<e>>
  BY <1>1, AppendIsConcat
<1> QED BY <1>1, <1>2, ConcatAssociative

\* The head of the second moves to the end of the first, and nothing changes.
LEMMA ConcatMoves ==
  ASSUME NEW S, NEW s \in Seq(S), NEW t \in Seq(S), t # <<>>
  PROVE  Append(s, Head(t)) \o Tail(t) = s \o t
<1>1. Head(t) \in S /\ Tail(t) \in Seq(S) /\ <<Head(t)>> \in Seq(S)
  BY HeadTailProperties
<1>2. Append(s, Head(t)) = s \o <<Head(t)>>
  BY <1>1, AppendIsConcat
<1>3. <<Head(t)>> \o Tail(t) = t
  <2> DEFINE u == <<Head(t)>> \o Tail(t)
  <2>1. /\ u \in Seq(S) /\ Len(u) = 1 + Len(Tail(t)) /\ Len(t) \in Nat \ {0}
        /\ Len(Tail(t)) = Len(t) - 1 /\ Len(<<Head(t)>>) = 1
        /\ Head(t) = t[1]
    BY <1>1, ConcatProperties, HeadTailProperties, EmptySeq
  <2>2. \A i \in 1..(1 + Len(Tail(t))) :
          u[i] = IF i <= 1 THEN <<Head(t)>>[i] ELSE Tail(t)[i - 1]
    BY <1>1, <2>1, ConcatProperties
  <2>3. \A i \in 1..Len(Tail(t)) : Tail(t)[i] = t[i + 1]
    BY HeadTailProperties
  <2> HIDE DEF u
  <2>4. ASSUME NEW i \in 1..Len(t)
        PROVE  u[i] = t[i]
    <3>1. CASE i = 1
      BY <2>1, <2>2, <3>1
    <3>2. CASE i # 1
      <4>1. i - 1 \in 1..Len(Tail(t)) /\ (i - 1) + 1 = i /\ ~(i <= 1)
            /\ i \in 1..(1 + Len(Tail(t)))
        BY <2>1, <3>2
      <4> QED BY <2>2, <2>3, <4>1
    <3> QED BY <3>1, <3>2
  <2>5. Len(u) = Len(t) /\ t \in Seq(S)
    BY <2>1
  <2>6. u = t
    BY <2>1, <2>4, <2>5, SeqEqual
  <2> QED BY <2>6 DEF u
<1> QED BY <1>1, <1>2, <1>3, ConcatAssociative

\* The head of the first is the head of both.
LEMMA ConcatTaken ==
  ASSUME NEW S, NEW s \in Seq(S), NEW t \in Seq(S), s # <<>>
  PROVE  /\ s \o t # <<>> /\ Head(s \o t) = Head(s)
         /\ Tail(s) \o t = Tail(s \o t)
<1>1. /\ Len(s) \in Nat \ {0} /\ Len(t) \in Nat /\ Head(s) = s[1] /\ Tail(s) \in Seq(S)
      /\ Len(Tail(s)) = Len(s) - 1
      /\ s \o t \in Seq(S) /\ Len(s \o t) = Len(s) + Len(t)
  BY HeadTailProperties, EmptySeq, ConcatProperties
<1>2. \A i \in 1..(Len(s) + Len(t)) :
        (s \o t)[i] = IF i <= Len(s) THEN s[i] ELSE t[i - Len(s)]
  BY ConcatProperties
<1>3. s \o t # <<>>
  BY <1>1, EmptySeq
<1>4. Head(s \o t) = Head(s)
  BY <1>1, <1>2, <1>3
<1>5. /\ Tail(s \o t) \in Seq(S) /\ Len(Tail(s \o t)) = Len(s) + Len(t) - 1
      /\ \A i \in 1..(Len(s) + Len(t) - 1) : Tail(s \o t)[i] = (s \o t)[i + 1]
  BY <1>1, <1>3, HeadTailProperties
<1>6. /\ Tail(s) \o t \in Seq(S) /\ Len(Tail(s) \o t) = Len(s) + Len(t) - 1
      /\ \A i \in 1..(Len(s) - 1 + Len(t)) :
           (Tail(s) \o t)[i] = IF i <= Len(s) - 1 THEN Tail(s)[i] ELSE t[i - (Len(s) - 1)]
      /\ \A i \in 1..(Len(s) - 1) : Tail(s)[i] = s[i + 1]
  BY <1>1, ConcatProperties, HeadTailProperties
<1>7. ASSUME NEW i \in 1..(Len(s) + Len(t) - 1)
      PROVE  (Tail(s) \o t)[i] = Tail(s \o t)[i]
  <2>1. i + 1 \in 1..(Len(s) + Len(t)) /\ i \in 1..(Len(s) - 1 + Len(t))
    BY <1>1
  <2>2. CASE i <= Len(s) - 1
    <3>1. i + 1 <= Len(s) /\ i \in 1..(Len(s) - 1)
      BY <1>1, <2>2
    <3> QED BY <1>2, <1>5, <1>6, <2>1, <2>2, <3>1
  <2>3. CASE ~(i <= Len(s) - 1)
    <3>1. ~(i + 1 <= Len(s)) /\ i - (Len(s) - 1) = (i + 1) - Len(s)
      BY <1>1, <2>3
    <3> QED BY <1>2, <1>5, <1>6, <2>1, <2>3, <3>1
  <2> QED BY <2>2, <2>3
<1>8. Len(Tail(s) \o t) = Len(Tail(s \o t))
  BY <1>5, <1>6
<1>9. Tail(s) \o t = Tail(s \o t)
  BY <1>5, <1>6, <1>7, <1>8, SeqEqual
<1> QED BY <1>3, <1>4, <1>9

\* No step works on, ends or follows a call that was not accepted.
LEMMA SettledStep ==
  ASSUME Shape, OneWay, Settled, [Next]_vars
  PROVE  Settled'
<1>0. CASE UNCHANGED vars
  BY <1>0, LongCallAssumption DEF Settled, OneWay, vars, callerVars, contextVars, serverVars
<1>1. CASE Deliver
  BY <1>1, LongCallAssumption DEF Settled, OneWay, Deliver, serverVars, contextVars
<1>2. ASSUME NEW state \in Ends \cup {"running"}, Noise(state) PROVE Settled'
  BY <1>2, LongCallAssumption
     DEF Settled, OneWay, Noise, callerVars, serverVars, contextVars
<1>3. CASE Send
  BY <1>3, LongCallAssumption DEF Settled, OneWay, Send, serverVars, contextVars
<1>4. CASE ReplyTimesOut
  BY <1>4, LongCallAssumption
     DEF Settled, OneWay, ReplyTimesOut, serverVars, Leave, contextVars
<1>5. CASE Accepted
  BY <1>5, LongCallAssumption DEF Settled, OneWay, Accepted, serverVars, contextVars
<1>6. CASE Refused
  BY <1>6, LongCallAssumption DEF Settled, OneWay, Refused, serverVars, Leave, contextVars
<1>7. CASE ReplyLost
  BY <1>7, LongCallAssumption
     DEF Settled, OneWay, ReplyLost, callerVars, serverVars, contextVars
<1>8. CASE Skip
  BY <1>8, LongCallAssumption DEF Settled, OneWay, Skip, serverVars, contextVars
<1>9. CASE Continue
  BY <1>9, LongCallAssumption DEF Settled, OneWay, Continue, serverVars, contextVars
<1>10. CASE Resolve
  BY <1>10, LongCallAssumption DEF Settled, OneWay, Resolve, serverVars, Leave, contextVars
<1>11. CASE EventsTimeOut
  BY <1>11, LongCallAssumption
     DEF Settled, OneWay, EventsTimeOut, serverVars, Leave, contextVars
<1>12. CASE CallerCanceled
  BY <1>12, LongCallAssumption
     DEF Settled, OneWay, Subscribed, CallerCanceled, serverVars, Leave, contextVars
<1>13. CASE RequestLost
  BY <1>13, LongCallAssumption
     DEF Settled, OneWay, RequestLost, callerVars, serverVars, contextVars
<1>14. CASE ArriveTooLate
  BY <1>14, LongCallAssumption
     DEF Settled, OneWay, ArriveTooLate, callerVars, serverVars, contextVars
<1>15. CASE StartHandler
  BY <1>15, LongCallAssumption DEF Settled, OneWay, StartHandler, callerVars, contextVars
<1>16. CASE Accept
  BY <1>16, LongCallAssumption DEF Settled, OneWay, Accept, callerVars
<1>17. CASE Reject
  BY <1>17, LongCallAssumption DEF Settled, OneWay, Reject, callerVars
<1>18. CASE SendReply
  BY <1>18, LongCallAssumption
     DEF Settled, OneWay, Answer, HandlerDone, Abandoned, SendReply, callerVars, contextVars
<1>19. CASE HandlerExits
  BY <1>19, LongCallAssumption
     DEF Settled, OneWay, Abandoned, HandlerExits, callerVars, contextVars, Exit
<1>20. CASE Progress
  BY <1>20, LongCallAssumption DEF Settled, OneWay, Progress, callerVars, contextVars
<1>21. CASE ProgressFails
  BY <1>21, LongCallAssumption
     DEF Settled, OneWay, Abandoned, ProgressFails, callerVars, contextVars, Exit
<1>22. ASSUME NEW p \in Publishers, NEW state \in Ends, BeginEnd(p, state) PROVE Settled'
  <2>1. answer = "accepted" /\ UNCHANGED <<answer, finalized, reply, caller, replied>>
    BY <1>22 DEF BeginEnd, callerVars, contextVars
  <2>2. failing' => failing
    BY <1>22 DEF BeginEnd, Publishers
  <2> QED
    BY <2>1, <2>2, LongCallAssumption DEF Settled
<1>23. ASSUME NEW p \in Publishers, EndPublished(p) PROVE Settled'
  <2>1. answer = "accepted" /\ UNCHANGED answer
    BY <1>23 DEF Settled, EndPublished
  <2>2. UNCHANGED <<reply, caller, failing, replied>>
    BY <1>23 DEF EndPublished, callerVars
  <2> QED
    BY <2>1, <2>2, LongCallAssumption DEF Settled
<1>24. ASSUME NEW p \in Publishers, NEW delivered \in BOOLEAN, EndFails(p, delivered)
       PROVE  Settled'
  BY <1>24, LongCallAssumption
     DEF Settled, OneWay, Shape, TypeOK, ServerTypes, Publishers, Abandoned, EndFails,
         callerVars, contextVars, Exit
<1>25. ASSUME NEW delivered \in BOOLEAN, HandlerCanceled(delivered) PROVE Settled'
  <2>1. publishing' = [publishing EXCEPT !["handler"] = None]
    BY <1>25 DEF HandlerCanceled
  <2>2. answer # "accepted" => \A p \in Publishers : publishing'[p] = None
    BY <2>1 DEF Settled, Shape, TypeOK, ServerTypes
  <2>3. UNCHANGED <<answer, finalized, reply, caller, replied>> /\ handler' = "canceled"
        /\ ~failing'
    BY <1>25 DEF HandlerCanceled, Exit, Abandoned, callerVars, contextVars
  <2>4. UNCHANGED answer
    BY <2>3
  <2> QED
    BY <2>2, <2>3, <2>4 DEF Settled
<1>26. CASE Tick
  BY <1>26, LongCallAssumption
     DEF Settled, OneWay, Tick, callerVars, serverVars, contextVars
<1> QED
  BY <1>0, <1>1, <1>2, <1>3, <1>4, <1>5, <1>6, <1>7, <1>8, <1>9, <1>10, <1>11, <1>12,
     <1>13, <1>14, <1>15, <1>16, <1>17, <1>18, <1>19, <1>20, <1>21, <1>22, <1>23, <1>24,
     <1>25, <1>26 DEF Next

-----------------------------------------------------------------------------
(* What a step does to the events of a call.                               *)

\* An event enters the stream: one of an accepted call, or one of another call.
Grows(own, state) ==
  /\ events' = Append(events, CallEvent(own, state))
  /\ UNCHANGED <<queue, caller, now, skew>>
  /\ own => answer = "accepted"
  /\ own /\ state = "running" => Progress
  /\ ~own => noise' > 0

\* The head of the queue is taken.
Takes == queue # <<>> /\ queue' = Tail(queue) /\ (Skip \/ Continue)

\* The caller leaves, and its queue with it.
Drops == queue' = <<>> /\ ~Subscribed'

Flows ==
  \/ UNCHANGED <<queue, events>>
  \/ Deliver
  \/ \E own \in BOOLEAN, state \in Ends \cup {"running"} : Grows(own, state)
  \/ UNCHANGED events /\ (Takes \/ Drops)

\* Every step does one of these to the events.
LEMMA FlowStep ==
  ASSUME Shape, Settled, [Next]_vars
  PROVE  Flows
<1>0. CASE UNCHANGED vars
  BY <1>0 DEF Flows, vars, callerVars
<1>1. CASE Deliver
  BY <1>1 DEF Flows
<1>2. ASSUME NEW state \in Ends \cup {"running"}, Noise(state) PROVE Flows
  <2>1. Grows(FALSE, state)
    BY <1>2 DEF Noise, Grows, clocks, callerVars, Shape, TypeOK, CountTypes
  <2> QED
    BY <2>1 DEF Flows
<1>3. CASE Send
  BY <1>3 DEF Flows, Send
<1>4. CASE ReplyTimesOut
  BY <1>4 DEF Flows, Drops, Subscribed, ReplyTimesOut, Leave
<1>5. CASE Accepted
  BY <1>5 DEF Flows, Accepted
<1>6. CASE Refused
  BY <1>6 DEF Flows, Drops, Subscribed, Refused, Leave
<1>7. CASE ReplyLost
  BY <1>7 DEF Flows, ReplyLost, callerVars
<1>8. CASE Skip
  BY <1>8 DEF Flows, Takes, Skip
<1>9. CASE Continue
  BY <1>9 DEF Flows, Takes, Continue
<1>10. CASE Resolve
  BY <1>10 DEF Flows, Drops, Subscribed, Resolve, Leave
<1>11. CASE EventsTimeOut
  BY <1>11 DEF Flows, Drops, Subscribed, EventsTimeOut, Leave
<1>12. CASE CallerCanceled
  BY <1>12 DEF Flows, Drops, Subscribed, CallerCanceled, Leave
<1>13. CASE RequestLost
  BY <1>13 DEF Flows, RequestLost, callerVars
<1>14. CASE ArriveTooLate
  BY <1>14 DEF Flows, ArriveTooLate, callerVars
<1>15. CASE StartHandler
  BY <1>15 DEF Flows, StartHandler, callerVars
<1>16. CASE Accept
  BY <1>16 DEF Flows, Accept, callerVars
<1>17. CASE Reject
  BY <1>17 DEF Flows, Reject, callerVars
<1>18. CASE SendReply
  BY <1>18 DEF Flows, SendReply, callerVars
<1>19. CASE HandlerExits
  BY <1>19 DEF Flows, HandlerExits, callerVars
<1>20. CASE Progress
  <2>1. Grows(TRUE, "running")
    BY <1>20 DEF Progress, Grows, Settled, clocks, callerVars
  <2> QED
    BY <2>1 DEF Flows
<1>21. CASE ProgressFails
  BY <1>21 DEF Flows, ProgressFails, callerVars
<1>22. ASSUME NEW p \in Publishers, NEW state \in Ends, BeginEnd(p, state) PROVE Flows
  BY <1>22 DEF Flows, BeginEnd, callerVars
<1>23. ASSUME NEW p \in Publishers, EndPublished(p) PROVE Flows
  <2>1. publishing[p] \in Ends /\ answer = "accepted"
    BY <1>23, PublishingType DEF EndPublished, Settled
  <2>2. Grows(TRUE, publishing[p])
    BY <1>23, <2>1 DEF EndPublished, Emit, Grows, Ends, clocks, callerVars
  <2> QED
    BY <2>1, <2>2 DEF Flows
<1>24. ASSUME NEW p \in Publishers, NEW delivered \in BOOLEAN, EndFails(p, delivered)
       PROVE  Flows
  <2>1. publishing[p] \in Ends /\ answer = "accepted"
    BY <1>24, PublishingType DEF EndFails, Settled
  <2>2. CASE delivered
    <3>1. Grows(TRUE, publishing[p])
      BY <1>24, <2>1, <2>2 DEF EndFails, Emit, Grows, Ends, clocks, callerVars
    <3> QED
      BY <2>1, <3>1 DEF Flows
  <2>3. CASE ~delivered
    BY <1>24, <2>3 DEF Flows, EndFails, callerVars
  <2> QED
    BY <2>2, <2>3
<1>25. ASSUME NEW delivered \in BOOLEAN, HandlerCanceled(delivered) PROVE Flows
  <2>1. CASE delivered
    <3>1. publishing["handler"] \in Ends /\ answer = "accepted"
      BY <1>25, <2>1, PublishingType DEF HandlerCanceled, Settled, Publishers
    <3>2. Grows(TRUE, publishing["handler"])
      BY <1>25, <2>1, <3>1 DEF HandlerCanceled, Emit, Grows, Ends, clocks, callerVars
    <3> QED
      BY <3>1, <3>2 DEF Flows
  <2>2. CASE ~delivered
    BY <1>25, <2>2 DEF Flows, HandlerCanceled, callerVars
  <2> QED
    BY <2>1, <2>2
<1>26. CASE Tick
  BY <1>26 DEF Flows, Tick, callerVars
<1> QED
  BY <1>0, <1>1, <1>2, <1>3, <1>4, <1>5, <1>6, <1>7, <1>8, <1>9, <1>10, <1>11, <1>12,
     <1>13, <1>14, <1>15, <1>16, <1>17, <1>18, <1>19, <1>20, <1>21, <1>22, <1>23, <1>24,
     <1>25, <1>26 DEF Next

\* The events are events.
LEMMA MemberType ==
  ASSUME Shape
  PROVE  Members(queue) \cup Members(events) \subseteq EventTypes
<1>1. queue \in Seq(EventTypes) /\ events \in Seq(EventTypes)
  BY DEF Shape, TypeOK, CallerTypes, WayTypes
<1>2. ASSUME NEW s \in Seq(EventTypes) PROVE Members(s) \subseteq EventTypes
  <2>1. \A i \in DOMAIN s : s[i] \in EventTypes
    BY ElementOfSeq, LenProperties
  <2> QED BY <2>1 DEF Members
<1> QED BY <1>1, <1>2

\* An event that is there after a step was there before, or has just entered the stream.
LEMMA MembersStep ==
  ASSUME Shape, Flows
  PROVE  /\ \A e \in Members(queue') \cup Members(events') :
              \/ e \in Members(queue) \cup Members(events)
              \/ \E own \in BOOLEAN, state \in Ends \cup {"running"} :
                   Grows(own, state) /\ e = CallEvent(own, state)
         /\ \A e \in Members(events') :
              \/ e \in Members(events)
              \/ \E own \in BOOLEAN, state \in Ends \cup {"running"} :
                   Grows(own, state) /\ e = CallEvent(own, state)
<1>0. queue \in Seq(EventTypes) /\ events \in Seq(EventTypes)
  BY DEF Shape, TypeOK, CallerTypes, WayTypes
<1>1. CASE UNCHANGED <<queue, events>>
  BY <1>1
<1>2. CASE Deliver
  <2>1. events # <<>> /\ events' = Tail(events) /\ Head(events) \in EventTypes
    BY <1>0, <1>2, HeadTailProperties DEF Deliver
  <2>2. Members(events) = {Head(events)} \cup Members(events')
    BY <1>0, <2>1, TailMembers
  <2>3. Members(Append(queue, Head(events))) = Members(queue) \cup {Head(events)}
    BY <1>0, <2>1, AppendMembers
  <2>4. queue' = queue \/ queue' = Append(queue, Head(events))
    BY <1>2 DEF Deliver
  <2> QED BY <2>2, <2>3, <2>4
<1>3. ASSUME NEW own \in BOOLEAN, NEW state \in Ends \cup {"running"}, Grows(own, state)
      PROVE  /\ queue' = queue
             /\ Members(events') = Members(events) \cup {CallEvent(own, state)}
  BY <1>0, <1>3, AppendMembers, EventType DEF Grows, Shape
<1>4. CASE UNCHANGED events /\ Takes
  <2>1. Members(queue) = {Head(queue)} \cup Members(queue')
    BY <1>0, <1>4, TailMembers DEF Takes
  <2> QED BY <1>4, <2>1
<1>5. CASE UNCHANGED events /\ Drops
  BY <1>5, EmptyMembers DEF Drops
<1>6. CASE \E own \in BOOLEAN, state \in Ends \cup {"running"} : Grows(own, state)
  <2>1. PICK own \in BOOLEAN, state \in Ends \cup {"running"} : Grows(own, state)
    BY <1>6
  <2> QED BY <1>3, <2>1
<1> QED BY <1>1, <1>2, <1>4, <1>5, <1>6 DEF Flows

\* What was accepted stays accepted.
LEMMA AcceptedStays ==
  ASSUME OneWay, [Next]_vars
  PROVE  answer = "accepted" => answer' = "accepted"
<1>0. CASE UNCHANGED vars
  BY <1>0 DEF vars, serverVars, contextVars
<1>1. CASE Deliver
  BY <1>1 DEF Deliver, serverVars, contextVars
<1>2. ASSUME NEW state \in Ends \cup {"running"}, Noise(state)
      PROVE  answer = "accepted" => answer' = "accepted"
  BY <1>2 DEF Noise, serverVars, contextVars
<1>3. CASE Send
  BY <1>3 DEF Send, serverVars, contextVars
<1>4. CASE ReplyTimesOut
  BY <1>4 DEF ReplyTimesOut, serverVars, contextVars
<1>5. CASE Accepted
  BY <1>5 DEF Accepted, serverVars, contextVars
<1>6. CASE Refused
  BY <1>6 DEF Refused, serverVars, contextVars
<1>7. CASE ReplyLost
  BY <1>7 DEF ReplyLost, serverVars, contextVars
<1>8. CASE Skip
  BY <1>8 DEF Skip, serverVars, contextVars
<1>9. CASE Continue
  BY <1>9 DEF Continue, serverVars, contextVars
<1>10. CASE Resolve
  BY <1>10 DEF Resolve, serverVars, contextVars
<1>11. CASE EventsTimeOut
  BY <1>11 DEF EventsTimeOut, serverVars, contextVars
<1>12. CASE CallerCanceled
  BY <1>12 DEF CallerCanceled, serverVars, contextVars
<1>13. CASE RequestLost
  BY <1>13 DEF RequestLost, serverVars, contextVars
<1>14. CASE ArriveTooLate
  BY <1>14 DEF ArriveTooLate, serverVars, contextVars
<1>15. CASE StartHandler
  BY <1>15 DEF StartHandler, contextVars
<1>16. CASE Accept
  BY <1>16, LongCallAssumption DEF Accept, OneWay
<1>17. CASE Reject
  BY <1>17, LongCallAssumption DEF Reject, OneWay
<1>18. CASE SendReply
  BY <1>18 DEF SendReply, contextVars
<1>19. CASE HandlerExits
  BY <1>19 DEF HandlerExits, contextVars
<1>20. CASE Progress
  BY <1>20 DEF Progress, contextVars
<1>21. CASE ProgressFails
  BY <1>21 DEF ProgressFails, contextVars
<1>22. ASSUME NEW p \in Publishers, NEW state \in Ends, BeginEnd(p, state)
       PROVE  answer = "accepted" => answer' = "accepted"
  BY <1>22 DEF BeginEnd, contextVars
<1>23. ASSUME NEW p \in Publishers, EndPublished(p)
       PROVE  answer = "accepted" => answer' = "accepted"
  BY <1>23 DEF EndPublished
<1>24. ASSUME NEW p \in Publishers, NEW delivered \in BOOLEAN, EndFails(p, delivered)
       PROVE  answer = "accepted" => answer' = "accepted"
  BY <1>24 DEF EndFails, contextVars
<1>25. ASSUME NEW delivered \in BOOLEAN, HandlerCanceled(delivered)
       PROVE  answer = "accepted" => answer' = "accepted"
  BY <1>25 DEF HandlerCanceled, contextVars
<1>26. CASE Tick
  BY <1>26 DEF Tick, serverVars, contextVars
<1> QED
  BY <1>0, <1>1, <1>2, <1>3, <1>4, <1>5, <1>6, <1>7, <1>8, <1>9, <1>10, <1>11, <1>12,
     <1>13, <1>14, <1>15, <1>16, <1>17, <1>18, <1>19, <1>20, <1>21, <1>22, <1>23, <1>24,
     <1>25, <1>26 DEF Next

\* No step publishes an event of a call that is not accepted.
LEMMA SilentStep ==
  ASSUME Shape, OneWay, Settled, Silent, [Next]_vars
  PROVE  Silent'
<1>1. answer' # "accepted" => answer # "accepted"
  BY AcceptedStays
<1>2. ASSUME answer' # "accepted", NEW e \in Members(queue') \cup Members(events')
      PROVE  ~e.own
  <2>1. CASE e \in Members(queue) \cup Members(events)
    BY <1>1, <1>2, <2>1 DEF Silent, Own
  <2>2. CASE \E own \in BOOLEAN, state \in Ends \cup {"running"} :
               Grows(own, state) /\ e = CallEvent(own, state)
    <3>1. PICK own \in BOOLEAN, state \in Ends \cup {"running"} :
            Grows(own, state) /\ e = CallEvent(own, state)
      BY <2>2
    <3>2. own = FALSE
      BY <1>1, <1>2, <3>1, Zenon DEF Grows
    <3> QED BY <3>1, <3>2 DEF CallEvent
  <2> QED BY <2>1, <2>2, FlowStep, MembersStep
<1> QED BY <1>2 DEF Silent, Own

-----------------------------------------------------------------------------
(* Time.                                                                   *)

\* What all steps about it may use.
LEMMA TimeTypes ==
  ASSUME Shape
  PROVE  /\ now \in Nat /\ sentAt \in Nat /\ progressAt \in Nat
         /\ timeout \in Int /\ deadline \in Int /\ skew \in Int
         /\ -ReplyMargin =< skew /\ skew =< ReplyMargin
         /\ queue \in Seq(EventTypes) /\ events \in Seq(EventTypes)
  BY LongCallAssumption DEF Shape, TypeOK, CallerTypes, ServerTypes, WayTypes

\* Only Tick moves a clock.
LEMMA ClockStep ==
  ASSUME [Next]_vars
  PROVE  UNCHANGED <<now, skew>> \/ Tick
<1>0. CASE UNCHANGED vars
  BY <1>0 DEF vars, clocks
<1>1. CASE Deliver
  BY <1>1 DEF Deliver, clocks
<1>2. ASSUME NEW state \in Ends \cup {"running"}, Noise(state)
      PROVE  UNCHANGED <<now, skew>> \/ Tick
  BY <1>2 DEF Noise, clocks
<1>3. CASE Send
  BY <1>3 DEF Send, clocks
<1>4. CASE ReplyTimesOut
  BY <1>4 DEF ReplyTimesOut, clocks
<1>5. CASE Accepted
  BY <1>5 DEF Accepted, clocks
<1>6. CASE Refused
  BY <1>6 DEF Refused, clocks
<1>7. CASE ReplyLost
  BY <1>7 DEF ReplyLost, clocks
<1>8. CASE Skip
  BY <1>8 DEF Skip, clocks
<1>9. CASE Continue
  BY <1>9 DEF Continue, clocks
<1>10. CASE Resolve
  BY <1>10 DEF Resolve, clocks
<1>11. CASE EventsTimeOut
  BY <1>11 DEF EventsTimeOut, clocks
<1>12. CASE CallerCanceled
  BY <1>12 DEF CallerCanceled, clocks
<1>13. CASE RequestLost
  BY <1>13 DEF RequestLost, clocks
<1>14. CASE ArriveTooLate
  BY <1>14 DEF ArriveTooLate, clocks
<1>15. CASE StartHandler
  BY <1>15 DEF StartHandler, clocks
<1>16. CASE Accept
  BY <1>16 DEF Accept, clocks
<1>17. CASE Reject
  BY <1>17 DEF Reject, clocks
<1>18. CASE SendReply
  BY <1>18 DEF SendReply, clocks
<1>19. CASE HandlerExits
  BY <1>19 DEF HandlerExits, clocks
<1>20. CASE Progress
  BY <1>20 DEF Progress, clocks
<1>21. CASE ProgressFails
  BY <1>21 DEF ProgressFails, clocks
<1>22. ASSUME NEW p \in Publishers, NEW state \in Ends, BeginEnd(p, state)
       PROVE  UNCHANGED <<now, skew>> \/ Tick
  BY <1>22 DEF BeginEnd, clocks
<1>23. ASSUME NEW p \in Publishers, EndPublished(p) PROVE UNCHANGED <<now, skew>> \/ Tick
  BY <1>23 DEF EndPublished, clocks
<1>24. ASSUME NEW p \in Publishers, NEW delivered \in BOOLEAN, EndFails(p, delivered)
       PROVE  UNCHANGED <<now, skew>> \/ Tick
  BY <1>24 DEF EndFails, clocks
<1>25. ASSUME NEW delivered \in BOOLEAN, HandlerCanceled(delivered)
       PROVE  UNCHANGED <<now, skew>> \/ Tick
  BY <1>25 DEF HandlerCanceled, clocks
<1>26. CASE Tick
  BY <1>26
<1> QED
  BY <1>0, <1>1, <1>2, <1>3, <1>4, <1>5, <1>6, <1>7, <1>8, <1>9, <1>10, <1>11, <1>12,
     <1>13, <1>14, <1>15, <1>16, <1>17, <1>18, <1>19, <1>20, <1>21, <1>22, <1>23, <1>24,
     <1>25, <1>26 DEF Next

\* No step passes over what is due.
LEMMA PunctualityStep ==
  ASSUME Shape, OneWay, Punctual, [Next]_vars
  PROVE  Punctual'
<1>0. CASE UNCHANGED vars
  BY <1>0, TimeTypes, LongCallAssumption DEF Punctual, vars, clocks, callerVars, serverVars
<1>1. CASE Deliver
  BY <1>1, TimeTypes, LongCallAssumption DEF Punctual, Deliver, clocks, serverVars
<1>2. ASSUME NEW state \in Ends \cup {"running"}, Noise(state) PROVE Punctual'
  BY <1>2, TimeTypes, LongCallAssumption DEF Punctual, Noise, clocks, callerVars, serverVars
<1>3. CASE Send
  BY <1>3, TimeTypes, LongCallAssumption DEF Punctual, Send, clocks, serverVars
<1>4. CASE ReplyTimesOut
  BY <1>4, TimeTypes
     DEF Punctual, Subscribed, Outcomes, ReplyTimesOut, clocks, serverVars, Leave
<1>5. CASE Accepted
  BY <1>5, TimeTypes, LongCallAssumption DEF Punctual, Accepted, clocks, serverVars
<1>6. CASE Refused
  BY <1>6, TimeTypes DEF Punctual, Subscribed, Outcomes, Refused, clocks, serverVars, Leave
<1>7. CASE ReplyLost
  BY <1>7, TimeTypes, LongCallAssumption
     DEF Punctual, ReplyLost, clocks, callerVars, serverVars
<1>8. CASE Skip
  BY <1>8, TimeTypes, LongCallAssumption DEF Punctual, Skip, clocks, serverVars
<1>9. CASE Continue
  <2>1. Head(queue) \in EventTypes
    BY <1>9, TimeTypes, HeadTailProperties DEF Continue
  <2>2. NextTimeout(Head(queue)) \in Int
    BY <1>9, <2>1, TimeTypes DEF Continue, NextTimeout, EventTypes, Ends
  <2>3. deadline' = now + timeout' /\ timeout' \in Int
    BY <1>9, <2>2 DEF Continue
  <2>4. UNCHANGED <<now, handler, progressAt>> /\ caller' = "following"
    BY <1>9 DEF Continue, serverVars, clocks
  <2> QED
    BY <2>3, <2>4, TimeTypes DEF Punctual
<1>10. CASE Resolve
  BY <1>10, TimeTypes DEF Punctual, Subscribed, Outcomes, Resolve, clocks, serverVars, Leave
<1>11. CASE EventsTimeOut
  BY <1>11, TimeTypes
     DEF Punctual, Subscribed, Outcomes, EventsTimeOut, clocks, serverVars, Leave
<1>12. CASE CallerCanceled
  BY <1>12, TimeTypes
     DEF Punctual, Subscribed, Outcomes, CallerCanceled, clocks, serverVars, Leave
<1>13. CASE RequestLost
  BY <1>13, TimeTypes, LongCallAssumption
     DEF Punctual, RequestLost, clocks, callerVars, serverVars
<1>14. CASE ArriveTooLate
  BY <1>14, TimeTypes, LongCallAssumption
     DEF Punctual, ArriveTooLate, clocks, callerVars, serverVars
<1>15. CASE StartHandler
  BY <1>15, TimeTypes, LongCallAssumption DEF Punctual, StartHandler, clocks, callerVars
<1>16. CASE Accept
  BY <1>16, TimeTypes, LongCallAssumption DEF Punctual, Accept, clocks, callerVars
<1>17. CASE Reject
  BY <1>17, TimeTypes, LongCallAssumption DEF Punctual, Reject, clocks, callerVars
<1>18. CASE SendReply
  BY <1>18, TimeTypes, LongCallAssumption DEF Punctual, SendReply, clocks, callerVars
<1>19. CASE HandlerExits
  BY <1>19, TimeTypes, LongCallAssumption
     DEF Punctual, HandlerExits, clocks, callerVars, Exit
<1>20. CASE Progress
  <2>1. /\ UNCHANGED <<clocks, callerVars>> /\ handler' = handler
        /\ progressAt' = now + Cadence
    BY <1>20 DEF Progress
  <2> QED BY <2>1, TimeTypes, LongCallAssumption DEF Punctual, clocks, callerVars
<1>21. CASE ProgressFails
  BY <1>21, TimeTypes, LongCallAssumption
     DEF Punctual, ProgressFails, clocks, callerVars, Exit
<1>22. ASSUME NEW p \in Publishers, NEW state \in Ends, BeginEnd(p, state) PROVE Punctual'
  BY <1>22, TimeTypes DEF Punctual, Publishers, BeginEnd, clocks, callerVars
<1>23. ASSUME NEW p \in Publishers, EndPublished(p) PROVE Punctual'
  BY <1>23, TimeTypes DEF Punctual, Publishers, EndPublished, clocks, callerVars
<1>24. ASSUME NEW p \in Publishers, NEW delivered \in BOOLEAN, EndFails(p, delivered)
       PROVE  Punctual'
  BY <1>24, TimeTypes DEF Punctual, Publishers, EndFails, clocks, callerVars, Exit
<1>25. ASSUME NEW delivered \in BOOLEAN, HandlerCanceled(delivered) PROVE Punctual'
  BY <1>25, TimeTypes, LongCallAssumption
     DEF Punctual, HandlerCanceled, clocks, callerVars, Exit
<1>26. CASE Tick
  BY <1>26, TimeTypes, LongCallAssumption
     DEF Punctual, Due, Tick, callerVars, serverVars, bounds, history, contextVars
<1> QED
  BY <1>0, <1>1, <1>2, <1>3, <1>4, <1>5, <1>6, <1>7, <1>8, <1>9, <1>10, <1>11, <1>12,
     <1>13, <1>14, <1>15, <1>16, <1>17, <1>18, <1>19, <1>20, <1>21, <1>22, <1>23, <1>24,
     <1>25, <1>26 DEF Next

\* A sorted sequence stays sorted when it loses its head, its first event.
LEMMA SortedTail ==
  ASSUME NEW s \in Seq(EventTypes), s # <<>>, Sorted(s)
  PROVE  /\ Sorted(Tail(s))
         /\ \A e \in Members(s) : Head(s).sentAt =< e.sentAt
<1>1. /\ DOMAIN s = 1..Len(s) /\ Len(s) \in Nat \ {0}
      /\ DOMAIN Tail(s) = 1..(Len(s) - 1) /\ Head(s) = s[1]
  BY HeadTailProperties, LenProperties, EmptySeq
<1>2. \A i \in 1..(Len(s) - 1) : Tail(s)[i] = s[i + 1]
  BY <1>1, HeadTailProperties
<1>3. ASSUME NEW i \in DOMAIN Tail(s), NEW j \in DOMAIN Tail(s), i < j
      PROVE  Tail(s)[i].sentAt =< Tail(s)[j].sentAt
  <2>1. i + 1 \in DOMAIN s /\ j + 1 \in DOMAIN s /\ i + 1 < j + 1
    BY <1>1, <1>3
  <2> QED BY <1>1, <1>2, <2>1 DEF Sorted
<1>4. ASSUME NEW i \in DOMAIN s
      PROVE  s[1].sentAt =< s[i].sentAt
  <2>1. CASE i = 1
    <3>1. s[1] \in EventTypes
      BY <1>1, ElementOfSeq
    <3>2. s[1].sentAt \in Nat
      BY <3>1 DEF EventTypes
    <3> QED BY <2>1, <3>2
  <2>2. CASE i # 1
    <3>1. 1 \in DOMAIN s /\ 1 < i
      BY <1>1, <2>2
    <3> QED BY <3>1 DEF Sorted
  <2> QED BY <2>1, <2>2
<1> QED BY <1>1, <1>3, <1>4 DEF Sorted, Members

\* A sorted sequence stays sorted when it gains a later event.
LEMMA SortedAppend ==
  ASSUME NEW s \in Seq(EventTypes), NEW e \in EventTypes, Sorted(s),
         \A d \in Members(s) : d.sentAt =< e.sentAt
  PROVE  Sorted(Append(s, e))
<1>1. /\ DOMAIN s = 1..Len(s) /\ Len(s) \in Nat
      /\ DOMAIN Append(s, e) = 1..(Len(s) + 1)
  BY AppendProperties, LenProperties
<1>2. /\ \A i \in 1..Len(s) : Append(s, e)[i] = s[i]
      /\ Append(s, e)[Len(s) + 1] = e
  BY AppendProperties
<1>3. ASSUME NEW i \in 1..(Len(s) + 1), NEW j \in 1..(Len(s) + 1), i < j
      PROVE  Append(s, e)[i].sentAt =< Append(s, e)[j].sentAt
  <2>1. i \in 1..Len(s)
    BY <1>1, <1>3
  <2>2. CASE j = Len(s) + 1
    <3>1. s[i] \in Members(s)
      BY <1>1, <2>1 DEF Members
    <3> QED BY <1>2, <2>1, <2>2, <3>1
  <2>3. CASE j # Len(s) + 1
    <3>1. j \in 1..Len(s)
      BY <1>1, <2>3
    <3> QED BY <1>1, <1>2, <1>3, <2>1, <3>1 DEF Sorted
  <2> QED BY <2>2, <2>3
<1> QED BY <1>1, <1>3 DEF Sorted

\* What an event carries.
LEMMA MemberTimes ==
  ASSUME Shape, NEW e \in Members(queue) \cup Members(events)
  PROVE  /\ e.own \in BOOLEAN /\ e.sentAt \in Nat
         /\ e.state = "running" => e.goodUntil \in Int
  BY MemberType DEF EventTypes, Ends

\* An event that enters the stream is dated now.
LEMMA FreshTimes ==
  ASSUME Shape, NEW own \in BOOLEAN, NEW state \in Ends \cup {"running"}
  PROVE  LET e == CallEvent(own, state) IN
           /\ e \in EventTypes /\ e.own = own /\ e.state = state /\ e.sentAt = now
           /\ state = "running" => e.goodUntil = now + skew + Ttl
  BY EventType DEF Shape, CallEvent, GoodUntil, ServerNow

\* No step puts the events out of order, or leaves one behind.
LEMMA InTimeStep ==
  ASSUME Shape, Settled, InTime, [Next]_vars
  PROVE  InTime'
<1>0. /\ now \in Nat /\ queue \in Seq(EventTypes) /\ events \in Seq(EventTypes)
      /\ Latency \in Nat
  BY TimeTypes, LongCallAssumption
<1>1. Flows /\ (UNCHANGED <<now, skew>> \/ Tick)
  BY FlowStep, ClockStep
<1>2. skew' = skew
  BY <1>1 DEF Tick
<1>3. Sorted(events')
  <2>1. CASE events' = events
    BY <2>1 DEF InTime
  <2>2. CASE Deliver
    BY <1>0, <2>2, SortedTail DEF Deliver, InTime
  <2>3. ASSUME NEW own \in BOOLEAN, NEW state \in Ends \cup {"running"}, Grows(own, state)
        PROVE  Sorted(events')
    <3>1. /\ CallEvent(own, state) \in EventTypes /\ CallEvent(own, state).sentAt = now
          /\ events' = Append(events, CallEvent(own, state))
      BY <2>3, FreshTimes DEF Grows
    <3> QED BY <1>0, <3>1, SortedAppend DEF InTime
  <2> QED BY <1>1, <2>1, <2>2, <2>3 DEF Flows
<1>4. CASE Tick
  <2>1. UNCHANGED <<queue, events>> /\ now' = now + 1
    BY <1>4 DEF Tick, callerVars
  <2>2. ASSUME NEW e \in Members(events)
        PROVE  now' =< e.sentAt + Latency
    <3>1. events # <<>>
      BY <2>2, EmptyMembers
    <3>2. now < Head(events).sentAt + Latency
      <4>1. ~(now >= Head(events).sentAt + Latency)
        BY <1>4, <3>1 DEF Tick, Due
      <4>2. Head(events) \in EventTypes
        BY <1>0, <3>1, HeadTailProperties
      <4>3. Head(events).sentAt \in Nat
        BY <4>2 DEF EventTypes
      <4> QED BY <1>0, <4>1, <4>3
    <3>3. Head(events).sentAt =< e.sentAt
      BY <1>0, <2>2, <3>1, SortedTail DEF InTime
    <3>4. Head(events).sentAt \in Nat /\ e.sentAt \in Nat
      <4>1. Head(events) \in EventTypes
        BY <1>0, <3>1, HeadTailProperties
      <4> QED BY <2>2, <4>1, MemberTimes DEF EventTypes
    <3> QED BY <1>0, <2>1, <3>2, <3>3, <3>4
  <2>3. \A e \in Members(queue) \cup Members(events) : e.sentAt =< now'
    <3>1. ASSUME NEW e \in Members(queue) \cup Members(events) PROVE e.sentAt =< now'
      <4>1. e.sentAt \in Nat /\ e.sentAt =< now
        BY <3>1, MemberTimes DEF InTime
      <4> QED BY <1>0, <2>1, <4>1
    <3> QED BY <3>1
  <2> QED BY <1>2, <1>3, <2>1, <2>2, <2>3 DEF InTime, Own
<1>5. CASE now' = now
  <2>1. ASSUME NEW own \in BOOLEAN, NEW state \in Ends \cup {"running"}, Grows(own, state),
               NEW e, e = CallEvent(own, state)
        PROVE  /\ e.sentAt =< now' /\ now' =< e.sentAt + Latency
               /\ Own(e) /\ e.state = "running" => e.goodUntil = e.sentAt + skew' + Ttl
    BY <1>0, <1>2, <1>5, <2>1, FreshTimes
  <2>2. ASSUME NEW e \in Members(events')
        PROVE  e.sentAt =< now' /\ now' =< e.sentAt + Latency
    BY <1>1, <1>5, <2>1, <2>2, MembersStep DEF InTime
  <2>3. ASSUME NEW e \in Members(queue') \cup Members(events')
        PROVE  /\ e.sentAt =< now'
               /\ Own(e) /\ e.state = "running" => e.goodUntil = e.sentAt + skew' + Ttl
    BY <1>1, <1>2, <1>5, <2>1, <2>3, MembersStep DEF InTime
  <2> QED BY <1>3, <2>2, <2>3 DEF InTime, Own
<1> QED BY <1>1, <1>4, <1>5

-----------------------------------------------------------------------------
(* A call that goes on.                                                    *)

\* A step that leaves the server alone.
Elsewhere ==
  UNCHANGED <<now, handler, answer, finalized, replied, failing, publishing, progressAt>>

\* The call goes on, or its next event enters the stream.
Goes(t) ==
  \/ Going(t)'
  \/ now =< t /\ \E state \in Ends \cup {"running"} : Grows(TRUE, state)

\* A step that leaves the server alone lets a call go on.
LEMMA GoesElsewhere ==
  ASSUME NEW t, Going(t), Elsewhere
  PROVE  Goes(t)
  BY DEF Goes, Going, Ending, Elsewhere, Publishers

\* While publications succeed, a call that goes on goes on, or its next event is published.
LEMMA GoingStep ==
  ASSUME Shape, OneWay, Settled, Punctual, [Next]_vars, faults' = 0,
         answer = "accepted", NEW t \in Int, Going(t)
  PROVE  Goes(t)
<1>0. CASE UNCHANGED vars
  BY <1>0, GoesElsewhere DEF Elsewhere, vars, clocks, serverVars, contextVars
<1>1. CASE Deliver
  BY <1>1, GoesElsewhere DEF Elsewhere, Deliver, clocks, serverVars, contextVars
<1>2. ASSUME NEW state \in Ends \cup {"running"}, Noise(state) PROVE Goes(t)
  BY <1>2, GoesElsewhere DEF Elsewhere, Noise, clocks, serverVars, contextVars
<1>3. CASE Send
  BY <1>3, GoesElsewhere DEF Elsewhere, Send, clocks, serverVars, contextVars
<1>4. CASE ReplyTimesOut
  BY <1>4, GoesElsewhere DEF Elsewhere, ReplyTimesOut, clocks, serverVars, contextVars
<1>5. CASE Accepted
  BY <1>5, GoesElsewhere DEF Elsewhere, Accepted, clocks, serverVars, contextVars
<1>6. CASE Refused
  BY <1>6, GoesElsewhere DEF Elsewhere, Refused, clocks, serverVars, contextVars
<1>7. CASE ReplyLost
  BY <1>7, GoesElsewhere DEF Elsewhere, ReplyLost, clocks, serverVars, contextVars
<1>8. CASE Skip
  BY <1>8, GoesElsewhere DEF Elsewhere, Skip, clocks, serverVars, contextVars
<1>9. CASE Continue
  BY <1>9, GoesElsewhere DEF Elsewhere, Continue, clocks, serverVars, contextVars
<1>10. CASE Resolve
  BY <1>10, GoesElsewhere DEF Elsewhere, Resolve, clocks, serverVars, contextVars
<1>11. CASE EventsTimeOut
  BY <1>11, GoesElsewhere DEF Elsewhere, EventsTimeOut, clocks, serverVars, contextVars
<1>12. CASE CallerCanceled
  BY <1>12, GoesElsewhere DEF Elsewhere, CallerCanceled, clocks, serverVars, contextVars
<1>13. CASE RequestLost
  BY <1>13, GoesElsewhere DEF Elsewhere, RequestLost, clocks, serverVars, contextVars
<1>14. CASE ArriveTooLate
  BY <1>14, GoesElsewhere DEF Elsewhere, ArriveTooLate, clocks, serverVars, contextVars
<1>15. CASE StartHandler
  BY <1>15, LongCallAssumption DEF StartHandler, OneWay
<1>16. CASE Accept
  BY <1>16, LongCallAssumption DEF Accept, OneWay
<1>17. CASE Reject
  BY <1>17, LongCallAssumption DEF Reject, OneWay
<1>18. CASE SendReply
  <2>1. UNCHANGED <<now, handler, answer, finalized, publishing, progressAt>>
        /\ failing' = (handler = "exited" /\ ~finalized) /\ ~replied
    BY <1>18, LongCallAssumption DEF SendReply, Abandoned, clocks, contextVars
  <2> QED
    BY <2>1 DEF Goes, Going, Ending, Settled
<1>19. CASE HandlerExits
  <2>1. handler = "working" /\ now =< progressAt
    BY <1>19, LongCallAssumption DEF HandlerExits, OneWay, Punctual
  <2>2. UNCHANGED <<now, finalized, replied>> /\ handler' = "exited" /\ ~finalized
        /\ failing' = (replied /\ ~finalized)
    BY <1>19 DEF HandlerExits, Exit, Abandoned, clocks, contextVars, Going
  <2>3. now =< t
    BY <2>1, TimeTypes DEF Going
  <2> QED
    BY <2>2, <2>3 DEF Goes, Going, Ending, Shape, TypeOK, ServerTypes
<1>20. CASE Progress
  <2>1. Grows(TRUE, "running")
    BY <1>20 DEF Progress, Grows, Settled, clocks, callerVars
  <2>2. now =< t
    BY <1>20, TimeTypes DEF Progress, Punctual, Going
  <2> QED
    BY <2>1, <2>2 DEF Goes
<1>21. CASE ProgressFails
  BY <1>21 DEF ProgressFails, Shape, TypeOK, CountTypes
<1>22. ASSUME NEW p \in Publishers, NEW state \in Ends, BeginEnd(p, state) PROVE Goes(t)
  <2>1. publishing'[p] # None
    BY <1>22, LongCallAssumption DEF BeginEnd, Shape, TypeOK, ServerTypes, Ends
  <2>2. UNCHANGED <<now, finalized, progressAt>> /\ ~finalized
    BY <1>22 DEF BeginEnd, clocks, contextVars
  <2>3. CASE now =< t
    BY <2>1, <2>2, <2>3 DEF Goes, Going, Ending
  <2>4. CASE ~(now =< t)
    <3>1. handler = "working" /\ progressAt =< t /\ now =< progressAt
      BY <2>4 DEF Going, Punctual
    <3> QED
      BY <2>4, <3>1, TimeTypes
  <2> QED
    BY <2>3, <2>4
<1>23. ASSUME NEW p \in Publishers, EndPublished(p) PROVE Goes(t)
  <2>1. publishing[p] \in Ends /\ answer = "accepted"
    BY <1>23, PublishingType DEF EndPublished, Settled
  <2>2. Grows(TRUE, publishing[p])
    BY <1>23, <2>1 DEF EndPublished, Emit, Grows, Ends, clocks, callerVars
  <2>3. now =< t
    BY TimeTypes DEF Going, Punctual
  <2> QED
    BY <2>1, <2>2, <2>3 DEF Goes
<1>24. ASSUME NEW p \in Publishers, NEW delivered \in BOOLEAN, EndFails(p, delivered)
       PROVE  Goes(t)
  BY <1>24 DEF EndFails, Shape, TypeOK, CountTypes
<1>25. ASSUME NEW delivered \in BOOLEAN, HandlerCanceled(delivered) PROVE Goes(t)
  BY <1>25 DEF HandlerCanceled, Shape, TypeOK, CountTypes
<1>26. CASE Tick
  <2>1. ~Ending
    BY <1>26 DEF Tick, Due, Ending, HandlerDone, Going
  <2>2. handler = "working" /\ progressAt =< t /\ ~finalized
    BY <2>1 DEF Going
  <2>3. UNCHANGED <<handler, progressAt, finalized>>
    BY <1>26 DEF Tick, serverVars, contextVars
  <2> QED
    BY <2>2, <2>3 DEF Goes, Going
<1> QED
  BY <1>0, <1>1, <1>2, <1>3, <1>4, <1>5, <1>6, <1>7, <1>8, <1>9, <1>10, <1>11, <1>12,
     <1>13, <1>14, <1>15, <1>16, <1>17, <1>18, <1>19, <1>20, <1>21, <1>22, <1>23, <1>24,
     <1>25, <1>26 DEF Next

\* What a step does to what is to come, while the caller listens.
LEMMA ComingStep ==
  ASSUME Shape, Flows, Subscribed', Subscribed
  PROVE  /\ Coming \in Seq(EventTypes) /\ Coming' \in Seq(EventTypes)
         /\ \/ Coming' = Coming
            \/ \E own \in BOOLEAN, state \in Ends \cup {"running"} :
                 Grows(own, state) /\ Coming' = Append(Coming, CallEvent(own, state))
            \/ /\ Takes /\ UNCHANGED events /\ Coming # <<>>
               /\ Head(Coming) = Head(queue) /\ Coming' = Tail(Coming)
<1>0. queue \in Seq(EventTypes) /\ events \in Seq(EventTypes)
  BY TimeTypes
<1>1. Coming \in Seq(EventTypes)
  BY <1>0, ConcatProperties DEF Coming
<1>2. CASE UNCHANGED <<queue, events>>
  BY <1>1, <1>2 DEF Coming
<1>3. CASE Deliver
  <2>1. events # <<>> /\ events' = Tail(events) /\ queue' = Append(queue, Head(events))
    BY <1>3 DEF Deliver
  <2>2. Coming' = Coming
    BY <1>0, <2>1, ConcatMoves DEF Coming
  <2> QED BY <1>1, <2>2
<1>4. ASSUME NEW own \in BOOLEAN, NEW state \in Ends \cup {"running"}, Grows(own, state)
      PROVE  /\ Coming' = Append(Coming, CallEvent(own, state))
             /\ Coming' \in Seq(EventTypes)
  <2>1. CallEvent(own, state) \in EventTypes
    BY FreshTimes
  <2>2. queue' = queue /\ events' = Append(events, CallEvent(own, state))
    BY <1>4 DEF Grows
  <2>3. Coming' = Append(Coming, CallEvent(own, state))
    BY <1>0, <2>1, <2>2, ConcatGrows DEF Coming
  <2> QED BY <1>1, <2>1, <2>3, AppendProperties
<1>5. CASE UNCHANGED events /\ Takes
  <2>1. queue # <<>> /\ queue' = Tail(queue) /\ events' = events
    BY <1>5 DEF Takes
  <2>2. /\ Coming # <<>> /\ Head(Coming) = Head(queue)
        /\ Coming' = Tail(Coming)
    BY <1>0, <2>1, ConcatTaken DEF Coming
  <2> QED BY <1>1, <1>5, <2>2, HeadTailProperties
<1>6. ~Drops
  BY DEF Drops
<1> QED BY <1>1, <1>2, <1>3, <1>4, <1>5, <1>6 DEF Flows

\* An event that enters the stream determines what entered.
LEMMA GrowsOnce ==
  ASSUME Shape, NEW own \in BOOLEAN, NEW state \in Ends \cup {"running"}, Grows(own, state),
         NEW state2 \in Ends \cup {"running"}, Grows(TRUE, state2)
  PROVE  own = TRUE
<1> DEFINE d == CallEvent(own, state)
           e == CallEvent(TRUE, state2)
<1>1. d \in EventTypes /\ e \in EventTypes /\ d.own = own /\ e.own = TRUE
  BY FreshTimes
<1>2. Append(events, d) = Append(events, e)
  BY DEF Grows
<1> HIDE DEF d, e
<1>3. Append(events, d)[Len(events) + 1] = d /\ Append(events, e)[Len(events) + 1] = e
  BY <1>1, TimeTypes, AppendProperties
<1> QED BY <1>1, <1>2, <1>3

\* An event that enters the stream changes it.
LEMMA GrowsLonger ==
  ASSUME Shape, NEW own \in BOOLEAN, NEW state \in Ends \cup {"running"}, Grows(own, state)
  PROVE  events' # events
<1>1. CallEvent(own, state) \in EventTypes /\ events \in Seq(EventTypes)
  BY FreshTimes, TimeTypes
<1>2. Len(events') = Len(events) + 1 /\ Len(events) \in Nat
  BY <1>1, AppendProperties, LenProperties DEF Grows
<1> QED BY <1>2

\* An event of the call stays to be expected by t, until it is taken.
LEMMA BeforeStep ==
  ASSUME Shape, OneWay, Settled, Punctual, [Next]_vars, faults' = 0, answer = "accepted",
         Subscribed, Subscribed', NEW t \in Int, Before(t),
         Takes => ~Own(Head(queue))
  PROVE  Before(t)'
<1>1. Flows
  BY FlowStep
<1>2. /\ Coming \in Seq(EventTypes) /\ Coming' \in Seq(EventTypes)
      /\ \A own \in BOOLEAN, state \in Ends \cup {"running"} :
           CallEvent(own, state) \in EventTypes
  BY <1>1, ComingStep, FreshTimes
<1>3. ASSUME NEW e \in Members(Coming), Own(e), e.sentAt =< t
      PROVE  e \in Members(Coming')
  <2>1. CASE Coming' = Coming
    BY <2>1
  <2>2. ASSUME NEW own \in BOOLEAN, NEW state \in Ends \cup {"running"},
               Coming' = Append(Coming, CallEvent(own, state))
        PROVE  e \in Members(Coming')
    BY <1>2, <2>2, AppendMembers
  <2>3. CASE Takes /\ Coming # <<>> /\ Head(Coming) = Head(queue) /\ Coming' = Tail(Coming)
    <3>1. Members(Coming) = {Head(queue)} \cup Members(Coming')
      BY <1>2, <2>3, TailMembers
    <3> QED BY <1>3, <2>3, <3>1
  <2> QED BY <1>1, <2>1, <2>2, <2>3, ComingStep
<1>4. ASSUME Going(t) PROVE Before(t)'
  <2>1. CASE Going(t)'
    BY <2>1 DEF Before
  <2>2. ASSUME now =< t, NEW state \in Ends \cup {"running"}, Grows(TRUE, state)
        PROVE  Before(t)'
    <3> DEFINE e == CallEvent(TRUE, state)
    <3>1. e.own = TRUE /\ e.sentAt = now /\ e \in EventTypes
      BY FreshTimes
    <3>2. queue' = queue /\ events' = Append(events, e)
      BY <2>2 DEF Grows
    <3> HIDE DEF e
    <3>3. Coming' = Append(Coming, e)
      BY <3>1, <3>2, TimeTypes, ConcatGrows DEF Coming
    <3>4. e \in Members(Coming')
      BY <1>2, <3>1, <3>3, AppendMembers
    <3> QED BY <2>2, <3>1, <3>4 DEF Before, Own
  <2> QED BY <1>4, <2>1, <2>2, GoingStep DEF Goes
<1>5. CASE \E e \in Members(Coming) : Own(e) /\ e.sentAt =< t
  BY <1>3, <1>5 DEF Before, Own
<1> QED BY <1>4, <1>5 DEF Before

\* The event after another stays after it when the sequence grows.
LEMMA LeadsAppend ==
  ASSUME NEW s \in Seq(EventTypes), NEW e \in EventTypes, NEW i \in DOMAIN s
  PROVE  /\ i \in DOMAIN Append(s, e) /\ Append(s, e)[i] = s[i]
         /\ Leads(s, i) => Leads(Append(s, e), i)
         /\ Own(e) /\ e.sentAt =< s[i].sentAt + Cadence => Leads(Append(s, e), i)
<1>1. /\ DOMAIN s = 1..Len(s) /\ Len(s) \in Nat
      /\ DOMAIN Append(s, e) = 1..(Len(s) + 1)
  BY AppendProperties, LenProperties
<1>2. /\ \A j \in 1..Len(s) : Append(s, e)[j] = s[j]
      /\ Append(s, e)[Len(s) + 1] = e
  BY AppendProperties
<1>3. i \in DOMAIN Append(s, e) /\ Append(s, e)[i] = s[i]
  BY <1>1, <1>2
<1>4. ASSUME Leads(s, i) PROVE Leads(Append(s, e), i)
  <2>1. PICK j \in DOMAIN s : j > i /\ Own(s[j]) /\ s[j].sentAt =< s[i].sentAt + Cadence
    BY <1>4 DEF Leads
  <2>2. j \in DOMAIN Append(s, e) /\ Append(s, e)[j] = s[j]
    BY <1>1, <1>2
  <2> QED BY <1>3, <2>1, <2>2 DEF Leads
<1>5. ASSUME Own(e), e.sentAt =< s[i].sentAt + Cadence PROVE Leads(Append(s, e), i)
  <2>1. Len(s) + 1 \in DOMAIN Append(s, e) /\ Len(s) + 1 > i
    BY <1>1
  <2> QED BY <1>2, <1>3, <1>5, <2>1 DEF Leads
<1> QED BY <1>3, <1>4, <1>5

\* The event after another stays after it when the sequence loses its head.
LEMMA LeadsTail ==
  ASSUME NEW s \in Seq(EventTypes), s # <<>>, NEW i \in DOMAIN Tail(s)
  PROVE  /\ i + 1 \in DOMAIN s /\ Tail(s)[i] = s[i + 1]
         /\ Leads(s, i + 1) => Leads(Tail(s), i)
<1>1. /\ DOMAIN s = 1..Len(s) /\ Len(s) \in Nat \ {0}
      /\ DOMAIN Tail(s) = 1..(Len(s) - 1)
  BY HeadTailProperties, LenProperties, EmptySeq
<1>2. \A j \in 1..(Len(s) - 1) : Tail(s)[j] = s[j + 1]
  BY <1>1, HeadTailProperties
<1>3. i + 1 \in DOMAIN s /\ Tail(s)[i] = s[i + 1]
  BY <1>1, <1>2
<1>4. ASSUME Leads(s, i + 1) PROVE Leads(Tail(s), i)
  <2>1. PICK j \in DOMAIN s :
          j > i + 1 /\ Own(s[j]) /\ s[j].sentAt =< s[i + 1].sentAt + Cadence
    BY <1>4 DEF Leads
  <2>2. j - 1 \in DOMAIN Tail(s) /\ j - 1 > i /\ (j - 1) + 1 = j
    BY <1>1, <2>1
  <2>3. Tail(s)[j - 1] = s[j]
    BY <1>1, <1>2, <2>2
  <2> QED BY <1>3, <2>1, <2>2, <2>3 DEF Leads
<1> QED BY <1>3, <1>4

\* Every progress event stays followed by another event of the call.
LEMMA FollowedStep ==
  ASSUME Shape, OneWay, Settled, Punctual, [Next]_vars, faults' = 0, answer = "accepted",
         Subscribed, Subscribed', Followed(Coming)
  PROVE  Followed(Coming)'
<1>1. Flows
  BY FlowStep
<1>2. PICK s : s = Coming
  OBVIOUS
<1>3. PICK u : u = Coming'
  OBVIOUS
<1>4. /\ s \in Seq(EventTypes) /\ u \in Seq(EventTypes)
      /\ \A own \in BOOLEAN, state \in Ends \cup {"running"} :
           CallEvent(own, state) \in EventTypes
  BY <1>1, <1>2, <1>3, ComingStep, FreshTimes
<1>5. \A i \in DOMAIN s : Own(s[i]) /\ s[i].state = "running" =>
                            Leads(s, i) \/ Going(s[i].sentAt + Cadence)
  BY <1>2 DEF Followed
<1>6. \A i \in DOMAIN s : s[i] \in EventTypes /\ s[i].sentAt + Cadence \in Int
  <2>1. \A i \in DOMAIN s : s[i] \in EventTypes
    BY <1>4, ElementOfSeq, LenProperties
  <2>2. \A i \in DOMAIN s : s[i].sentAt \in Nat
    BY <2>1 DEF EventTypes
  <2> QED BY <2>1, <2>2, LongCallAssumption
<1>7. ASSUME NEW i \in DOMAIN s, Own(s[i]), s[i].state = "running"
      PROVE  \/ Leads(s, i) \/ Going(s[i].sentAt + Cadence)'
             \/ /\ now =< s[i].sentAt + Cadence
                /\ \E state \in Ends \cup {"running"} : Grows(TRUE, state)
  BY <1>5, <1>6, <1>7, GoingStep DEF Goes
<1>8. ASSUME ~\E state \in Ends \cup {"running"} : Grows(TRUE, state),
             NEW i \in DOMAIN s, Own(s[i]), s[i].state = "running"
      PROVE  Leads(s, i) \/ Going(s[i].sentAt + Cadence)'
  BY <1>7, <1>8
<1>9. SUFFICES ASSUME NEW i \in DOMAIN u, Own(u[i]), u[i].state = "running"
               PROVE  Leads(u, i) \/ Going(u[i].sentAt + Cadence)'
  BY <1>3 DEF Followed, Leads, Own, Going, Ending
<1>10. CASE Coming' = Coming
  <2>1. ~\E state \in Ends \cup {"running"} : Grows(TRUE, state)
    <3> SUFFICES ASSUME NEW state \in Ends \cup {"running"}, Grows(TRUE, state) PROVE FALSE
      OBVIOUS
    <3>1. PICK e \in EventTypes : e = CallEvent(TRUE, state)
      BY <1>4
    <3>2. queue' = queue /\ events' = Append(events, e)
      BY <3>1 DEF Grows
    <3>3. Coming' = Append(Coming, e)
      BY <3>2, TimeTypes, ConcatGrows DEF Coming
    <3>4. Len(u) = Len(s) + 1 /\ Len(s) \in Nat
      BY <1>2, <1>3, <1>4, <3>3, AppendProperties, LenProperties
    <3> QED BY <1>2, <1>3, <1>10, <3>4
  <2> QED BY <1>2, <1>3, <1>8, <1>9, <1>10, <2>1
<1>11. ASSUME NEW own \in BOOLEAN, NEW state \in Ends \cup {"running"}, Grows(own, state),
              Coming' = Append(Coming, CallEvent(own, state))
       PROVE  Leads(u, i) \/ Going(u[i].sentAt + Cadence)'
  <2>1. PICK e : e = CallEvent(own, state)
    OBVIOUS
  <2>2. e \in EventTypes /\ u = Append(s, e) /\ e.own = own /\ e.state = state
        /\ e.sentAt = now
    BY <1>2, <1>3, <1>11, <2>1, FreshTimes
  <2>3. CASE i \in DOMAIN s
    <3>1. u[i] = s[i] /\ Own(s[i]) /\ s[i].state = "running"
      BY <1>4, <1>9, <2>2, <2>3, LeadsAppend
    <3>2. CASE Leads(s, i) \/ Going(s[i].sentAt + Cadence)'
      BY <1>4, <2>2, <2>3, <3>1, <3>2, LeadsAppend
    <3>3. CASE /\ now =< s[i].sentAt + Cadence
               /\ \E st \in Ends \cup {"running"} : Grows(TRUE, st)
      <4>1. own = TRUE
        BY <1>11, <3>3, GrowsOnce
      <4>2. Own(e) /\ e.sentAt =< s[i].sentAt + Cadence
        BY <2>2, <3>3, <4>1 DEF Own
      <4>3. Leads(Append(s, e), i)
        BY <1>4, <2>2, <2>3, <4>2, LeadsAppend
      <4> QED BY <2>2, <4>3
    <3>4. Leads(s, i) \/ Going(s[i].sentAt + Cadence)' \/
            (now =< s[i].sentAt + Cadence /\ \E st \in Ends \cup {"running"} : Grows(TRUE, st))
      BY <1>7, <2>3, <3>1, Zenon
    <3> QED BY <3>2, <3>3, <3>4
  <2>4. CASE i \notin DOMAIN s
    <3>1. i = Len(s) + 1 /\ u[i] = e
      <4>1. /\ DOMAIN s = 1..Len(s) /\ Len(s) \in Nat
            /\ DOMAIN u = 1..(Len(s) + 1) /\ u[Len(s) + 1] = e
        BY <1>4, <2>2, AppendProperties, LenProperties
      <4> QED BY <1>9, <2>4, <4>1
    <3>2. own = TRUE /\ state = "running"
      BY <1>9, <2>2, <3>1 DEF Own
    <3>3. Progress
      BY <1>11, <3>2 DEF Grows
    <3>4. /\ handler' = "working" /\ finalized' = FALSE
          /\ progressAt' = now + Cadence
      BY <3>3 DEF Progress, contextVars, Shape, TypeOK, ServerTypes
    <3>5. progressAt' =< u[i].sentAt + Cadence
      BY <2>2, <3>1, <3>4, TimeTypes, LongCallAssumption
    <3> QED BY <3>4, <3>5 DEF Going
  <2> QED BY <2>3, <2>4
<1>12. CASE /\ Takes /\ UNCHANGED events /\ Coming # <<>>
            /\ Head(Coming) = Head(queue) /\ Coming' = Tail(Coming)
  <2>1. s # <<>> /\ u = Tail(s)
    BY <1>2, <1>3, <1>12
  <2>2. /\ i + 1 \in DOMAIN s /\ u[i] = s[i + 1]
        /\ Leads(s, i + 1) => Leads(u, i)
    BY <1>4, <1>9, <2>1, LeadsTail
  <2>3. ~\E state \in Ends \cup {"running"} : Grows(TRUE, state)
    BY <1>12, GrowsLonger
  <2>4. Leads(s, i + 1) \/ Going(s[i + 1].sentAt + Cadence)'
    BY <1>8, <1>9, <2>2, <2>3
  <2> QED BY <2>2, <2>4
<1> QED BY <1>1, <1>10, <1>11, <1>12, ComingStep

\* Faults are counted.
LEMMA FaultsStep ==
  ASSUME [Next]_vars
  PROVE  faults' = faults \/ faults' = faults + 1
<1>0. CASE UNCHANGED vars
  BY <1>0 DEF vars, bounds
<1>1. CASE Deliver
  BY <1>1 DEF Deliver, bounds
<1>2. ASSUME NEW state \in Ends \cup {"running"}, Noise(state)
      PROVE  faults' = faults \/ faults' = faults + 1
  BY <1>2 DEF Noise
<1>3. CASE Send
  BY <1>3 DEF Send, bounds
<1>4. CASE ReplyTimesOut
  BY <1>4 DEF ReplyTimesOut, bounds
<1>5. CASE Accepted
  BY <1>5 DEF Accepted, bounds
<1>6. CASE Refused
  BY <1>6 DEF Refused, bounds
<1>7. CASE ReplyLost
  BY <1>7 DEF ReplyLost, bounds
<1>8. CASE Skip
  BY <1>8 DEF Skip, bounds
<1>9. CASE Continue
  BY <1>9 DEF Continue, bounds
<1>10. CASE Resolve
  BY <1>10 DEF Resolve, bounds
<1>11. CASE EventsTimeOut
  BY <1>11 DEF EventsTimeOut, bounds
<1>12. CASE CallerCanceled
  BY <1>12 DEF CallerCanceled, bounds
<1>13. CASE RequestLost
  BY <1>13 DEF RequestLost, bounds
<1>14. CASE ArriveTooLate
  BY <1>14 DEF ArriveTooLate, bounds
<1>15. CASE StartHandler
  BY <1>15 DEF StartHandler, bounds
<1>16. CASE Accept
  BY <1>16 DEF Accept, bounds
<1>17. CASE Reject
  BY <1>17 DEF Reject, bounds
<1>18. CASE SendReply
  BY <1>18 DEF SendReply, bounds
<1>19. CASE HandlerExits
  BY <1>19 DEF HandlerExits, bounds
<1>20. CASE Progress
  BY <1>20 DEF Progress, bounds
<1>21. CASE ProgressFails
  BY <1>21 DEF ProgressFails
<1>22. ASSUME NEW p \in Publishers, NEW state \in Ends, BeginEnd(p, state)
       PROVE  faults' = faults \/ faults' = faults + 1
  BY <1>22 DEF BeginEnd, bounds
<1>23. ASSUME NEW p \in Publishers, EndPublished(p)
       PROVE  faults' = faults \/ faults' = faults + 1
  BY <1>23 DEF EndPublished, bounds
<1>24. ASSUME NEW p \in Publishers, NEW delivered \in BOOLEAN, EndFails(p, delivered)
       PROVE  faults' = faults \/ faults' = faults + 1
  BY <1>24 DEF EndFails
<1>25. ASSUME NEW delivered \in BOOLEAN, HandlerCanceled(delivered)
       PROVE  faults' = faults \/ faults' = faults + 1
  BY <1>25 DEF HandlerCanceled
<1>26. CASE Tick
  BY <1>26 DEF Tick, bounds
<1> QED
  BY <1>0, <1>1, <1>2, <1>3, <1>4, <1>5, <1>6, <1>7, <1>8, <1>9, <1>10, <1>11, <1>12,
     <1>13, <1>14, <1>15, <1>16, <1>17, <1>18, <1>19, <1>20, <1>21, <1>22, <1>23, <1>24,
     <1>25, <1>26 DEF Next

\* Only Accept accepts a call.
LEMMA AcceptStep ==
  ASSUME [Next]_vars
  PROVE  answer' = "accepted" => answer = "accepted" \/ Accept
<1>0. CASE UNCHANGED vars
  BY <1>0 DEF vars, serverVars, contextVars
<1>1. CASE Deliver
  BY <1>1 DEF Deliver, serverVars, contextVars
<1>2. ASSUME NEW state \in Ends \cup {"running"}, Noise(state)
      PROVE  answer' = "accepted" => answer = "accepted" \/ Accept
  BY <1>2 DEF Noise, serverVars, contextVars
<1>3. CASE Send
  BY <1>3 DEF Send, serverVars, contextVars
<1>4. CASE ReplyTimesOut
  BY <1>4 DEF ReplyTimesOut, serverVars, contextVars
<1>5. CASE Accepted
  BY <1>5 DEF Accepted, serverVars, contextVars
<1>6. CASE Refused
  BY <1>6 DEF Refused, serverVars, contextVars
<1>7. CASE ReplyLost
  BY <1>7 DEF ReplyLost, serverVars, contextVars
<1>8. CASE Skip
  BY <1>8 DEF Skip, serverVars, contextVars
<1>9. CASE Continue
  BY <1>9 DEF Continue, serverVars, contextVars
<1>10. CASE Resolve
  BY <1>10 DEF Resolve, serverVars, contextVars
<1>11. CASE EventsTimeOut
  BY <1>11 DEF EventsTimeOut, serverVars, contextVars
<1>12. CASE CallerCanceled
  BY <1>12 DEF CallerCanceled, serverVars, contextVars
<1>13. CASE RequestLost
  BY <1>13 DEF RequestLost, serverVars, contextVars
<1>14. CASE ArriveTooLate
  BY <1>14 DEF ArriveTooLate, serverVars, contextVars
<1>15. CASE StartHandler
  BY <1>15 DEF StartHandler, contextVars
<1>16. CASE Accept
  BY <1>16
<1>17. CASE Reject
  BY <1>17 DEF Reject
<1>18. CASE SendReply
  BY <1>18 DEF SendReply, contextVars
<1>19. CASE HandlerExits
  BY <1>19 DEF HandlerExits, contextVars
<1>20. CASE Progress
  BY <1>20 DEF Progress, contextVars
<1>21. CASE ProgressFails
  BY <1>21 DEF ProgressFails, contextVars
<1>22. ASSUME NEW p \in Publishers, NEW state \in Ends, BeginEnd(p, state)
       PROVE  answer' = "accepted" => answer = "accepted" \/ Accept
  BY <1>22 DEF BeginEnd, contextVars
<1>23. ASSUME NEW p \in Publishers, EndPublished(p)
       PROVE  answer' = "accepted" => answer = "accepted" \/ Accept
  BY <1>23 DEF EndPublished
<1>24. ASSUME NEW p \in Publishers, NEW delivered \in BOOLEAN, EndFails(p, delivered)
       PROVE  answer' = "accepted" => answer = "accepted" \/ Accept
  BY <1>24 DEF EndFails, contextVars
<1>25. ASSUME NEW delivered \in BOOLEAN, HandlerCanceled(delivered)
       PROVE  answer' = "accepted" => answer = "accepted" \/ Accept
  BY <1>25 DEF HandlerCanceled, contextVars
<1>26. CASE Tick
  BY <1>26 DEF Tick, serverVars, contextVars
<1> QED
  BY <1>0, <1>1, <1>2, <1>3, <1>4, <1>5, <1>6, <1>7, <1>8, <1>9, <1>10, <1>11, <1>12,
     <1>13, <1>14, <1>15, <1>16, <1>17, <1>18, <1>19, <1>20, <1>21, <1>22, <1>23, <1>24,
     <1>25, <1>26 DEF Next

\* How the caller comes to ask or to follow, and until when.
CallerMoves ==
  /\ caller' = "asking" => Send \/ (caller = "asking" /\ ~Takes)
  /\ caller' = "following" =>
       \/ Accepted /\ ~Takes
       \/ caller = "following" /\ (Continue \/ Skip \/ (UNCHANGED deadline /\ ~Takes))

\* Taking an event changes the queue.
LEMMA NotTaken ==
  ASSUME Shape, Takes
  PROVE  queue' # queue
<1>1. queue # <<>> /\ queue' = Tail(queue)
  BY DEF Takes
<1>2. Len(queue') = Len(queue) - 1 /\ Len(queue) \in Nat
  BY <1>1, TimeTypes, HeadTailProperties, EmptySeq
<1>3. Len(queue') # Len(queue)
  BY <1>2
<1> QED BY <1>3

\* A caller asks or follows in no other way.
LEMMA CallerStep ==
  ASSUME Shape, [Next]_vars
  PROVE  CallerMoves
<1>0. CASE UNCHANGED vars
  BY <1>0, NotTaken DEF CallerMoves, vars, callerVars
<1>1. CASE Deliver
  <2>1. UNCHANGED <<caller, deadline>>
    BY <1>1 DEF Deliver
  <2>2. queue # <<>> => queue' # Tail(queue)
    <3>1. Len(queue') = Len(queue) \/ Len(queue') = Len(queue) + 1
      BY <1>1, TimeTypes, HeadTailProperties, AppendProperties DEF Deliver
    <3>2. queue # <<>> => Len(Tail(queue)) = Len(queue) - 1 /\ Len(queue) \in Nat
      BY TimeTypes, HeadTailProperties, EmptySeq
    <3> QED
      BY <3>1, <3>2
  <2> QED
    BY <2>1, <2>2 DEF CallerMoves, Takes
<1>2. ASSUME NEW state \in Ends \cup {"running"}, Noise(state) PROVE CallerMoves
  BY <1>2, NotTaken DEF CallerMoves, Noise, callerVars
<1>3. CASE Send
  BY <1>3 DEF CallerMoves, Send
<1>4. CASE ReplyTimesOut
  BY <1>4 DEF CallerMoves, Subscribed, Outcomes, ReplyTimesOut, Leave
<1>5. CASE Accepted
  BY <1>5, NotTaken DEF CallerMoves, Accepted
<1>6. CASE Refused
  BY <1>6 DEF CallerMoves, Subscribed, Outcomes, Refused, Leave
<1>7. CASE ReplyLost
  BY <1>7, NotTaken DEF CallerMoves, ReplyLost, callerVars
<1>8. CASE Skip
  BY <1>8 DEF CallerMoves, Skip
<1>9. CASE Continue
  BY <1>9 DEF CallerMoves, Continue
<1>10. CASE Resolve
  BY <1>10 DEF CallerMoves, Subscribed, Outcomes, Resolve, Leave
<1>11. CASE EventsTimeOut
  BY <1>11 DEF CallerMoves, Subscribed, Outcomes, EventsTimeOut, Leave
<1>12. CASE CallerCanceled
  BY <1>12 DEF CallerMoves, Subscribed, Outcomes, CallerCanceled, Leave
<1>13. CASE RequestLost
  BY <1>13, NotTaken DEF CallerMoves, RequestLost, callerVars
<1>14. CASE ArriveTooLate
  BY <1>14, NotTaken DEF CallerMoves, ArriveTooLate, callerVars
<1>15. CASE StartHandler
  BY <1>15, NotTaken DEF CallerMoves, StartHandler, callerVars
<1>16. CASE Accept
  BY <1>16, NotTaken DEF CallerMoves, Accept, callerVars
<1>17. CASE Reject
  BY <1>17, NotTaken DEF CallerMoves, Reject, callerVars
<1>18. CASE SendReply
  BY <1>18, NotTaken DEF CallerMoves, SendReply, callerVars
<1>19. CASE HandlerExits
  BY <1>19, NotTaken DEF CallerMoves, HandlerExits, callerVars
<1>20. CASE Progress
  BY <1>20, NotTaken DEF CallerMoves, Progress, callerVars
<1>21. CASE ProgressFails
  BY <1>21, NotTaken DEF CallerMoves, ProgressFails, callerVars
<1>22. ASSUME NEW p \in Publishers, NEW state \in Ends, BeginEnd(p, state) PROVE CallerMoves
  BY <1>22, NotTaken DEF CallerMoves, BeginEnd, callerVars
<1>23. ASSUME NEW p \in Publishers, EndPublished(p) PROVE CallerMoves
  BY <1>23, NotTaken DEF CallerMoves, EndPublished, callerVars
<1>24. ASSUME NEW p \in Publishers, NEW delivered \in BOOLEAN, EndFails(p, delivered)
       PROVE  CallerMoves
  BY <1>24, NotTaken DEF CallerMoves, EndFails, callerVars
<1>25. ASSUME NEW delivered \in BOOLEAN, HandlerCanceled(delivered) PROVE CallerMoves
  BY <1>25, NotTaken DEF CallerMoves, HandlerCanceled, callerVars
<1>26. CASE Tick
  BY <1>26, NotTaken DEF CallerMoves, Tick, callerVars
<1> QED
  BY <1>0, <1>1, <1>2, <1>3, <1>4, <1>5, <1>6, <1>7, <1>8, <1>9, <1>10, <1>11, <1>12,
     <1>13, <1>14, <1>15, <1>16, <1>17, <1>18, <1>19, <1>20, <1>21, <1>22, <1>23, <1>24,
     <1>25, <1>26 DEF Next

\* A call that has just been accepted goes on.
LEMMA AliveAccepted ==
  ASSUME Shape, OneWay, Settled, Silent, answer # "accepted", Accept, Subscribed
  PROVE  Alive'
<1>1. /\ UNCHANGED <<now, caller, queue, events, finalized>> /\ ~finalized
      /\ handler' = "working" /\ progressAt' = now /\ caller # "following"
  BY LongCallAssumption DEF Accept, clocks, callerVars, OneWay, Settled
<1>2. PICK u : u = Coming'
  OBVIOUS
<1>3. u \in Seq(EventTypes) /\ \A e \in Members(u) : ~Own(e)
  <2>1. u = queue \o events
    BY <1>1, <1>2 DEF Coming
  <2> QED BY <2>1, TimeTypes, ConcatMembers DEF Silent
<1>4. Followed(Coming)'
  <2>1. \A i \in DOMAIN u : ~Own(u[i])
    BY <1>3 DEF Members
  <2> QED BY <1>2, <2>1 DEF Followed, Own
<1>5. Before(now)'
  BY <1>1, TimeTypes DEF Before, Going, Shape, TypeOK, ServerTypes
<1> QED BY <1>1, <1>4, <1>5 DEF Alive

\* The caller's patience reaches beyond the next event of the call.
LEMMA NextEventInTime ==
  ASSUME Shape, InTime, Followed(Coming), Continue
  PROVE  \E t \in Int : /\ deadline' - Latency - 1 \in Int /\ t =< deadline' - Latency - 1
                        /\ \/ Going(t)
                           \/ \E e \in Members(Tail(Coming)) : Own(e) /\ e.sentAt =< t
<1>1. /\ queue \in Seq(EventTypes) /\ events \in Seq(EventTypes) /\ queue # <<>>
      /\ Own(Head(queue)) /\ Head(queue).state = "running"
      /\ timeout' = NextTimeout(Head(queue)) /\ deadline' = now + timeout'
  BY TimeTypes DEF Continue
<1>2. PICK h \in EventTypes : h = Head(queue)
  BY <1>1, HeadTailProperties
<1>3. h \in Members(queue) /\ h.own /\ h.state = "running"
  BY <1>1, <1>2, TailMembers DEF Own
<1>4. h.sentAt \in Nat /\ h.goodUntil = h.sentAt + skew + Ttl
  BY <1>3, MemberTimes DEF InTime, Own
<1>5. PICK a \in Nat : a = h.sentAt
  BY <1>4
<1>6. /\ h.sentAt + Cadence \in Int /\ deadline' - Latency - 1 \in Int
      /\ h.sentAt + Cadence =< deadline' - Latency - 1
  <2>1. /\ now \in Int /\ skew \in Int /\ -ReplyMargin =< skew /\ ReplyMargin \in Nat
        /\ Ttl \in Nat /\ Latency \in Nat /\ Cadence \in Nat
        /\ Cadence + Latency + ReplyMargin < Ttl
    BY TimeTypes, LongCallAssumption
  <2>2. PICK d \in Int : d = a + skew + Ttl
    BY <2>1
  <2>3. h.goodUntil = d
    BY <1>4, <1>5, <2>2
  <2>4. NextTimeout(Head(queue)) = d - now
    BY <1>2, <2>3 DEF NextTimeout
  <2>5. deadline' = now + (d - now)
    BY <1>1, <2>4
  <2>6. deadline' = d
    BY <2>1, <2>5
  <2>7. a + Cadence \in Int /\ d - Latency - 1 \in Int /\ a + Cadence =< d - Latency - 1
    BY <2>1, <2>2
  <2> QED BY <1>5, <2>6, <2>7
<1>7. PICK s \in Seq(EventTypes) : s = Coming
  BY <1>1, ConcatProperties DEF Coming
<1>8. s # <<>> /\ Head(s) = h
  BY <1>1, <1>2, <1>7, ConcatTaken DEF Coming
<1>9. /\ DOMAIN s = 1..Len(s) /\ Len(s) \in Nat \ {0} /\ s[1] = h
      /\ DOMAIN Tail(s) = 1..(Len(s) - 1)
      /\ \A i \in 1..(Len(s) - 1) : Tail(s)[i] = s[i + 1]
  BY <1>8, HeadTailProperties, LenProperties, EmptySeq
<1>10. Leads(s, 1) \/ Going(h.sentAt + Cadence)
  <2>1. 1 \in DOMAIN s
    BY <1>9
  <2> QED BY <1>3, <1>7, <1>9, <2>1 DEF Followed, Own
<1>11. ASSUME Leads(s, 1)
       PROVE  \E e \in Members(Tail(s)) : Own(e) /\ e.sentAt =< h.sentAt + Cadence
  <2>1. PICK j \in DOMAIN s : j > 1 /\ Own(s[j]) /\ s[j].sentAt =< h.sentAt + Cadence
    BY <1>9, <1>11 DEF Leads
  <2>2. j - 1 \in DOMAIN Tail(s) /\ (j - 1) + 1 = j
    BY <1>9, <2>1
  <2>3. s[j] = Tail(s)[j - 1]
    BY <1>9, <2>2
  <2>4. s[j] \in Members(Tail(s))
    BY <2>2, <2>3 DEF Members
  <2> QED BY <2>1, <2>4
<1> QED BY <1>6, <1>7, <1>10, <1>11

\* While publications succeed, an accepted call goes on, and its caller waits for it.
LEMMA AliveStep ==
  ASSUME Shape, OneWay, Settled, Silent, InTime, Punctual, Alive, [Next]_vars
  PROVE  Alive'
<1> SUFFICES ASSUME Subscribed', faults' = 0, answer' = "accepted"
             PROVE  Alive'
  BY DEF Alive
<1>1. faults = 0
  BY FaultsStep DEF Shape, TypeOK, CountTypes
<1>2. CASE answer # "accepted"
  <2>1. Accept
    BY <1>2, AcceptStep
  <2>2. Subscribed
    BY <2>1 DEF Accept, callerVars, Subscribed
  <2> QED BY <1>2, <2>1, <2>2, AliveAccepted
<1>3. CASE answer = "accepted"
  <2>1. ~Send
    BY <1>3, LongCallAssumption DEF Send, OneWay
  <2>2. /\ caller' = "asking" => caller = "asking" /\ ~Takes
        /\ caller' = "following" =>
             \/ Accepted /\ ~Takes
             \/ caller = "following" /\ (Continue \/ Skip \/ (UNCHANGED deadline /\ ~Takes))
    BY <2>1, CallerStep DEF CallerMoves
  <2>3. Subscribed
    BY <2>2 DEF Subscribed, Accepted
  <2>4. /\ Followed(Coming)
        /\ caller = "asking" => Before(now)
        /\ caller = "following" => Before(deadline - Latency - 1)
    BY <1>1, <1>3, <2>3 DEF Alive
  <2>5. Followed(Coming)'
    BY <1>3, <2>3, <2>4, FollowedStep
  <2>6. Flows
    BY FlowStep
  <2>7. PICK u \in Seq(EventTypes) : u = Coming'
    BY <2>3, <2>6, ComingStep
  <2>8. /\ now \in Nat /\ now' \in Nat /\ now =< now' /\ progressAt' \in Nat
        /\ deadline \in Int /\ deadline' \in Int /\ Latency \in Nat
    <3>1. Shape'
      BY ShapeStep
    <3>2. progressAt' \in Nat /\ deadline' \in Int
      BY <3>1 DEF Shape, TypeOK, CallerTypes, ServerTypes
    <3> QED BY <3>2, TimeTypes, ClockStep, LongCallAssumption DEF Tick
  <2>9. ASSUME NEW t \in Int, NEW v \in Int, t =< v, Before(t)'
        PROVE  Before(v)'
    <3>1. \A e \in Members(u) : e.sentAt \in Nat
      <4>1. \A i \in DOMAIN u : u[i] \in EventTypes
        BY ElementOfSeq, LenProperties
      <4> QED BY <4>1 DEF Members, EventTypes
    <3>2. CASE \E e \in Members(u) : Own(e) /\ e.sentAt =< t
      <4>1. PICK e \in Members(u) : Own(e) /\ e.sentAt =< t
        BY <3>2
      <4>2. e.sentAt =< v
        BY <2>9, <3>1, <4>1
      <4> QED BY <2>7, <4>1, <4>2 DEF Before, Own
    <3>3. CASE Going(t)'
      <4>1. progressAt' =< t => progressAt' =< v
        BY <2>8, <2>9
      <4>2. now' =< t => now' =< v
        BY <2>8, <2>9
      <4> QED BY <3>3, <4>1, <4>2 DEF Before, Going
    <3> QED BY <2>7, <2>9, <3>2, <3>3 DEF Before, Own
  <2>10. ASSUME caller' = "asking" PROVE Before(now)'
    <3>1. PICK t \in Int : t = now
      BY <2>8
    <3>2. Before(t)'
      BY <1>3, <2>2, <2>3, <2>4, <2>10, <3>1, BeforeStep
    <3>3. PICK v \in Int : v = now'
      BY <2>8
    <3>4. Before(v)'
      BY <2>8, <2>9, <3>1, <3>2, <3>3
    <3> QED BY <3>3, <3>4 DEF Before, Going
  <2>11. ASSUME caller' = "following" PROVE Before(deadline - Latency - 1)'
    <3>0. PICK d \in Int : d = deadline'
      BY <2>8
    <3>1. d - Latency - 1 \in Int
      BY <2>8
    <3>2. PICK v : v = d - Latency - 1
      OBVIOUS
    <3>3. v \in Int /\ v = deadline' - Latency - 1
      BY <3>0, <3>1, <3>2
    <3> SUFFICES Before(v)'
      BY <3>3 DEF Before, Going
    <3>4. CASE Accepted /\ ~Takes
      <4>1. PICK t \in Int : t = now
        BY <2>8
      <4>2. Before(t)'
        BY <1>3, <2>3, <2>4, <3>4, <4>1, BeforeStep DEF Accepted
      <4>3. t =< v
        BY <2>8, <3>3, <3>4, <4>1, LongCallAssumption DEF Accepted
      <4> QED BY <2>9, <3>3, <4>2, <4>3
    <3>5. CASE caller = "following" /\ UNCHANGED deadline /\ ~Takes
      <4>1. Before(v)
        BY <2>4, <3>3, <3>5 DEF Before, Going
      <4> QED BY <1>3, <2>3, <3>3, <3>5, <4>1, BeforeStep
    <3>6. CASE Skip
      <4>1. PICK t \in Int : t = deadline - Latency - 1
        BY <2>8
      <4>2. Before(t) /\ ~Own(Head(queue))
        BY <2>4, <3>6, <4>1 DEF Skip
      <4>3. Before(t)'
        BY <1>3, <2>3, <4>2, BeforeStep
      <4>4. deadline =< d
        BY <3>0, <3>6, TimeTypes DEF Skip, Punctual
      <4>5. v = d - Latency - 1
        BY <3>0, <3>2
      <4>6. t =< v
        BY <2>8, <4>1, <4>4, <4>5
      <4> QED BY <2>9, <3>3, <4>3, <4>6
    <3>7. CASE Continue
      <4>1. PICK t \in Int : /\ t =< deadline' - Latency - 1
                             /\ \/ Going(t)
                                \/ \E e \in Members(Tail(Coming)) : Own(e) /\ e.sentAt =< t
        BY <2>4, <3>7, NextEventInTime
      <4>2. queue \in Seq(EventTypes) /\ events \in Seq(EventTypes) /\ queue # <<>>
            /\ queue' = Tail(queue) /\ events' = events
        BY <3>7, TimeTypes DEF Continue
      <4>3. u = Tail(Coming)
        BY <2>7, <4>2, ConcatTaken DEF Coming
      <4>4. Going(t) => Going(t)'
        BY <3>7 DEF Continue, Going, Ending, clocks, serverVars, contextVars
      <4>5. Before(t)'
        BY <2>7, <4>1, <4>3, <4>4 DEF Before, Own
      <4> QED BY <2>9, <3>3, <4>1, <4>5
    <3> QED BY <2>2, <2>11, <3>4, <3>5, <3>6, <3>7
  <2> QED BY <2>5, <2>10, <2>11 DEF Alive
<1> QED BY <1>2, <1>3

\* Only a wait that is over expires.
LEMMA ExpireStep ==
  ASSUME [Next]_vars
  PROVE  caller' = "expired" => caller = "expired" \/ EventsTimeOut
<1>0. CASE UNCHANGED vars
  BY <1>0 DEF vars, callerVars
<1>1. CASE Deliver
  BY <1>1 DEF Deliver
<1>2. ASSUME NEW state \in Ends \cup {"running"}, Noise(state)
      PROVE  caller' = "expired" => caller = "expired" \/ EventsTimeOut
  BY <1>2 DEF Noise, callerVars
<1>3. CASE Send
  BY <1>3 DEF Send
<1>4. CASE ReplyTimesOut
  BY <1>4 DEF ReplyTimesOut, Leave
<1>5. CASE Accepted
  BY <1>5 DEF Accepted
<1>6. CASE Refused
  BY <1>6 DEF Refused, Leave
<1>7. CASE ReplyLost
  BY <1>7 DEF ReplyLost, callerVars
<1>8. CASE Skip
  BY <1>8 DEF Skip
<1>9. CASE Continue
  BY <1>9 DEF Continue
<1>10. CASE Resolve
  BY <1>10 DEF Resolve, Leave
<1>11. CASE EventsTimeOut
  BY <1>11
<1>12. CASE CallerCanceled
  BY <1>12 DEF CallerCanceled, Leave
<1>13. CASE RequestLost
  BY <1>13 DEF RequestLost, callerVars
<1>14. CASE ArriveTooLate
  BY <1>14 DEF ArriveTooLate, callerVars
<1>15. CASE StartHandler
  BY <1>15 DEF StartHandler, callerVars
<1>16. CASE Accept
  BY <1>16 DEF Accept, callerVars
<1>17. CASE Reject
  BY <1>17 DEF Reject, callerVars
<1>18. CASE SendReply
  BY <1>18 DEF SendReply, callerVars
<1>19. CASE HandlerExits
  BY <1>19 DEF HandlerExits, callerVars
<1>20. CASE Progress
  BY <1>20 DEF Progress, callerVars
<1>21. CASE ProgressFails
  BY <1>21 DEF ProgressFails, callerVars
<1>22. ASSUME NEW p \in Publishers, NEW state \in Ends, BeginEnd(p, state)
       PROVE  caller' = "expired" => caller = "expired" \/ EventsTimeOut
  BY <1>22 DEF BeginEnd, callerVars
<1>23. ASSUME NEW p \in Publishers, EndPublished(p)
       PROVE  caller' = "expired" => caller = "expired" \/ EventsTimeOut
  BY <1>23 DEF EndPublished, callerVars
<1>24. ASSUME NEW p \in Publishers, NEW delivered \in BOOLEAN, EndFails(p, delivered)
       PROVE  caller' = "expired" => caller = "expired" \/ EventsTimeOut
  BY <1>24 DEF EndFails, callerVars
<1>25. ASSUME NEW delivered \in BOOLEAN, HandlerCanceled(delivered)
       PROVE  caller' = "expired" => caller = "expired" \/ EventsTimeOut
  BY <1>25 DEF HandlerCanceled, callerVars
<1>26. CASE Tick
  BY <1>26 DEF Tick, callerVars
<1> QED
  BY <1>0, <1>1, <1>2, <1>3, <1>4, <1>5, <1>6, <1>7, <1>8, <1>9, <1>10, <1>11, <1>12,
     <1>13, <1>14, <1>15, <1>16, <1>17, <1>18, <1>19, <1>20, <1>21, <1>22, <1>23, <1>24,
     <1>25, <1>26 DEF Next

\* No wait ends while the call goes on.
LEMMA NoFalseAlarmStep ==
  ASSUME Shape, Settled, InTime, Punctual, Alive, NoFalseAlarm, [Next]_vars
  PROVE  NoFalseAlarm'
<1> SUFFICES ASSUME caller' = "expired", faults' = 0 PROVE FALSE
  BY FaultsStep DEF NoFalseAlarm, Shape, TypeOK, CountTypes
<1>1. faults = 0
  BY FaultsStep DEF Shape, TypeOK, CountTypes
<1>2. EventsTimeOut
  BY <1>1, ExpireStep DEF NoFalseAlarm, Shape, TypeOK, CountTypes
<1>3. caller = "following" /\ queue = <<>> /\ now >= deadline /\ answer = "accepted"
  BY <1>2 DEF EventsTimeOut, Settled
<1>4. Before(deadline - Latency - 1)
  BY <1>1, <1>3 DEF Alive, Subscribed
<1>5. now \in Nat /\ deadline \in Int /\ Latency \in Nat /\ progressAt \in Nat
  BY TimeTypes, LongCallAssumption
<1>6. CASE \E e \in Members(Coming) : Own(e) /\ e.sentAt =< deadline - Latency - 1
  <2>1. PICK e \in Members(Coming) : Own(e) /\ e.sentAt =< deadline - Latency - 1
    BY <1>6
  <2>2. e \in Members(events)
    BY <1>3, <2>1, TimeTypes, ConcatMembers, EmptyMembers DEF Coming
  <2>3. e.sentAt \in Nat /\ now =< e.sentAt + Latency
    BY <2>2, MemberTimes DEF InTime
  <2> QED BY <1>3, <1>5, <2>1, <2>3
<1>7. CASE Going(deadline - Latency - 1)
  BY <1>3, <1>5, <1>7 DEF Going, Punctual
<1> QED BY <1>4, <1>6, <1>7 DEF Before

-----------------------------------------------------------------------------
(* The end of a handler, and of the wait for it.                           *)

\* What all steps about it may use.
LEMMA DoneTypes ==
  ASSUME Shape
  PROVE  /\ doneAt \in Nat \cup {None} /\ followedAt \in Nat \cup {None} /\ None \notin Nat
         /\ now \in Nat /\ sentAt \in Nat /\ deadline \in Int /\ noise \in Nat
  BY LongCallAssumption DEF Shape, TypeOK, CallerTypes, CountTypes

\* No step ends a handler before it is started, or twice.
LEMMA DatesStep ==
  ASSUME Shape, OneWay, Dates, [Next]_vars
  PROVE  Dates' /\ Lived =< Lived'
<1>0. CASE UNCHANGED vars
  BY <1>0, DoneTypes DEF Dates, OneWay, Lived, vars, clocks, callerVars, serverVars, history
<1>1. CASE Deliver
  BY <1>1, DoneTypes DEF Dates, OneWay, Lived, Deliver, clocks, serverVars, history
<1>2. ASSUME NEW state \in Ends \cup {"running"}, Noise(state)
      PROVE  Dates' /\ Lived =< Lived'
  BY <1>2, DoneTypes
     DEF Dates, OneWay, Lived, Noise, clocks, callerVars, serverVars, history
<1>3. CASE Send
  BY <1>3, DoneTypes DEF Dates, OneWay, Lived, Send, clocks, serverVars, history
<1>4. CASE ReplyTimesOut
  BY <1>4, DoneTypes
     DEF Dates, Lived, Subscribed, Outcomes, ReplyTimesOut, clocks, serverVars, Leave
<1>5. CASE Accepted
  BY <1>5, DoneTypes DEF Dates, OneWay, Lived, Accepted, clocks, serverVars
<1>6. CASE Refused
  BY <1>6, DoneTypes
     DEF Dates, Lived, Subscribed, Outcomes, Refused, clocks, serverVars, Leave
<1>7. CASE ReplyLost
  BY <1>7, DoneTypes
     DEF Dates, OneWay, Lived, ReplyLost, clocks, callerVars, serverVars, history
<1>8. CASE Skip
  BY <1>8, DoneTypes DEF Dates, OneWay, Lived, Skip, clocks, serverVars, history
<1>9. CASE Continue
  BY <1>9, DoneTypes DEF Dates, OneWay, Lived, Continue, clocks, serverVars
<1>10. CASE Resolve
  BY <1>10, DoneTypes
     DEF Dates, Lived, Subscribed, Outcomes, Resolve, clocks, serverVars, Leave
<1>11. CASE EventsTimeOut
  BY <1>11, DoneTypes
     DEF Dates, Lived, Subscribed, Outcomes, EventsTimeOut, clocks, serverVars, Leave
<1>12. CASE CallerCanceled
  BY <1>12, DoneTypes
     DEF Dates, Lived, Subscribed, Outcomes, CallerCanceled, clocks, serverVars, Leave
<1>13. CASE RequestLost
  BY <1>13, DoneTypes
     DEF Dates, OneWay, Lived, RequestLost, clocks, callerVars, serverVars, history
<1>14. CASE ArriveTooLate
  BY <1>14, DoneTypes
     DEF Dates, OneWay, Lived, ArriveTooLate, clocks, callerVars, serverVars, history
<1>15. CASE StartHandler
  BY <1>15, DoneTypes DEF Dates, OneWay, Lived, StartHandler, clocks, callerVars
<1>16. CASE Accept
  BY <1>16, DoneTypes DEF Dates, OneWay, Lived, Accept, clocks, callerVars, history
<1>17. CASE Reject
  BY <1>17, DoneTypes DEF Dates, OneWay, Lived, Reject, clocks, callerVars
<1>18. CASE SendReply
  BY <1>18, DoneTypes DEF Dates, OneWay, Lived, SendReply, clocks, callerVars, history
<1>19. CASE HandlerExits
  BY <1>19, DoneTypes DEF Dates, OneWay, Lived, HandlerExits, clocks, callerVars, Exit
<1>20. CASE Progress
  BY <1>20, DoneTypes DEF Dates, OneWay, Lived, Progress, clocks, callerVars, history
<1>21. CASE ProgressFails
  BY <1>21, DoneTypes DEF Dates, OneWay, Lived, ProgressFails, clocks, callerVars, Exit
<1>22. ASSUME NEW p \in Publishers, NEW state \in Ends, BeginEnd(p, state)
       PROVE  Dates' /\ Lived =< Lived'
  <2>1. UNCHANGED <<now, caller, sentAt, doneAt>>
    BY <1>22 DEF BeginEnd, clocks, callerVars, history
  <2>2. \/ handler' = handler
        \/ handler = "working" /\ handler' = "ending"
    BY <1>22 DEF BeginEnd, Publishers
  <2> QED
    BY <2>1, <2>2, DoneTypes DEF Dates, Lived
<1>23. ASSUME NEW p \in Publishers, EndPublished(p) PROVE Dates' /\ Lived =< Lived'
  BY <1>23, DoneTypes, PublishingType
     DEF Dates, OneWay, Lived, Emit, EndPublished, clocks, callerVars
<1>24. ASSUME NEW p \in Publishers, NEW delivered \in BOOLEAN, EndFails(p, delivered)
       PROVE  Dates' /\ Lived =< Lived'
  BY <1>24, DoneTypes, PublishingType
     DEF Dates, OneWay, Lived, Emit, EndFails, clocks, callerVars, Exit
<1>25. ASSUME NEW delivered \in BOOLEAN, HandlerCanceled(delivered)
       PROVE  Dates' /\ Lived =< Lived'
  BY <1>25, DoneTypes
     DEF Dates, OneWay, Lived, Emit, HandlerCanceled, clocks, callerVars, Exit
<1>26. CASE Tick
  BY <1>26, DoneTypes DEF Dates, OneWay, Lived, Tick, callerVars, serverVars, history
<1> QED
  BY <1>0, <1>1, <1>2, <1>3, <1>4, <1>5, <1>6, <1>7, <1>8, <1>9, <1>10, <1>11, <1>12,
     <1>13, <1>14, <1>15, <1>16, <1>17, <1>18, <1>19, <1>20, <1>21, <1>22, <1>23, <1>24,
     <1>25, <1>26 DEF Next

\* Noise is counted.
LEMMA NoiseStep ==
  ASSUME Shape, [Next]_vars
  PROVE  noise' = 0 => noise = 0
<1>0. CASE UNCHANGED vars
  BY <1>0 DEF vars, bounds
<1>1. CASE Deliver
  BY <1>1, DoneTypes DEF Deliver, bounds
<1>2. ASSUME NEW state \in Ends \cup {"running"}, Noise(state) PROVE noise' = 0 => noise = 0
  BY <1>2, DoneTypes DEF Noise
<1>3. CASE Send
  BY <1>3, DoneTypes DEF Send, bounds
<1>4. CASE ReplyTimesOut
  BY <1>4, DoneTypes DEF ReplyTimesOut, bounds
<1>5. CASE Accepted
  BY <1>5, DoneTypes DEF Accepted, bounds
<1>6. CASE Refused
  BY <1>6, DoneTypes DEF Refused, bounds
<1>7. CASE ReplyLost
  BY <1>7, DoneTypes DEF ReplyLost, bounds
<1>8. CASE Skip
  BY <1>8, DoneTypes DEF Skip, bounds
<1>9. CASE Continue
  BY <1>9, DoneTypes DEF Continue, bounds
<1>10. CASE Resolve
  BY <1>10, DoneTypes DEF Resolve, bounds
<1>11. CASE EventsTimeOut
  BY <1>11, DoneTypes DEF EventsTimeOut, bounds
<1>12. CASE CallerCanceled
  BY <1>12, DoneTypes DEF CallerCanceled, bounds
<1>13. CASE RequestLost
  BY <1>13, DoneTypes DEF RequestLost, bounds
<1>14. CASE ArriveTooLate
  BY <1>14, DoneTypes DEF ArriveTooLate, bounds
<1>15. CASE StartHandler
  BY <1>15, DoneTypes DEF StartHandler, bounds
<1>16. CASE Accept
  BY <1>16, DoneTypes DEF Accept, bounds
<1>17. CASE Reject
  BY <1>17, DoneTypes DEF Reject, bounds
<1>18. CASE SendReply
  BY <1>18, DoneTypes DEF SendReply, bounds
<1>19. CASE HandlerExits
  BY <1>19, DoneTypes DEF HandlerExits, bounds
<1>20. CASE Progress
  BY <1>20, DoneTypes DEF Progress, bounds
<1>21. CASE ProgressFails
  BY <1>21, DoneTypes DEF ProgressFails
<1>22. ASSUME NEW p \in Publishers, NEW state \in Ends, BeginEnd(p, state)
       PROVE  noise' = 0 => noise = 0
  BY <1>22, DoneTypes DEF BeginEnd, bounds
<1>23. ASSUME NEW p \in Publishers, EndPublished(p) PROVE noise' = 0 => noise = 0
  BY <1>23, DoneTypes DEF EndPublished, bounds
<1>24. ASSUME NEW p \in Publishers, NEW delivered \in BOOLEAN, EndFails(p, delivered)
       PROVE  noise' = 0 => noise = 0
  BY <1>24, DoneTypes DEF EndFails
<1>25. ASSUME NEW delivered \in BOOLEAN, HandlerCanceled(delivered)
       PROVE  noise' = 0 => noise = 0
  BY <1>25, DoneTypes DEF HandlerCanceled
<1>26. CASE Tick
  BY <1>26, DoneTypes DEF Tick, bounds
<1> QED
  BY <1>0, <1>1, <1>2, <1>3, <1>4, <1>5, <1>6, <1>7, <1>8, <1>9, <1>10, <1>11, <1>12,
     <1>13, <1>14, <1>15, <1>16, <1>17, <1>18, <1>19, <1>20, <1>21, <1>22, <1>23, <1>24,
     <1>25, <1>26 DEF Next

\* Every progress event is published by a handler that lives.
LEMMA MarkedStep ==
  ASSUME Shape, OneWay, Settled, Dates, Marked, [Next]_vars
  PROVE  Marked'
<1>0. Flows /\ Lived =< Lived' /\ (noise' = 0 => noise = 0)
  BY FlowStep, DatesStep, NoiseStep
<1>1. now \in Nat /\ Lived \in Nat /\ Lived' \in Nat
  <2>1. Shape'
    BY ShapeStep
  <2>2. now' \in Nat /\ doneAt' \in Nat \cup {None}
    BY <2>1 DEF Shape, TypeOK, CallerTypes, CountTypes
  <2> QED BY <2>2, DoneTypes DEF Lived
<1>2. ASSUME NEW own \in BOOLEAN, NEW state \in Ends \cup {"running"}, Grows(own, state),
             NEW e, e = CallEvent(own, state)
      PROVE  /\ e.own /\ e.state = "running" => e.sentAt =< Lived'
             /\ noise' = 0 => e.own
  <2>1. e.own = own /\ e.state = state /\ e.sentAt = now
    BY <1>2, FreshTimes
  <2>2. noise' = 0 => own
    BY <1>2, DoneTypes DEF Grows
  <2>3. ASSUME own, state = "running" PROVE now =< Lived'
    <3>1. Progress
      BY <1>2, <2>3 DEF Grows
    <3>2. Lived = now
      BY <3>1 DEF Progress, Dates, Lived
    <3> QED BY <1>0, <3>2
  <2> QED BY <2>1, <2>2, <2>3
<1>3. ASSUME NEW e \in Members(queue) \cup Members(events)
      PROVE  /\ e.own /\ e.state = "running" => e.sentAt =< Lived'
             /\ noise' = 0 => e.own
  <2>1. e.sentAt \in Nat
    BY <1>3, MemberTimes
  <2>2. e.own /\ e.state = "running" => e.sentAt =< Lived
    BY <1>3 DEF Marked, Own
  <2>3. e.own /\ e.state = "running" => e.sentAt =< Lived'
    BY <1>0, <1>1, <2>1, <2>2
  <2>4. noise' = 0 => e.own
    BY <1>0, <1>3 DEF Marked, Own
  <2> QED BY <2>3, <2>4
<1>4. ASSUME NEW e \in Members(queue') \cup Members(events')
      PROVE  /\ e.own /\ e.state = "running" => e.sentAt =< Lived'
             /\ noise' = 0 => e.own
  BY <1>0, <1>2, <1>3, <1>4, MembersStep
<1> QED BY <1>4 DEF Marked, Own

\* A step that leaves the wait alone.
Remains == UNCHANGED <<now, caller, sentAt, deadline, queue, followedAt>>

\* What a caller that waits may do, or see.
Waits == Accepted \/ Continue \/ Skip \/ Tick \/ Deliver \/ Remains

\* A caller that waits does or sees nothing else.
LEMMA WaitStep ==
  ASSUME [Next]_vars
  PROVE  caller' = "following" => Waits
<1>0. CASE UNCHANGED vars
  BY <1>0 DEF Waits, Remains, vars, clocks, callerVars, history
<1>1. CASE Deliver
  BY <1>1 DEF Waits
<1>2. ASSUME NEW state \in Ends \cup {"running"}, Noise(state)
      PROVE  caller' = "following" => Waits
  BY <1>2 DEF Waits, Remains, Noise, clocks, callerVars, history
<1>3. CASE Send
  BY <1>3 DEF Waits, Remains, Send, clocks, history
<1>4. CASE ReplyTimesOut
  BY <1>4 DEF Subscribed, Outcomes, ReplyTimesOut, Leave
<1>5. CASE Accepted
  BY <1>5 DEF Waits
<1>6. CASE Refused
  BY <1>6 DEF Subscribed, Outcomes, Refused, Leave
<1>7. CASE ReplyLost
  BY <1>7 DEF Waits, Remains, ReplyLost, clocks, callerVars, history
<1>8. CASE Skip
  BY <1>8 DEF Waits
<1>9. CASE Continue
  BY <1>9 DEF Waits
<1>10. CASE Resolve
  BY <1>10 DEF Subscribed, Outcomes, Resolve, Leave
<1>11. CASE EventsTimeOut
  BY <1>11 DEF Subscribed, Outcomes, EventsTimeOut, Leave
<1>12. CASE CallerCanceled
  BY <1>12 DEF Subscribed, Outcomes, CallerCanceled, Leave
<1>13. CASE RequestLost
  BY <1>13 DEF Waits, Remains, RequestLost, clocks, callerVars, history
<1>14. CASE ArriveTooLate
  BY <1>14 DEF Waits, Remains, ArriveTooLate, clocks, callerVars, history
<1>15. CASE StartHandler
  BY <1>15 DEF Waits, Remains, StartHandler, clocks, callerVars
<1>16. CASE Accept
  BY <1>16 DEF Waits, Remains, Accept, clocks, callerVars, history
<1>17. CASE Reject
  BY <1>17 DEF Waits, Remains, Reject, clocks, callerVars
<1>18. CASE SendReply
  BY <1>18 DEF Waits, Remains, SendReply, clocks, callerVars, history
<1>19. CASE HandlerExits
  BY <1>19 DEF Waits, Remains, HandlerExits, clocks, callerVars
<1>20. CASE Progress
  BY <1>20 DEF Waits, Remains, Progress, clocks, callerVars, history
<1>21. CASE ProgressFails
  BY <1>21 DEF Waits, Remains, ProgressFails, clocks, callerVars
<1>22. ASSUME NEW p \in Publishers, NEW state \in Ends, BeginEnd(p, state)
       PROVE  caller' = "following" => Waits
  BY <1>22 DEF Waits, Remains, BeginEnd, clocks, callerVars, history
<1>23. ASSUME NEW p \in Publishers, EndPublished(p) PROVE caller' = "following" => Waits
  BY <1>23 DEF Waits, Remains, EndPublished, clocks, callerVars
<1>24. ASSUME NEW p \in Publishers, NEW delivered \in BOOLEAN, EndFails(p, delivered)
       PROVE  caller' = "following" => Waits
  BY <1>24 DEF Waits, Remains, EndFails, clocks, callerVars
<1>25. ASSUME NEW delivered \in BOOLEAN, HandlerCanceled(delivered)
       PROVE  caller' = "following" => Waits
  BY <1>25 DEF Waits, Remains, HandlerCanceled, clocks, callerVars
<1>26. CASE Tick
  BY <1>26 DEF Waits
<1> QED
  BY <1>0, <1>1, <1>2, <1>3, <1>4, <1>5, <1>6, <1>7, <1>8, <1>9, <1>10, <1>11, <1>12,
     <1>13, <1>14, <1>15, <1>16, <1>17, <1>18, <1>19, <1>20, <1>21, <1>22, <1>23, <1>24,
     <1>25, <1>26 DEF Next

\* Every wait stays within its bounds.
LEMMA BoundedStep ==
  ASSUME Shape, OneWay, Settled, InTime, Punctual, Dates, Marked, Bounded, [Next]_vars
  PROVE  Bounded'
<1> SUFFICES ASSUME caller' = "following" PROVE Bounded'
  BY DEF Bounded
<1>0. /\ now \in Nat /\ sentAt \in Nat
      /\ deadline \in Int /\ timeout \in Int /\ skew \in Int
      /\ -ReplyMargin =< skew /\ skew =< ReplyMargin
      /\ ReplyMargin \in Nat /\ ReplyTimeout \in Nat /\ FirstEventTimeout \in Nat
      /\ Ttl \in Nat /\ Latency \in Nat /\ Cadence \in Nat
      /\ Cadence + Latency + ReplyMargin < Ttl
      /\ None \notin Nat /\ followedAt \in Nat \cup {None}
  BY TimeTypes, DoneTypes, LongCallAssumption
<1>1. queue \in Seq(EventTypes) /\ events \in Seq(EventTypes)
  BY TimeTypes
<1>2. Lived =< Lived' /\ (noise' = 0 => noise = 0)
  BY DatesStep, NoiseStep
<1>3. Lived \in Nat /\ Lived' \in Nat /\ now' \in Nat
  <2>1. Shape'
    BY ShapeStep
  <2>2. now' \in Nat /\ doneAt' \in Nat \cup {None}
    BY <2>1 DEF Shape, TypeOK, CallerTypes, CountTypes
  <2> QED BY <2>2, DoneTypes DEF Lived
<1>4. PICK l \in Nat, m \in Nat : l = Lived /\ m = Lived'
  BY <1>3
<1>5. l =< m
  BY <1>2, <1>4
<1>6. CASE Accepted
  <2>1. /\ UNCHANGED <<now, sentAt, queue>> /\ caller = "asking"
        /\ followedAt' = now /\ deadline' = now + FirstEventTimeout
    BY <1>6 DEF Accepted, clocks
  <2>2. now' =< sentAt' + ReplyTimeout
    BY <2>1 DEF Punctual
  <2> QED BY <1>0, <2>1, <2>2 DEF Bounded
<1>7. CASE Continue
  <2>1. /\ UNCHANGED <<now, sentAt>> /\ caller = "following" /\ followedAt' = None
        /\ queue # <<>> /\ queue' = Tail(queue)
        /\ Head(queue).own /\ Head(queue).state = "running"
        /\ timeout' = NextTimeout(Head(queue)) /\ deadline' = now + timeout'
    BY <1>7 DEF Continue, clocks, Own
  <2>2. PICK h \in EventTypes : h = Head(queue)
    BY <1>1, <2>1, HeadTailProperties
  <2>3. Members(queue) = {h} \cup Members(queue')
    BY <1>1, <2>1, <2>2, TailMembers
  <2>4. /\ h.sentAt \in Nat /\ h.goodUntil = h.sentAt + skew + Ttl
        /\ h.sentAt =< Lived
        /\ now =< sentAt + ReplyTimeout \/ now =< h.sentAt + Latency
    BY <2>1, <2>2, <2>3, MemberTimes DEF InTime, Marked, Bounded, Own
  <2>5. PICK a \in Nat : a = h.sentAt
    BY <2>4
  <2>6. PICK d \in Int : d = a + skew + Ttl
    BY <1>0
  <2>7. deadline' = d
    <3>1. h.goodUntil = d
      BY <2>4, <2>5, <2>6
    <3>2. NextTimeout(Head(queue)) = d - now
      BY <2>2, <3>1 DEF NextTimeout
    <3>3. deadline' = now + (d - now)
      BY <2>1, <3>2
    <3> QED BY <1>0, <3>3
  <2>8. /\ now =< sentAt + ReplyTimeout \/ now =< d
        /\ d =< m + Ttl + ReplyMargin
    <3>1. a =< m
      BY <1>4, <1>5, <2>4, <2>5
    <3>2. a + Latency =< d
      BY <1>0, <2>6
    <3>3. now =< sentAt + ReplyTimeout \/ now =< a + Latency
      BY <2>4, <2>5
    <3>4. now =< a + Latency => now =< d
      BY <1>0, <3>2
    <3> QED BY <1>0, <2>6, <3>1, <3>3, <3>4
  <2>9. now =< sentAt + ReplyTimeout \/ \A e \in Members(queue') : now =< e.sentAt + Latency
    BY <2>1, <2>3 DEF Bounded
  <2> QED BY <1>4, <2>1, <2>7, <2>8, <2>9 DEF Bounded
<1>8. CASE Skip
  <2>1. /\ UNCHANGED <<now, caller, sentAt, followedAt>> /\ caller = "following"
        /\ queue # <<>> /\ queue' = Tail(queue)
        /\ ~Head(queue).own /\ deadline' = now + timeout
    BY <1>8 DEF Skip, clocks, history, Own
  <2>2. Members(queue) = {Head(queue)} \cup Members(queue')
    BY <1>1, <2>1, TailMembers
  <2>3. noise # 0 /\ noise' # 0
    BY <1>2, <2>1, <2>2 DEF Marked, Own
  <2>4. now =< deadline => now =< deadline'
    BY <1>0, <2>1 DEF Punctual
  <2> QED BY <2>1, <2>2, <2>3, <2>4 DEF Bounded
<1>9. CASE Tick
  <2>1. /\ UNCHANGED <<caller, sentAt, deadline, queue, followedAt>> /\ now' = now + 1
        /\ queue = <<>> /\ ~(now >= deadline)
    BY <1>9 DEF Tick, Due, callerVars, history
  <2>2. now' =< deadline'
    BY <1>0, <2>1
  <2>3. Members(queue') = {}
    BY <2>1, EmptyMembers
  <2>4. deadline =< l + Ttl + ReplyMargin => deadline =< m + Ttl + ReplyMargin
    BY <1>0, <1>5
  <2> QED BY <1>2, <1>4, <2>1, <2>2, <2>3, <2>4 DEF Bounded
<1>10. CASE Deliver
  <2>1. /\ UNCHANGED <<now, caller, sentAt, deadline, followedAt>> /\ events # <<>>
        /\ queue' = Append(queue, Head(events))
    BY <1>10 DEF Deliver, clocks, history, Subscribed
  <2>2. /\ Head(events) \in Members(events)
        /\ Members(queue') = Members(queue) \cup {Head(events)}
    BY <1>1, <2>1, TailMembers, AppendMembers, HeadTailProperties
  <2>3. now =< Head(events).sentAt + Latency
    BY <2>2 DEF InTime
  <2>4. deadline =< l + Ttl + ReplyMargin => deadline =< m + Ttl + ReplyMargin
    BY <1>0, <1>5
  <2> QED BY <1>2, <1>4, <2>1, <2>2, <2>3, <2>4 DEF Bounded
<1>11. CASE Remains
  <2>1. deadline =< l + Ttl + ReplyMargin => deadline =< m + Ttl + ReplyMargin
    BY <1>0, <1>5
  <2> QED BY <1>2, <1>4, <1>11, <2>1 DEF Bounded, Remains
<1> QED BY <1>6, <1>7, <1>8, <1>9, <1>10, <1>11, WaitStep DEF Waits

-----------------------------------------------------------------------------
(* The theorems.                                                           *)

\* The inductive invariant behind the deadlines of a call: what is due is done
\* in time, a call goes on until it ends, and its caller's wait is bounded.
THEOREM TimingInvariant == Spec => []TimingInv
<1>1. Init => TimingInv
  <2> SUFFICES ASSUME Init PROVE TimingInv
    OBVIOUS
  <2>1. Members(queue) = {} /\ Members(events) = {} /\ Sorted(events)
    BY EmptyMembers DEF Init
  <2>2. Settled /\ Silent /\ InTime /\ Punctual
    BY <2>1, LongCallAssumption
       DEF Init, Settled, Silent, InTime, Punctual, Publishers
  <2>3. Alive /\ NoFalseAlarm
    BY DEF Init, Alive, NoFalseAlarm, Subscribed
  <2>4. Dates /\ Marked /\ Bounded
    BY <2>1 DEF Init, Dates, Marked, Bounded
  <2> QED BY <2>2, <2>3, <2>4 DEF TimingInv
<1>2. CallInv /\ TimingInv /\ [Next]_vars => TimingInv'
  <2> SUFFICES ASSUME CallInv, TimingInv, [Next]_vars PROVE TimingInv'
    OBVIOUS
  <2>1. /\ Shape /\ OneWay /\ Settled /\ Silent /\ InTime /\ Punctual /\ Alive
        /\ NoFalseAlarm /\ Dates /\ Marked /\ Bounded
    BY DEF CallInv, TimingInv
  <2>2. Settled' /\ Silent' /\ InTime' /\ Punctual'
    BY <2>1, SettledStep, SilentStep, InTimeStep, PunctualityStep
  <2>3. Alive' /\ NoFalseAlarm'
    BY <2>1, AliveStep, NoFalseAlarmStep
  <2>4. Dates' /\ Marked' /\ Bounded'
    BY <2>1, DatesStep, MarkedStep, BoundedStep
  <2> QED BY <2>2, <2>3, <2>4 DEF TimingInv
<1> QED BY <1>1, <1>2, CallInvariant, PTL DEF Spec

\* A caller does not give up on a call that goes on, for all timeouts, clocks and
\* orders of reply and events (LongCall._await_response_events).
THEOREM NeverGivesUp == Spec => []NoFalseAlarm
<1>1. TimingInv => NoFalseAlarm
  BY DEF TimingInv
<1> QED BY <1>1, TimingInvariant, PTL

\* A caller notices in bounded time that the handler has ended without an end event
\* (CallContext.progress, LongCall._await_response_events).
THEOREM DeadIsNoticed == Spec => []DeadHandlerNoticed
<1>1. CallInv /\ TimingInv => DeadHandlerNoticed
  <2> SUFFICES ASSUME CallInv, TimingInv, caller = "following", doneAt # None, noise = 0
               PROVE  now =< doneAt + LaterOf(Ttl + ReplyMargin,
                                              ReplyTimeout + FirstEventTimeout)
    BY DEF DeadHandlerNoticed
  <2>1. /\ now \in Nat /\ sentAt \in Nat /\ doneAt \in Nat /\ deadline \in Int
        /\ followedAt \in Nat \cup {None} /\ ReplyMargin \in Nat /\ ReplyTimeout \in Nat
        /\ FirstEventTimeout \in Nat /\ Ttl \in Nat
    BY DoneTypes, LongCallAssumption DEF CallInv
  <2>2. sentAt =< doneAt /\ Lived = doneAt
    BY DEF TimingInv, Dates, Lived
  <2>3. now =< sentAt + ReplyTimeout \/ now =< deadline
    BY DEF TimingInv, Bounded
  <2>4. \/ deadline =< doneAt + ReplyTimeout + FirstEventTimeout
        \/ deadline =< doneAt + Ttl + ReplyMargin
    <3>1. CASE followedAt # None
      <4>1. followedAt =< sentAt + ReplyTimeout /\ deadline = followedAt + FirstEventTimeout
        BY <3>1 DEF TimingInv, Bounded
      <4> QED BY <2>1, <2>2, <3>1, <4>1
    <3>2. CASE followedAt = None
      BY <2>2, <3>2 DEF TimingInv, Bounded
    <3> QED BY <3>1, <3>2
  <2> QED BY <2>1, <2>2, <2>3, <2>4 DEF LaterOf
<1> QED BY <1>1, CallInvariant, TimingInvariant, PTL
=============================================================================
