--------------------------- MODULE Messages_proofs ---------------------------
(***************************************************************************)
(* Proofs about the two modules that stand between a message and a RED     *)
(* tool.  First the turn of a message: what no message can bring about on  *)
(* its way, for any number of messages and calls, any set of tools and any *)
(* rules.  Then the confirmation that a turn asks for, for any number of   *)
(* chats, requests, jobs, loops, reloads, restarts and lost enqueues.      *)
(***************************************************************************)
EXTENDS MessageTurn, Confirmation, TLAPS

(* A turn is only begun for a message that has arrived, and one that has   *)
(* not ended has told the admin nothing yet.                               *)
Arrived == \A m \in Message : m <= turn => origin[m] # "none"
Untold ==
    \A m \in Message :
        m > turn \/ (m = turn /\ phase # "free")
        => heard[m] = <<>> /\ excuse[m] = "none"

(* Confirmations and calls belong to messages that have arrived.           *)
Traced ==
    /\ \A c \in pending : origin[c.msg] # "none"
    /\ \A r \in ran : origin[r.msg] # "none"

(* The calls of an answer are those with a result and those still to come. *)
RoundAddsUp ==
    /\ phase \in {"gates", "followup"} => left + results = asked
    /\ phase = "followup" => left = 0

(* No confirmation is pending that would fetch mail for a Gmail message.   *)
NoFetchPending ==
    \A c \in pending : origin[c.msg] = "gmail" => c.tool \notin Gmail

TInv ==
    /\ TurnTypeOK
    /\ Arrived
    /\ Untold
    /\ Traced
    /\ RoundAddsUp
    /\ NoFetchPending
    /\ RedRunsOnlyOnYes
    /\ GmailNeverFetches
    /\ AnsweredOnce
    /\ GmailDroppedOnlyByRule

(* How a turn may end: the admin is told, or not and there is a reason,    *)
(* which for a Gmail message is not its intent.                            *)
Ends ==
    \/ \E notice \in Notices : EndWith(notice)
    \/ \E why \in Excuses \ {"none"} :
          /\ EndSilently(why)
          /\ FromGmail => why \notin {"intent", "fallback"}

USE MessageTurnAssumption DEF Message

-----------------------------------------------------------------------------
(* A turn that ends with a notice is answered, one that ends without it    *)
(* has its reason; in both cases the types and the earlier turns are kept. *)
LEMMA EndsWell ==
    ASSUME TInv, phase # "free", UNCHANGED <<turn, origin>>,
           Ends
    PROVE  /\ phase' = "free"
           /\ heard' \in [Message -> Seq(Notices)]
           /\ excuse' \in [Message -> Excuses]
           /\ \A m \in Message : m > turn' => heard'[m] = <<>> /\ excuse'[m] = "none"
           /\ AnsweredOnce'
           /\ GmailDroppedOnlyByRule'
<1> USE DEF TInv, TurnTypeOK, Untold, AnsweredOnce, GmailDroppedOnlyByRule, Ends
<1>1. turn \in Message /\ heard[turn] = <<>> /\ excuse[turn] = "none"
  OBVIOUS
<1>2. /\ turn' = turn
      /\ DOMAIN heard = Message /\ DOMAIN excuse = Message
      /\ \A m \in Message : m > turn => heard[m] = <<>> /\ excuse[m] = "none"
  OBVIOUS
<1>3. CASE \E notice \in Notices : EndWith(notice)
  <2>1. PICK notice \in Notices : EndWith(notice)
    BY <1>3
  <2>2. /\ phase' = "free"
        /\ excuse' = excuse
        /\ heard' = [heard EXCEPT ![turn] = <<notice>>]
    BY <1>1, <2>1 DEF EndWith, Tell
  <2>3. <<notice>> \in Seq(Notices) /\ Len(<<notice>>) = 1
    OBVIOUS
  <2>4. AnsweredOnce'
    BY <1>1, <2>2, <2>3 DEF Finished
  <2>5. heard' \in [Message -> Seq(Notices)]
    <3>1. heard \in [Message -> Seq(Notices)]
      OBVIOUS
    <3> HIDE DEF TInv
    <3> QED
      BY <2>2, <2>3, <3>1
  <2>6. \A m \in Message : m > turn' => heard'[m] = <<>> /\ excuse'[m] = "none"
    <3> HIDE DEF TInv
    <3> QED
      BY <1>1, <1>2, <2>2
  <2>7. excuse' \in [Message -> Excuses] /\ GmailDroppedOnlyByRule'
    BY <2>2
  <2> QED
    BY <2>2, <2>4, <2>5, <2>6, <2>7
<1>4. CASE \E why \in Excuses \ {"none"} :
              EndSilently(why) /\ (FromGmail => why \notin {"intent", "fallback"})
  <2>1. PICK why \in Excuses \ {"none"} :
                EndSilently(why) /\ (FromGmail => why \notin {"intent", "fallback"})
    BY <1>4
  <2>2. /\ phase' = "free"
        /\ heard' = heard
        /\ excuse' = [excuse EXCEPT ![turn] = why]
    BY <2>1 DEF EndSilently
  <2>3. AnsweredOnce'
    BY <1>1, <2>1, <2>2 DEF Finished
  <2>4. GmailDroppedOnlyByRule'
    BY <1>1, <2>1, <2>2 DEF FromGmail
  <2>5. \A m \in Message : m > turn' => heard'[m] = <<>> /\ excuse'[m] = "none"
    <3> HIDE DEF TInv
    <3> QED
      BY <1>1, <1>2, <2>2
  <2>6. heard' \in [Message -> Seq(Notices)] /\ excuse' \in [Message -> Excuses]
    BY <2>1, <2>2
  <2> QED
    BY <2>2, <2>3, <2>4, <2>5, <2>6
<1> QED
  BY <1>3, <1>4

(* The invariant after a step that ends the turn and makes neither entries *)
(* nor calls.                                                              *)
LEMMA EndKeeps ==
    ASSUME TInv, phase # "free",
           UNCHANGED <<origin, stored, turn, orchestrated, roundVars, pending, ran>>,
           fallback' \in Intents,
           Ends
    PROVE  TInv'
<1>1. /\ phase' = "free"
      /\ heard' \in [Message -> Seq(Notices)]
      /\ excuse' \in [Message -> Excuses]
      /\ \A m \in Message : m > turn' => heard'[m] = <<>> /\ excuse'[m] = "none"
      /\ AnsweredOnce'
      /\ GmailDroppedOnlyByRule'
  BY EndsWell
<1> QED
  BY <1>1 DEF TInv, TurnTypeOK, Arrived, Untold, Traced, RoundAddsUp, NoFetchPending,
              RedRunsOnlyOnYes, GmailNeverFetches, roundVars

(* The ways to end of the actions.                                         *)
LEMMA WaysToEnd ==
    ASSUME \/ \E notice \in Notices : EndWith(notice)
           \/ EndSilently("empty") \/ EndSilently("failed") \/ EndSilently("rule")
           \/ /\ EndSilently("intent") \/ EndSilently("fallback")
              /\ ~FromGmail
    PROVE  Ends
<1>1. /\ {"empty", "failed", "rule"} \subseteq Excuses \ {"none", "intent", "fallback"}
      /\ {"intent", "fallback"} \subseteq Excuses \ {"none"}
  BY DEF Excuses
<1>2. ASSUME NEW why \in {"empty", "failed", "rule"}, EndSilently(why)
      PROVE  Ends
  <2>1. why \in Excuses \ {"none"} /\ why \notin {"intent", "fallback"}
    BY <1>1
  <2> QED
    BY <1>2, <2>1 DEF Ends
<1>3. ASSUME NEW why \in {"intent", "fallback"}, EndSilently(why), ~FromGmail
      PROVE  Ends
  BY <1>1, <1>3 DEF Ends
<1> QED
  BY <1>2, <1>3 DEF Ends

-----------------------------------------------------------------------------
(* The first state: no message has arrived.                                *)
LEMMA InitInvariant == TurnInit => TInv
BY DEF TurnInit, TInv, TurnTypeOK, Arrived, Untold, Traced, RoundAddsUp, NoFetchPending,
       RedRunsOnlyOnYes, GmailNeverFetches, AnsweredOnce, Finished,
       GmailDroppedOnlyByRule, Origins, Intents, Medium, Excuses, Notices

(* One lemma per action that does not end a turn, one step per conjunct.   *)
LEMMA ReceiveKeeps ==
    ASSUME TInv, NEW m \in Message, NEW o \in Origins, Receive(m, o)
    PROVE  TInv'
<1>1. /\ origin[m] = "none"
      /\ origin' = [origin EXCEPT ![m] = o]
      /\ stored' = [stored EXCEPT ![m] = IF o = "admin" THEN 1 ELSE 0]
      /\ UNCHANGED <<turn, phase, orchestrated, fallback, asked, left, results,
                     pending, heard, excuse, ran>>
  BY DEF Receive, roundVars
<1>2. /\ origin \in [Message -> Origins \cup {"none"}]
      /\ turn \in 0..MaxMessages /\ pending \subseteq Calls /\ ran \subseteq Runs
  BY DEF TInv, TurnTypeOK
<1>3. m > turn
  BY <1>1, <1>2 DEF TInv, Arrived
<1>4. TurnTypeOK'
  BY <1>1 DEF TInv, TurnTypeOK
<1>5. Arrived'
  BY <1>1, <1>2 DEF TInv, Arrived, Origins
<1>6. Traced'
  BY <1>1, <1>2 DEF TInv, Traced, Origins, Calls, Runs
<1>7. NoFetchPending' /\ GmailNeverFetches'
  BY <1>1, <1>2 DEF TInv, Traced, NoFetchPending, GmailNeverFetches, Calls, Runs
<1>8. GmailDroppedOnlyByRule'
  BY <1>1, <1>2, <1>3 DEF TInv, Untold, GmailDroppedOnlyByRule
<1>9. Untold' /\ RoundAddsUp' /\ RedRunsOnlyOnYes' /\ AnsweredOnce'
  BY <1>1 DEF TInv, Untold, RoundAddsUp, RedRunsOnlyOnYes, AnsweredOnce, Finished
<1> QED
  BY <1>4, <1>5, <1>6, <1>7, <1>8, <1>9 DEF TInv

(* A turn begins with nothing told, asked or called.                       *)
LEMMA BeginKeeps ==
    ASSUME TInv, BeginTurn
    PROVE  TInv'
<1>1. /\ phase = "free" /\ turn' = turn + 1 /\ turn' \in Message
      /\ phase' \in {"intent", "agents", "asking"}
      /\ origin[turn'] # "none"
      /\ stored' = stored \/ stored' = [stored EXCEPT ![turn'] = @ + 1]
      /\ UNCHANGED <<origin, orchestrated, fallback, asked, left, results,
                     pending, heard, excuse, ran>>
  BY DEF BeginTurn, NextMessage, roundVars
<1>2. turn \in 0..MaxMessages /\ stored \in [Message -> Nat]
  BY DEF TInv, TurnTypeOK
<1>3. stored' \in [Message -> Nat]
  BY <1>1, <1>2
<1>4. TurnTypeOK'
  BY <1>1, <1>3 DEF TInv, TurnTypeOK
<1>5. Arrived'
  BY <1>1, <1>2 DEF TInv, Arrived
<1>6. Untold'
  BY <1>1, <1>2 DEF TInv, Untold
<1>7. AnsweredOnce'
  BY <1>1, <1>2 DEF TInv, AnsweredOnce, Finished
<1>8. /\ Traced' /\ RoundAddsUp' /\ NoFetchPending' /\ RedRunsOnlyOnYes'
      /\ GmailNeverFetches' /\ GmailDroppedOnlyByRule'
  BY <1>1 DEF TInv, Traced, RoundAddsUp, NoFetchPending, RedRunsOnlyOnYes,
              GmailNeverFetches, GmailDroppedOnlyByRule
<1> QED
  BY <1>4, <1>5, <1>6, <1>7, <1>8 DEF TInv

(* A turn may end before it has begun in earnest, with nothing told.       *)
LEMMA TurnRaisesKeeps ==
    ASSUME TInv, TurnRaises
    PROVE  TInv'
<1>1. /\ phase = "free" /\ turn' = turn + 1 /\ turn' \in Message
      /\ origin[turn'] # "none"
      /\ excuse' = [excuse EXCEPT ![turn'] = "failed"]
      /\ stored' = stored \/ stored' = [stored EXCEPT ![turn'] = @ + 1]
      /\ UNCHANGED <<origin, phase, orchestrated, fallback, asked, left, results,
                     pending, heard, ran>>
  BY DEF TurnRaises, NextMessage, roundVars
<1>2. /\ turn \in 0..MaxMessages /\ stored \in [Message -> Nat]
      /\ excuse \in [Message -> Excuses]
  BY DEF TInv, TurnTypeOK
<1>3. heard[turn'] = <<>>
  BY <1>1, <1>2 DEF TInv, Untold
<1>4. stored' \in [Message -> Nat] /\ excuse' \in [Message -> Excuses]
  BY <1>1, <1>2 DEF Excuses
<1>5. TurnTypeOK'
  BY <1>1, <1>4 DEF TInv, TurnTypeOK
<1>6. Arrived'
  BY <1>1, <1>2 DEF TInv, Arrived
<1>7. Untold'
  BY <1>1, <1>2 DEF TInv, Untold
<1>8. AnsweredOnce'
  BY <1>1, <1>2, <1>3 DEF TInv, AnsweredOnce, Finished
<1>9. GmailDroppedOnlyByRule'
  BY <1>1, <1>2 DEF TInv, GmailDroppedOnlyByRule
<1>10. /\ Traced' /\ RoundAddsUp' /\ NoFetchPending' /\ RedRunsOnlyOnYes'
       /\ GmailNeverFetches'
  BY <1>1 DEF TInv, Traced, RoundAddsUp, NoFetchPending, RedRunsOnlyOnYes,
              GmailNeverFetches
<1> QED
  BY <1>5, <1>6, <1>7, <1>8, <1>9, <1>10 DEF TInv

(* A task command ends its turn at once, with one notice.                  *)
LEMMA TaskCommandKeeps ==
    ASSUME TInv, TaskCommand
    PROVE  TInv'
<1>1. /\ phase = "free" /\ turn' = turn + 1 /\ turn' \in Message
      /\ origin[turn'] = "admin"
      /\ heard' = [heard EXCEPT ![turn'] = Append(@, "reply")]
      /\ UNCHANGED <<origin, stored, phase, orchestrated, fallback, asked, left,
                     results, pending, excuse, ran>>
  BY DEF TaskCommand, NextMessage, roundVars
<1>2. /\ turn \in 0..MaxMessages
      /\ heard \in [Message -> Seq(Notices)]
  BY DEF TInv, TurnTypeOK
<1>3. heard[turn'] = <<>> /\ excuse[turn'] = "none"
  BY <1>1, <1>2 DEF TInv, Untold
<1>4. /\ heard' = [heard EXCEPT ![turn'] = <<"reply">>]
      /\ <<"reply">> \in Seq(Notices) /\ Len(<<"reply">>) = 1
  <2>1. Append(<<>>, "reply") = <<"reply">>
    OBVIOUS
  <2>2. heard' = [heard EXCEPT ![turn'] = <<"reply">>]
    BY <1>1, <1>3, <2>1
  <2>3. <<"reply">> \in Seq(Notices) /\ Len(<<"reply">>) = 1
    BY DEF Notices
  <2> QED
    BY <2>2, <2>3
<1>5. heard' \in [Message -> Seq(Notices)]
  BY <1>1, <1>2, <1>4
<1>6. TurnTypeOK'
  BY <1>1, <1>5 DEF TInv, TurnTypeOK
<1>7. Arrived'
  BY <1>1, <1>2 DEF TInv, Arrived
<1>8. Untold'
  BY <1>1, <1>2, <1>4 DEF TInv, Untold
<1>9. AnsweredOnce'
  BY <1>1, <1>2, <1>3, <1>4 DEF TInv, AnsweredOnce, Finished
<1>10. /\ Traced' /\ RoundAddsUp' /\ NoFetchPending' /\ RedRunsOnlyOnYes'
       /\ GmailNeverFetches' /\ GmailDroppedOnlyByRule'
  BY <1>1 DEF TInv, Traced, RoundAddsUp, NoFetchPending, RedRunsOnlyOnYes,
              GmailNeverFetches, GmailDroppedOnlyByRule
<1> QED
  BY <1>6, <1>7, <1>8, <1>9, <1>10 DEF TInv

(* Detection that ends the turn is EndKeeps: Upheld keeps the intent of a  *)
(* Gmail message from doing so, and only a rule is left.                   *)
LEMMA DetectIntentKeeps ==
    ASSUME TInv, DetectIntent
    PROVE  TInv'
<1>1. /\ phase = "intent"
      /\ UNCHANGED <<origin, stored, turn, orchestrated, roundVars, pending, ran>>
  BY DEF DetectIntent
<1>2. Upheld(fallback) \in Intents /\ \A i \in Intents : Upheld(i) \in Intents
  BY DEF TInv, TurnTypeOK, Upheld, Medium, Intents
<1>3. ASSUME NEW found \in Intents, NEW ruled \in Intents, NEW failed \in BOOLEAN,
             Decide(found, failed, ruled)
      PROVE  TInv'
  <2>1. fallback' \in Intents
    BY <1>3 DEF Decide, TInv, TurnTypeOK
  <2>2. CASE ShouldSkip(ruled)
    <3>1. FromGmail => ruled # Upheld(found)
      BY <2>2 DEF Upheld, ShouldSkip, Medium
    <3>2. CASE ruled # Upheld(found)
      <4>1. EndSilently("rule")
        BY <1>3, <2>2, <3>2 DEF Decide
      <4> QED
        BY <1>1, <2>1, <4>1, WaysToEnd, EndKeeps
    <3>3. CASE ruled = Upheld(found)
      <4>1. ~FromGmail /\ (EndSilently("fallback") \/ EndSilently("intent"))
        BY <1>3, <2>2, <3>1, <3>3 DEF Decide
      <4> QED
        BY <1>1, <2>1, <4>1, WaysToEnd, EndKeeps
    <3> QED
      BY <3>2, <3>3
  <2>3. CASE ~ShouldSkip(ruled)
    <3>1. phase' \in {"agents", "asking"} /\ UNCHANGED <<heard, excuse>>
      BY <1>3, <2>3 DEF Decide
    <3>2. TurnTypeOK'
      BY <1>1, <2>1, <3>1 DEF TInv, TurnTypeOK, roundVars
    <3> QED
      BY <1>1, <3>1, <3>2 DEF TInv, Arrived, Untold, Traced, RoundAddsUp,
         NoFetchPending, RedRunsOnlyOnYes, GmailNeverFetches, AnsweredOnce,
         Finished, GmailDroppedOnlyByRule
  <2> QED
    BY <2>2, <2>3
<1>4. ASSUME NEW found \in Intents, NEW failed \in BOOLEAN,
             DropByRule(found, failed)
      PROVE  TInv'
  BY <1>1, <1>2, <1>4, WaysToEnd, EndKeeps DEF DropByRule, TInv, TurnTypeOK
<1>5. fallback \in Intents
  BY DEF TInv, TurnTypeOK
<1> QED
  BY <1>3, <1>4, <1>5 DEF DetectIntent

(* The model's answer opens a round of calls, none of them looked at.      *)
LEMMA AskModelKeeps ==
    ASSUME TInv, AskModel
    PROVE  TInv'
<1>1. CASE /\ EndWith("reply") \/ EndWith("error") \/ EndSilently("empty")
           /\ UNCHANGED roundVars
  <2>1. Ends
    BY <1>1, WaysToEnd DEF Notices
  <2> QED
    BY <1>1, <2>1, EndKeeps DEF AskModel, TInv, TurnTypeOK
<1>2. ASSUME NEW n \in 1..MaxCalls,
             phase' = "gates", asked' = n, left' = n, results' = 0,
             UNCHANGED <<heard, excuse>>
      PROVE  TInv'
  <2>1. /\ phase = "asking"
        /\ UNCHANGED <<origin, stored, turn, orchestrated, fallback, pending, ran>>
    BY DEF AskModel
  <2>2. TurnTypeOK'
    BY <1>2, <2>1 DEF TInv, TurnTypeOK
  <2>3. RoundAddsUp'
    BY <1>2 DEF RoundAddsUp
  <2> QED
    BY <1>2, <2>1, <2>2, <2>3 DEF TInv, Arrived, Untold, Traced,
       NoFetchPending, RedRunsOnlyOnYes, GmailNeverFetches, AnsweredOnce,
       Finished, GmailDroppedOnlyByRule
<1> QED
  BY <1>1, <1>2 DEF AskModel

(* A request for confirmation ends the turn; of a Gmail message none is    *)
(* left behind for a tool that fetches mail.                               *)
LEMMA AsksKeep ==
    ASSUME TInv, NEW t \in Tools, AskByRule(t) \/ AskByRisk(t)
    PROVE  TInv'
<1>1. /\ phase = "gates"
      /\ pending' = pending \cup {[msg |-> turn, tool |-> t]}
      /\ EndSilently("failed") \/ \E notice \in Notices : EndWith(notice)
      /\ origin[turn] = "gmail" => t \notin Gmail
      /\ UNCHANGED <<origin, stored, turn, orchestrated, fallback, roundVars, ran>>
  BY DEF AskByRule, AskByRisk, AtGate, Ask, Notices, ConfirmByRule, ReachesRisk,
         Denied, Guarded, FromGmail
<1>2. turn \in Message /\ origin[turn] # "none"
  BY <1>1 DEF TInv, TurnTypeOK, Arrived
<1>3. /\ phase' = "free"
      /\ heard' \in [Message -> Seq(Notices)]
      /\ excuse' \in [Message -> Excuses]
      /\ \A m \in Message : m > turn' => heard'[m] = <<>> /\ excuse'[m] = "none"
      /\ AnsweredOnce'
      /\ GmailDroppedOnlyByRule'
  BY <1>1, EndsWell, WaysToEnd
<1>4. TurnTypeOK'
  BY <1>1, <1>2, <1>3 DEF TInv, TurnTypeOK, Calls, roundVars
<1>5. NoFetchPending'
  BY <1>1 DEF TInv, NoFetchPending
<1>6. Traced'
  BY <1>1, <1>2 DEF TInv, Traced
<1>7. Arrived' /\ Untold' /\ RoundAddsUp' /\ RedRunsOnlyOnYes' /\ GmailNeverFetches'
  BY <1>1, <1>3 DEF TInv, Arrived, Untold, RoundAddsUp, RedRunsOnlyOnYes,
                    GmailNeverFetches
<1> QED
  BY <1>3, <1>4, <1>5, <1>6, <1>7 DEF TInv

(* A tool that is called on the model's word is not RED and, in the turn   *)
(* of a Gmail message, there is none: its set of allowed tools is empty.   *)
LEMMA CallToolKeeps ==
    ASSUME TInv, NEW t \in Tools, CallTool(t)
    PROVE  TInv'
<1>1. /\ phase = "gates" /\ left > 0
      /\ t \notin Red
      /\ origin[turn] # "gmail"
      /\ ran' = ran \cup {[msg |-> turn, tool |-> t, word |-> "model"]}
      /\ UNCHANGED <<origin, stored, turn, orchestrated, fallback, asked, pending>>
  BY DEF CallTool, CallHandler, AtGate, ReachesRisk, AllowedTools, FromGmail
<1>2. turn \in Message /\ origin[turn] # "none"
  BY <1>1 DEF TInv, TurnTypeOK, Arrived
<1>3. ran' \subseteq Runs
  BY <1>1, <1>2 DEF TInv, TurnTypeOK, Runs
<1>4. RedRunsOnlyOnYes' /\ GmailNeverFetches' /\ Traced'
  BY <1>1, <1>2 DEF TInv, RedRunsOnlyOnYes, GmailNeverFetches, Traced
<1>5. Arrived' /\ NoFetchPending'
  BY <1>1 DEF TInv, Arrived, NoFetchPending
<1>6. CASE /\ EndWith("error") \/ EndSilently("failed")
           /\ UNCHANGED <<left, results>>
  <2>1. /\ phase' = "free"
        /\ heard' \in [Message -> Seq(Notices)]
        /\ excuse' \in [Message -> Excuses]
        /\ \A m \in Message : m > turn' => heard'[m] = <<>> /\ excuse'[m] = "none"
        /\ AnsweredOnce'
        /\ GmailDroppedOnlyByRule'
    BY <1>1, <1>6, EndsWell, WaysToEnd DEF Notices
  <2>2. TurnTypeOK'
    BY <1>1, <1>3, <1>6, <2>1 DEF TInv, TurnTypeOK
  <2>3. Untold' /\ RoundAddsUp'
    BY <2>1 DEF Untold, RoundAddsUp
  <2> QED
    BY <1>4, <1>5, <2>1, <2>2, <2>3 DEF TInv
<1>7. CASE /\ left' = left - 1
           /\ results' = results + 1
           /\ phase' = IF left = 1 THEN "followup" ELSE "gates"
           /\ UNCHANGED <<heard, excuse>>
  <2>1. /\ left \in Nat /\ results \in Nat /\ asked \in 0..MaxCalls
        /\ left + results = asked
    BY <1>1 DEF TInv, TurnTypeOK, RoundAddsUp
  <2>2. left' \in 0..asked' /\ results' \in 0..asked' /\ RoundAddsUp'
    BY <1>1, <1>7, <2>1 DEF RoundAddsUp
  <2>3. TurnTypeOK'
    BY <1>1, <1>2, <1>3, <1>7, <2>2 DEF TInv, TurnTypeOK
  <2>4. Untold' /\ AnsweredOnce' /\ GmailDroppedOnlyByRule'
    BY <1>1, <1>7 DEF TInv, Untold, AnsweredOnce, Finished, GmailDroppedOnlyByRule
  <2> QED
    BY <1>4, <1>5, <2>2, <2>3, <2>4 DEF TInv
<1> QED
  BY <1>6, <1>7 DEF CallTool, CallHandler

(* A confirmed call is made on the admin's word, outside any turn.         *)
LEMMA ConfirmKeeps ==
    ASSUME TInv, NEW c \in Calls, Confirm(c)
    PROVE  TInv'
<1>1. /\ c \in pending
      /\ pending' = pending \ {c}
      /\ ran' \in {ran, ran \cup {[msg |-> c.msg, tool |-> c.tool, word |-> "admin"]}}
      /\ UNCHANGED <<origin, stored, turn, phase, orchestrated, fallback, asked,
                     left, results, heard, excuse>>
  BY DEF Confirm, roundVars
<1>2. /\ c.msg \in Message /\ c.tool \in Tools
      /\ origin[c.msg] # "none"
      /\ origin[c.msg] = "gmail" => c.tool \notin Gmail
  BY <1>1 DEF TInv, Calls, Traced, NoFetchPending
<1>3. ran' \subseteq Runs
  BY <1>1, <1>2 DEF TInv, TurnTypeOK, Runs
<1>4. TurnTypeOK'
  BY <1>1, <1>3 DEF TInv, TurnTypeOK
<1>5. /\ RedRunsOnlyOnYes' /\ GmailNeverFetches' /\ Traced' /\ NoFetchPending'
  BY <1>1, <1>2 DEF TInv, RedRunsOnlyOnYes, GmailNeverFetches, Traced, NoFetchPending
<1> QED
  BY <1>1, <1>4, <1>5 DEF TInv, Arrived, Untold, RoundAddsUp, AnsweredOnce,
                          Finished, GmailDroppedOnlyByRule

-----------------------------------------------------------------------------
(* The invariant holds in every reachable state.                           *)
THEOREM TurnsHold == TurnSpec => []TInv
<1>1. ASSUME TInv, [TurnNext]_mvars
      PROVE  TInv'
  <2>1. CASE \E m \in Message, o \in Origins : Receive(m, o)
    BY <1>1, <2>1, ReceiveKeeps
  <2>2. CASE BeginTurn
    BY <1>1, <2>2, BeginKeeps
  <2>3. CASE TaskCommand
    BY <1>1, <2>3, TaskCommandKeeps
  <2>4. CASE DetectIntent
    BY <1>1, <2>4, DetectIntentKeeps
  <2>5. CASE RunAgents
    <3>1. Ends
      BY <2>5, WaysToEnd DEF RunAgents, Notices
    <3> QED
      BY <1>1, <2>5, <3>1, EndKeeps DEF RunAgents, TInv, TurnTypeOK
  <2>6. CASE AskModel
    BY <1>1, <2>6, AskModelKeeps
  <2>7. CASE \E t \in Tools : Refuse(t)
    <3>1. Ends
      BY <2>7, WaysToEnd DEF Refuse, Notices
    <3> QED
      BY <1>1, <2>7, <3>1, EndKeeps DEF Refuse, AtGate, TInv, TurnTypeOK
  <2>8. CASE \E t \in Tools : AskByRule(t) \/ AskByRisk(t)
    BY <1>1, <2>8, AsksKeep
  <2>9. CASE \E t \in Tools : CallTool(t)
    BY <1>1, <2>9, CallToolKeeps
  <2>10. CASE FollowUp
    <3>1. Ends
      BY <2>10, WaysToEnd DEF FollowUp, Notices
    <3> QED
      BY <1>1, <2>10, <3>1, EndKeeps DEF FollowUp, TInv, TurnTypeOK
  <2>11. CASE \E c \in Calls : Confirm(c)
    BY <1>1, <2>11, ConfirmKeeps
  <2>12. CASE TurnRaises
    BY <1>1, <2>12, TurnRaisesKeeps
  <2>13. CASE JobRaises
    <3>1. Ends
      BY <2>13, WaysToEnd DEF JobRaises
    <3> QED
      BY <1>1, <2>13, <3>1, EndKeeps DEF JobRaises, TInv, TurnTypeOK
  <2>14. CASE UNCHANGED mvars
    BY <1>1, <2>14 DEF mvars, roundVars, TInv, TurnTypeOK, Arrived, Untold, Traced,
       RoundAddsUp, NoFetchPending, RedRunsOnlyOnYes, GmailNeverFetches,
       AnsweredOnce, Finished, GmailDroppedOnlyByRule
  <2> QED
    BY <1>1, <2>1, <2>2, <2>3, <2>4, <2>5, <2>6, <2>7, <2>8, <2>9, <2>10, <2>11,
       <2>12, <2>13, <2>14 DEF TurnNext
<1> QED
  BY <1>1, InitInvariant, PTL DEF TurnSpec

(* A RED tool is called only for a request that an admin confirmed.        *)
THEOREM RedNeedsYes == TurnSpec => []RedRunsOnlyOnYes
BY TurnsHold, PTL DEF TInv

(* Nothing a Gmail message leads to fetches mail, confirmed or not.        *)
THEOREM GmailIsNotFetched == TurnSpec => []GmailNeverFetches
BY TurnsHold, PTL DEF TInv

(* A finished turn told the admin exactly one thing, or nothing because of *)
(* the intent, a rule, an empty answer or an exception outside any try.    *)
THEOREM TurnsAreAnswered == TurnSpec => []AnsweredOnce
BY TurnsHold, PTL DEF TInv

(* A Gmail message is never passed over because of an intent.              *)
THEOREM GmailIsNotDropped == TurnSpec => []GmailDroppedOnlyByRule
BY TurnsHold, PTL DEF TInv

(* The model goes on only with a result for each of its calls.             *)
THEOREM FollowUpsAreComplete == TurnSpec => []FollowUpComplete
<1>1. TInv => FollowUpComplete
  BY DEF TInv, TurnTypeOK, RoundAddsUp, FollowUpComplete
<1> QED
  BY <1>1, TurnsHold, PTL

(* The variables keep their types.                                         *)
THEOREM TurnTypes == TurnSpec => []TurnTypeOK
BY TurnsHold, PTL DEF TInv

-----------------------------------------------------------------------------
(* Confirmations.  CInv is the inductive invariant: a request moves from   *)
(* the engine to `accepting` to one job, and carries its admin's YES with  *)
(* it from the moment it leaves the engine.                                *)

Approved(r) ==
    /\ yes[r] # None
    /\ yes[r] = chatOf[r] \/ (yes[r] = "token" /\ prompt[r] = "buttons")

(* Nothing is known of a request before it is made.                        *)
Unborn ==
    \A r \in Request : chatOf[r] = None =>
        /\ home[r] = NoEngine
        /\ r \notin accepting
        /\ \A j \in Job : carries[j] # r
        /\ prompt[r] = "none"
        /\ yes[r] = None

(* A job carries a request from its submission on, and a loop has a job    *)
(* that was submitted.                                                     *)
JobsCarry ==
    /\ \A j \in Job : job[j] = "absent" <=> carries[j] = NoRequest
    /\ \A w \in Worker : busy[w] # None => carries[busy[w]] # NoRequest

(* What left the engine was approved, what is in it was not, and only what *)
(* a job carries was called.                                               *)
MovedIsApproved ==
    \A r \in Request :
        /\ home[r] # NoEngine => yes[r] = None
        /\ r \in accepting => Approved(r)
        /\ \A j \in Job : carries[j] = r => Approved(r)
        /\ calls[r] > 0 => \E j \in Job : carries[j] = r

EngineCounts == engine = 1 + reloads + restarts

CInv ==
    /\ ConfirmationTypeOK
    /\ EngineCounts
    /\ Unborn
    /\ JobsCarry
    /\ SingleUse
    /\ MovedIsApproved
    /\ ApprovalNotLost

-----------------------------------------------------------------------------
(* Nothing has been requested yet.                                         *)
LEMMA InitInv == ConfirmationInit => CInv
  BY ConfirmationAssumption
  DEF ConfirmationInit, ServiceInit, CInv, ConfirmationTypeOK, EngineCounts,
      Unborn, JobsCarry, SingleUse, MovedIsApproved, ApprovalNotLost, CarriedBy,
      Request, NoRequest, Engine, NoEngine

(* Types, and how the engines are counted, one action at a time.           *)
LEMMA TypeStep == CInv /\ [ConfirmationNext]_cvars => ConfirmationTypeOK' /\ EngineCounts'
<1> SUFFICES ASSUME CInv, [ConfirmationNext]_cvars
             PROVE  ConfirmationTypeOK' /\ EngineCounts'
  OBVIOUS
<1> USE ConfirmationAssumption
    DEF CInv, ConfirmationTypeOK, EngineCounts, requestVars, historyVars,
        workVars, gatewayVars, svars
<1>1. ASSUME NEW r \in Request, NEW c \in Chats, RequestConfirmation(r, c)
      PROVE  ConfirmationTypeOK' /\ EngineCounts'
  BY <1>1 DEF RequestConfirmation
<1>2. ASSUME NEW r \in Request, NEW how \in {"text", "buttons"}, ShowPrompt(r, how)
      PROVE  ConfirmationTypeOK' /\ EngineCounts'
  BY <1>2 DEF ShowPrompt
<1>3. ASSUME NEW r \in Request, NEW how \in Chats \cup {"token"}, Accept(r, how)
      PROVE  ConfirmationTypeOK' /\ EngineCounts'
  BY <1>3 DEF Accept, Pop
<1>4. ASSUME NEW r \in Request, NEW j \in Job, EnqueueConfirm(r, j)
      PROVE  ConfirmationTypeOK' /\ EngineCounts'
  BY <1>4 DEF EnqueueConfirm, Submit
<1>5. ASSUME NEW r \in Request, LoseAccepted(r)
      PROVE  ConfirmationTypeOK' /\ EngineCounts'
  BY <1>5 DEF LoseAccepted
<1>6. ASSUME NEW w \in Worker, NEW j \in Job, TakeConfirm(w, j)
      PROVE  ConfirmationTypeOK' /\ EngineCounts'
  BY <1>6 DEF TakeConfirm, Take
<1>7. ASSUME NEW w \in Worker, CallConfirmed(w)
      PROVE  ConfirmationTypeOK' /\ EngineCounts'
  <2>1. ConfirmationTypeOK'
    BY <1>7 DEF CallConfirmed, JobsCarry, Request, NoRequest
  <2>2. EngineCounts'
    BY <1>7 DEF CallConfirmed
  <2> QED  BY <2>1, <2>2
<1>8. ASSUME NEW w \in Worker, SettleConfirm(w)
      PROVE  ConfirmationTypeOK' /\ EngineCounts'
  BY <1>8 DEF SettleConfirm, Settle
<1>9. ASSUME NEW w \in Worker, LoopEnds(w)
       PROVE  ConfirmationTypeOK' /\ EngineCounts'
  BY <1>9 DEF LoopEnds, Abandon
<1>10. ASSUME Reload
       PROVE  ConfirmationTypeOK' /\ EngineCounts'
  BY <1>10 DEF Reload, Abandon, Engine
<1>11. ASSUME Restart
       PROVE  ConfirmationTypeOK' /\ EngineCounts'
  BY <1>11 DEF Restart, Abandon, Engine
<1>12. ASSUME UNCHANGED cvars
       PROVE  ConfirmationTypeOK' /\ EngineCounts'
  BY <1>12 DEF cvars
<1>13. QED
  BY <1>1, <1>2, <1>3, <1>4, <1>5, <1>6, <1>7, <1>8, <1>9, <1>10,
     <1>11, <1>12
  DEF ConfirmationNext, PlainYes, TokenYes, Findable

(* The life of a request, one action at a time.                            *)
LifeInv == Unborn /\ JobsCarry /\ SingleUse /\ MovedIsApproved /\ ApprovalNotLost

(* No step sends a request back, copies it or calls its tool too early.    *)
LEMMA LifeStep == CInv /\ [ConfirmationNext]_cvars => LifeInv'
<1> SUFFICES ASSUME CInv, [ConfirmationNext]_cvars
             PROVE  LifeInv'
  OBVIOUS
<1> USE ConfirmationAssumption
    DEF CInv, ConfirmationTypeOK, LifeInv, Unborn, JobsCarry, SingleUse,
        MovedIsApproved, ApprovalNotLost, Approved, CarriedBy, Request,
        NoRequest, requestVars, historyVars, workVars, gatewayVars, svars
<1>1. ASSUME NEW r \in Request, NEW c \in Chats, RequestConfirmation(r, c)
      PROVE  LifeInv'
  BY <1>1 DEF RequestConfirmation
<1>2. ASSUME NEW r \in Request, NEW how \in {"text", "buttons"}, ShowPrompt(r, how)
      PROVE  LifeInv'
  BY <1>2 DEF ShowPrompt
<1>3. ASSUME NEW c \in Chats, PlainYes(c)
      PROVE  LifeInv'
  <2>1. PICK r \in Request : home[r] = routerEngine /\ chatOf[r] = c /\ Accept(r, c)
    BY <1>3 DEF PlainYes, Findable
  <2>2. QED
    BY <2>1 DEF Accept, Pop, Engine, NoEngine
<1>4. ASSUME NEW r \in Request, TokenYes(r)
      PROVE  LifeInv'
  BY <1>4 DEF TokenYes, Accept, Pop, Engine, NoEngine
<1>5. ASSUME NEW r \in Request, NEW j \in Job, EnqueueConfirm(r, j)
      PROVE  LifeInv'
  BY <1>5 DEF EnqueueConfirm, Submit
<1>6. ASSUME NEW r \in Request, LoseAccepted(r)
      PROVE  LifeInv'
  BY <1>6 DEF LoseAccepted
<1>7. ASSUME NEW w \in Worker, NEW j \in Job, TakeConfirm(w, j)
      PROVE  LifeInv'
  BY <1>7 DEF TakeConfirm, Take
<1>8. ASSUME NEW w \in Worker, CallConfirmed(w)
      PROVE  LifeInv'
  BY <1>8 DEF CallConfirmed
<1>9. ASSUME NEW w \in Worker, SettleConfirm(w)
       PROVE  LifeInv'
  BY <1>9 DEF SettleConfirm, Settle
<1>10. ASSUME NEW w \in Worker, LoopEnds(w)
       PROVE  LifeInv'
  BY <1>10 DEF LoopEnds, Abandon
<1>11. ASSUME Reload
       PROVE  LifeInv'
  BY <1>11 DEF Reload, Abandon
<1>12. ASSUME Restart
       PROVE  LifeInv'
  BY <1>12 DEF Restart, Abandon
<1>13. ASSUME UNCHANGED cvars
       PROVE  LifeInv'
  BY <1>13 DEF cvars
<1>14. QED
  BY <1>1, <1>2, <1>3, <1>4, <1>5, <1>6, <1>7, <1>8, <1>9, <1>10,
     <1>11, <1>12, <1>13
  DEF ConfirmationNext

-----------------------------------------------------------------------------
(* CInv holds of every reachable state.                                    *)
THEOREM ConfirmationsHold == ConfirmationSpec => []CInv
<1>1. ConfirmationInit => CInv
  BY InitInv
<1>2. CInv /\ [ConfirmationNext]_cvars => CInv'
  BY TypeStep, LifeStep DEF CInv, LifeInv
<1>3. QED
  BY <1>1, <1>2, PTL DEF ConfirmationSpec

(* Every variable keeps its type.                                          *)
THEOREM ConfirmationTypes == ConfirmationSpec => []ConfirmationTypeOK
  BY ConfirmationsHold, PTL DEF CInv

(* A confirmation is in one place: no answer and no restart makes two jobs *)
(* of one request.                                                         *)
THEOREM ConfirmationsAreSingleUse == ConfirmationSpec => []SingleUse
  BY ConfirmationsHold, PTL DEF CInv

(* A RED tool is only called for what an admin approved in the right chat  *)
(* or by its token.                                                        *)
THEOREM CallsNeedApproval == ConfirmationSpec => []CallsAreApproved
<1>1. CInv => CallsAreApproved
  BY DEF CInv, MovedIsApproved, Approved, SingleUse, CarriedBy, CallsAreApproved
<1>2. QED
  BY <1>1, ConfirmationsHold, PTL

(* An approval is lost only by a failed enqueue or the end of the process. *)
THEOREM ApprovalsAreKept == ConfirmationSpec => []ApprovalNotLost
  BY ConfirmationsHold, PTL DEF CInv
=============================================================================
