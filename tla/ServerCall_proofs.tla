--------------------------- MODULE ServerCall_proofs ---------------------------
(***************************************************************************)
(* Proofs about ServerCall, for every set of features, every size of an    *)
(* answer, of the pipe and of the argument field, and every number of      *)
(* calls.                                                                  *)
(***************************************************************************)
EXTENDS ServerCall, SequenceTheorems, TLAPS

\* A step is one of the actions, or leaves everything as it is: the case split
\* every proof about a step starts from.
LEMMA StepCases ==
  ASSUME [Next]_vars
  PROVE  \/ ReadVersionSize \/ ReadVersionText \/ AskFeatures \/ SendBroken
         \/ (\E f \in Features : Call(f))
         \/ ReadHeader \/ ReadData \/ ReadEof
         \/ CloseSocket \/ ClosePipe \/ CrashClient
         \/ SendVersion \/ ReadCommand \/ ReadCommandEof \/ ReadParamEof
         \/ Handle \/ WriteReply \/ WriteBroken \/ CrashServer
         \/ UNCHANGED vars
BY DEF Next

\* Taking the first element of a stream.
LEMMA TakeFirst ==
  ASSUME NEW S, NEW s \in Seq(S), s # <<>>
  PROVE  /\ Head(s) \in S /\ Head(s) = s[1] /\ Tail(s) \in Seq(S)
         /\ Len(s) \in Nat /\ Len(s) > 0 /\ Len(Tail(s)) = Len(s) - 1
         /\ \A i \in 1..Len(Tail(s)) : Tail(s)[i] = s[i + 1]
BY HeadTailProperties, EmptySeq, LenProperties

\* The types are kept by every step: the lengths and counters the code computes
\* by adding and comparing stay natural numbers, and the streams stay streams.
THEOREM TypeCorrect == Spec => []TypeOK
<1>1. Init => TypeOK
  BY FeaturesAssumption, SizesAssumption, EmptySeq
     DEF Init, TypeOK, Commands, CommandRecords
<1>2. TypeOK /\ [Next]_vars => TypeOK'
  <2> SUFFICES ASSUME TypeOK, [Next]_vars PROVE TypeOK'
    OBVIOUS
  <2> USE FeaturesAssumption, SizesAssumption DEF TypeOK
  <2>0. /\ s2c # <<>> => Head(s2c) \in Units /\ Tail(s2c) \in Seq(Units)
        /\ c2s # <<>> => Head(c2s) \in CommandRecords /\ Tail(c2s) \in Seq(CommandRecords)
    BY TakeFirst
  <2>1. CASE ReadVersionSize
    BY <2>0, <2>1 DEF ReadVersionSize, server
  <2>2. CASE ReadVersionText
    BY <2>0, <2>2 DEF ReadVersionText, server
  <2>3. ASSUME NEW r \in Commands, Send(r) PROVE TypeOK'
    <3>1. [id |-> placed + 1, req |-> r] \in CommandRecords
      BY DEF CommandRecords
    <3>2. c2s' \in Seq(CommandRecords)
      BY <2>3, <3>1, AppendProperties DEF Send
    <3> QED BY <2>3, <3>2 DEF Send, server
  <2>4. CASE AskFeatures
    BY <2>3, <2>4 DEF AskFeatures, Commands
  <2>5. CASE SendBroken
    BY <2>5 DEF SendBroken, server
  <2>6. CASE \E f \in Features : Call(f)
    BY <2>3, <2>6 DEF Call, Commands
  <2>7. CASE ReadHeader
    <3>1. s2c # <<>> => Head(s2c).total \in Nat
      BY <2>0 DEF Units
    <3> QED BY <2>0, <2>7, <3>1 DEF ReadHeader, Return, server
  <2>8. CASE ReadData
    BY <2>0, <2>8 DEF ReadData, Return, server
  <2>9. CASE ReadEof
    BY <2>9 DEF ReadEof, server
  <2>10. CASE CloseSocket
    BY <2>3, <2>10 DEF CloseSocket, Commands
  <2>11. CASE ClosePipe
    BY <2>11 DEF ClosePipe
  <2>12. CASE CrashClient
    BY <2>12 DEF CrashClient, server
  <2>13. CASE SendVersion
    <3>1. Unit(0, sent + 1, 0) \in Units
      BY DEF Unit, Units
    <3>2. s2c' \in Seq(Units)
      BY <2>13, <3>1, AppendProperties DEF SendVersion
    <3> QED BY <2>13, <3>2 DEF SendVersion, client
  <2>14. CASE ReadCommand
    BY <2>0, <2>14 DEF ReadCommand, client
  <2>15. CASE ReadCommandEof
    BY <2>15 DEF ReadCommandEof, client
  <2>16. CASE ReadParamEof
    BY <2>16 DEF ReadParamEof, client
  <2>17. CASE Handle
    BY <2>17 DEF Handle, Answer, client, CommandRecords, Commands
  <2>18. CASE WriteReply
    <3>1. Unit(reply.id, sent + 1, reply.total) \in Units
      BY DEF Unit, Units
    <3>2. s2c' \in Seq(Units)
      BY <2>18, <3>1, AppendProperties DEF WriteReply
    <3> QED BY <2>18, <3>2 DEF WriteReply, client
  <2>19. CASE WriteBroken
    BY <2>19 DEF WriteBroken, client
  <2>20. CASE CrashServer
    BY <2>20 DEF CrashServer, client
  <2>21. CASE UNCHANGED vars
    BY <2>21 DEF vars, client, server
  <2> QED
    BY <2>1, <2>2, <2>4, <2>5, <2>6, <2>7, <2>8, <2>9, <2>10, <2>11, <2>12, <2>13,
       <2>14, <2>15, <2>16, <2>17, <2>18, <2>19, <2>20, <2>21, StepCases
<1> QED BY <1>1, <1>2, PTL DEF Spec

-----------------------------------------------------------------------------
\* The inductive step of Coupling, one action at a time.  The parts an action
\* cannot disturb follow from what it leaves alone.
LEMMA CouplingStep ==
  ASSUME TypeOK, Coupling, [Next]_vars
  PROVE  Coupling'
<1> USE FeaturesAssumption, SizesAssumption
<1>0. /\ s2c # <<>> => /\ Tail(s2c) \in Seq(Units) /\ Len(s2c) \in Nat /\ Len(s2c) > 0
                       /\ Len(Tail(s2c)) = Len(s2c) - 1 /\ Head(s2c) = s2c[1]
                       /\ \A i \in 1..Len(Tail(s2c)) : Tail(s2c)[i] = s2c[i + 1]
      /\ c2s # <<>> => /\ Len(c2s) > 0 /\ Len(Tail(c2s)) = Len(c2s) - 1
                       /\ Head(c2s) = c2s[1] /\ Tail(c2s) \in Seq(CommandRecords)
      /\ Len(s2c) \in Nat /\ Len(c2s) \in Nat
      /\ \A s \in Seq(Units) : Len(s) = 0 => s = <<>>
      /\ \A s \in Seq(CommandRecords) : Len(s) = 0 => s = <<>>
  BY TakeFirst, EmptySeq, LenProperties DEF TypeOK
<1>1. CASE ReadVersionSize
  <2>1. Counting' /\ Guarded'
    BY <1>1 DEF ReadVersionSize, server, Coupling, Counting, Guarded
  <2>2. Handshake'
    BY <1>0, <1>1 DEF ReadVersionSize, server, Coupling, Handshake, TypeOK
  <2>3. Quiet' /\ Waiting'
    BY <1>1 DEF ReadVersionSize, Quiet, Waiting
  <2> QED BY <2>1, <2>2, <2>3 DEF Coupling
<1>2. CASE ReadVersionText
  <2>1. Counting' /\ Guarded'
    BY <1>2 DEF ReadVersionText, server, Coupling, Counting, Guarded, TypeOK
  <2>2. Quiet'
    BY <1>0, <1>2 DEF ReadVersionText, server, Coupling, Handshake, Quiet, TypeOK
  <2>3. Handshake' /\ Waiting'
    BY <1>2 DEF ReadVersionText, Handshake, Waiting
  <2> QED BY <2>1, <2>2, <2>3 DEF Coupling
<1>3. ASSUME NEW r \in Commands, Send(r), cpc \in {"ask", "free"} PROVE Coupling'
  <2>1. c2s = <<>> /\ s2c = <<>> /\ executed = placed /\ spc \in {"read", "gone"}
    BY <1>3 DEF Coupling, Quiet
  <2>2. c2s' = <<[id |-> placed + 1, req |-> r]>>
    BY <1>3, <2>1 DEF Send
  <2>3. Counting'
    BY <1>3, <2>1, <2>2 DEF Send, server, Counting, TypeOK
  <2>4. Handshake' /\ Quiet'
    BY <1>3 DEF Send, Handshake, Quiet
  <2>5. Waiting'
    BY <1>3, <2>1 DEF Send, server, Waiting, TypeOK
  <2>6. Guarded'
    BY <1>3 DEF Send, server, Coupling, Guarded
  <2> QED BY <2>3, <2>4, <2>5, <2>6 DEF Coupling
<1>4. CASE AskFeatures
  BY <1>3, <1>4 DEF AskFeatures, Commands
<1>5. CASE SendBroken
  BY <1>5 DEF SendBroken, server, Coupling, Counting, Handshake, Quiet, Waiting, Guarded
<1>6. CASE \E f \in Features : Call(f)
  BY <1>3, <1>6 DEF Call, Commands
\* The end of a call, whichever read completes it.
<1>7. ASSUME cpc \in {"reply", "data"}, Return, s2c # <<>>, s2c' = Tail(s2c),
             got + 1 = RespLen + reply.total,
             UNCHANGED <<req, c2s, server, peer, placed, executed>>
      PROVE  Coupling'
  <2>1. executed = placed /\ spc # "write" /\ spc # "version" /\ Len(s2c) = 1
    <3>1. executed = placed
      BY <1>7 DEF Coupling, Waiting, Counting, TypeOK
    <3>2. Len(s2c) + got <= RespLen + reply.total
      BY <1>7, <3>1 DEF Coupling, Waiting
    <3>3. Len(s2c) = 1
      <4>1. Len(s2c) \in Nat /\ Len(s2c) > 0 /\ got \in Nat /\ reply.total \in Nat
        BY <1>0, <1>7 DEF TypeOK
      <4>2. got + 1 = RespLen + reply.total
        BY <1>7
      <4>3. \A l, g, b \in Nat : l > 0 /\ l + g <= b /\ g + 1 = b => l = 1
        OBVIOUS
      <4>4. RespLen + reply.total \in Nat
        BY <4>1
      <4> QED BY <3>2, <4>1, <4>2, <4>3, <4>4
    <3>4. spc # "write"
      BY <1>7, <3>3 DEF Coupling, Waiting, TypeOK
    <3> QED BY <1>7, <3>1, <3>3, <3>4 DEF Coupling, Waiting
  <2>2. c2s = <<>> /\ spc \in {"read", "gone"}
    BY <2>1 DEF Coupling, Counting, TypeOK
  <2>3. Counting'
    BY <1>7 DEF server, Coupling, Counting
  <2>4. Quiet'
    BY <1>0, <1>7, <2>1, <2>2 DEF server, Quiet
  <2>5. Handshake' /\ Waiting'
    BY <1>7 DEF Return, Handshake, Waiting
  <2>6. Guarded'
    BY <1>7 DEF Return, Coupling, Guarded
  <2> QED BY <2>3, <2>4, <2>5, <2>6 DEF Coupling
\* A read that leaves the client in the call.
<1>8. ASSUME cpc \in {"reply", "data"}, cpc' \in {"reply", "data"},
             s2c # <<>>, s2c' = Tail(s2c), got' = got + 1,
             cpc' = "reply" => got' < RespLen,
             cpc' = "data" => /\ dlen' = reply.total
                              /\ RespLen <= got' /\ got' < RespLen + dlen',
             UNCHANGED <<req, c2s, server, peer, placed, executed>>
      PROVE  Coupling'
  <2>1. executed = placed
    BY <1>8 DEF Coupling, Waiting, Counting, TypeOK
  <2>2. Counting'
    BY <1>8 DEF server, Coupling, Counting
  <2>3. \A i \in 1..Len(s2c') : s2c'[i] = Unit(placed', got' + i, reply'.total)
    <3> SUFFICES ASSUME NEW i \in 1..Len(s2c')
                 PROVE  s2c'[i] = Unit(placed', got' + i, reply'.total)
      OBVIOUS
    <3>1. s2c'[i] = s2c[i + 1] /\ i + 1 \in 1..Len(s2c)
      BY <1>0, <1>8
    <3>2. s2c[i + 1] = Unit(placed, got + (i + 1), reply.total)
      BY <1>8, <3>1 DEF Coupling, Waiting
    <3>3. got + (i + 1) = (got + 1) + i
      BY DEF TypeOK
    <3> QED BY <1>8, <3>1, <3>2, <3>3 DEF server
  <2>4. Waiting'
    <3>1. Len(s2c') + got' = Len(s2c) + got
      BY <1>0, <1>8 DEF TypeOK
    <3>2. /\ spc # "version" /\ Len(s2c) + got <= RespLen + reply.total
          /\ spc = "write" => /\ reply.id = placed /\ Len(s2c) + got = sent
                              /\ sent < RespLen + reply.total
      BY <1>8, <2>1 DEF Coupling, Waiting
    <3>3. spc' = spc /\ reply' = reply /\ sent' = sent /\ placed' = placed /\ executed' = executed
      BY <1>8 DEF server
    <3>4. ~(executed' < placed')
      BY <2>1, <3>3 DEF TypeOK
    <3> QED BY <1>8, <2>3, <3>1, <3>2, <3>3, <3>4 DEF Waiting
  <2>5. Handshake' /\ Quiet' /\ Guarded'
    BY <1>8 DEF Coupling, Handshake, Quiet, Guarded
  <2> QED BY <2>2, <2>4, <2>5 DEF Coupling
<1>9. CASE ReadHeader
  <2>1. Head(s2c).total = reply.total /\ reply.total \in Nat
    <3>1. 1 \in 1..Len(s2c)
      BY <1>0, <1>9 DEF ReadHeader
    <3>2. s2c[1] = Unit(placed, got + 1, reply.total)
      BY <1>9, <3>1 DEF ReadHeader, Coupling, Waiting
    <3> QED BY <1>0, <1>9, <3>2 DEF ReadHeader, Unit, TypeOK
  <2> QED BY <1>7, <1>8, <1>9, <2>1 DEF ReadHeader, TypeOK
<1>10. CASE ReadData
  <2>1. dlen = reply.total /\ RespLen <= got
    BY <1>10 DEF ReadData, Coupling, Waiting
  <2>2. CASE got + 1 < RespLen + dlen /\ got' = got + 1 /\ UNCHANGED <<cpc, dlen, features>>
    BY <1>8, <1>10, <2>1, <2>2 DEF ReadData, TypeOK
  <2>3. CASE got + 1 = RespLen + dlen /\ Return
    BY <1>7, <1>10, <2>1, <2>3 DEF ReadData
  <2> QED BY <1>10, <2>2, <2>3 DEF ReadData
<1>11. CASE ReadEof
  BY <1>11 DEF ReadEof, server, Coupling, Counting, Handshake, Quiet, Waiting, Guarded
<1>12. CASE CloseSocket
  BY <1>3, <1>12 DEF CloseSocket, Commands
<1>13. CASE ClosePipe
  BY <1>13 DEF ClosePipe, Coupling, Counting, Handshake, Quiet, Waiting, Guarded
<1>14. CASE CrashClient
  BY <1>14 DEF CrashClient, server, Coupling, Counting, Handshake, Quiet, Waiting, Guarded
<1>15. CASE SendVersion
  <2>1. cpc \in {"verSize", "verText"}
    BY <1>15 DEF SendVersion, ClientGone, Coupling, Quiet, Waiting, TypeOK
  <2>2. Len(s2c') = Len(s2c) + 1
    BY <1>15 DEF SendVersion, TypeOK
  <2>3. Handshake'
    BY <1>0, <1>15, <2>1, <2>2 DEF SendVersion, client, Coupling, Handshake, TypeOK
  <2>4. Counting' /\ Quiet' /\ Waiting' /\ Guarded'
    BY <1>15, <2>1 DEF SendVersion, client, Coupling, Counting, Quiet, Waiting, Guarded
  <2> QED BY <2>3, <2>4 DEF Coupling
<1>16. CASE ReadCommand
  <2>1. /\ c2s' = <<>> /\ executed < placed
        /\ cmnd' = [id |-> placed, req |-> req] /\ spc' \in {"param", "handle", "gone"}
    BY <1>0, <1>16 DEF ReadCommand, Coupling, Counting, TypeOK
  <2>2. Counting' /\ Guarded'
    BY <1>16, <2>1 DEF ReadCommand, client, Coupling, Counting, Guarded
  <2>3. cpc \notin {"verSize", "verText", "ask", "free"}
    BY <1>16 DEF ReadCommand, Coupling, Handshake, Quiet
  <2>4. Handshake' /\ Quiet'
    BY <1>16, <2>3 DEF ReadCommand, client, Handshake, Quiet
  <2>5. Waiting'
    BY <1>16, <2>1 DEF ReadCommand, client, Coupling, Waiting
  <2> QED BY <2>2, <2>4, <2>5 DEF Coupling
<1>17. CASE ReadCommandEof
  BY <1>17 DEF ReadCommandEof, ClientGone, client, Coupling, Counting, Handshake, Quiet, Waiting, Guarded
<1>18. CASE ReadParamEof
  BY <1>18 DEF ReadParamEof, ClientGone, client, Coupling, Counting, Handshake, Quiet, Waiting, Guarded
<1>19. CASE Handle
  <2>1. executed < placed /\ c2s = <<>> /\ cmnd = [id |-> placed, req |-> req]
    BY <1>19 DEF Handle, Coupling, Counting
  <2>2. cpc \notin {"verSize", "verText", "ask", "free"}
    BY <1>19 DEF Handle, Coupling, Handshake, Quiet
  <2>3. Handshake' /\ Quiet' /\ Guarded'
    BY <1>19, <2>1, <2>2 DEF Handle, client, Coupling, Handshake, Quiet, Guarded
  <2>4. ASSUME NEW n \in Nat, Answer(n) PROVE Counting' /\ Waiting'
    <3>1. Counting'
      BY <1>19, <2>1, <2>4 DEF Handle, Answer, client, Coupling, Counting, TypeOK
    <3>2. Waiting'
      BY <1>19, <2>1, <2>4 DEF Handle, Answer, client, Coupling, Counting, Waiting, TypeOK
    <3> QED BY <3>1, <3>2
  <2>5. ASSUME spc' \in {"read", "gone"}, UNCHANGED <<reply, sent, executed>>
        PROVE  Counting' /\ Waiting'
    BY <1>19, <2>1, <2>5 DEF Handle, client, Coupling, Counting, Waiting
  <2>6. Counting' /\ Waiting'
    BY <1>19, <2>4, <2>5 DEF Handle
  <2> QED BY <2>3, <2>6 DEF Coupling
<1>20. CASE WriteReply
  <2>1. cpc \in {"reply", "data"}
    BY <1>20 DEF WriteReply, ClientGone, Coupling, Handshake, Quiet, TypeOK
  <2>2. executed = placed /\ reply.id = placed /\ Len(s2c) + got = sent
    BY <1>20, <2>1 DEF WriteReply, Coupling, Counting, Waiting, TypeOK
  <2>3. /\ Len(s2c') = Len(s2c) + 1
        /\ \A i \in 1..Len(s2c) : s2c'[i] = s2c[i]
        /\ s2c'[Len(s2c) + 1] = Unit(reply.id, sent + 1, reply.total)
    BY <1>0, <1>20 DEF WriteReply, TypeOK
  <2>4. \A i \in 1..Len(s2c') : s2c'[i] = Unit(placed', got' + i, reply'.total)
    <3> SUFFICES ASSUME NEW i \in 1..Len(s2c')
                 PROVE  s2c'[i] = Unit(placed, got + i, reply.total)
      BY <1>20 DEF WriteReply, client
    <3>1. CASE i \in 1..Len(s2c)
      BY <2>1, <2>3, <3>1 DEF Coupling, Waiting
    <3>2. CASE i = Len(s2c) + 1
      <4>1. sent + 1 = got + i
        <5>1. got \in Nat /\ sent \in Nat /\ Len(s2c) \in Nat
          BY <1>0 DEF TypeOK
        <5> QED BY <2>2, <3>2, <5>1
      <4> QED BY <2>2, <2>3, <3>2, <4>1
    <3> QED BY <1>0, <2>3, <3>1, <3>2
  <2>5. Waiting'
    <3>1. Len(s2c') + got = sent + 1
      BY <1>0, <2>2, <2>3 DEF TypeOK
    <3>2. /\ sent' = sent + 1 /\ reply' = reply /\ placed' = placed /\ executed' = executed
          /\ cpc' = cpc /\ got' = got /\ dlen' = dlen
      BY <1>20 DEF WriteReply, client
    <3>3. /\ cpc = "reply" => got < RespLen
          /\ cpc = "data" => /\ dlen = reply.total
                             /\ RespLen <= got /\ got < RespLen + dlen
      BY <2>1 DEF Coupling, Waiting
    <3>4. ~(executed' < placed') /\ sent + 1 <= RespLen + reply.total
      BY <1>20, <2>2, <3>2 DEF WriteReply, TypeOK
    <3>5. spc' = "write" => sent + 1 < RespLen + reply.total
      BY <1>20 DEF WriteReply
    <3>6. spc' # "version"
      BY <1>20 DEF WriteReply
    <3> QED BY <2>2, <2>4, <3>1, <3>2, <3>3, <3>4, <3>5, <3>6 DEF Waiting
  <2>6. Counting' /\ Handshake' /\ Quiet' /\ Guarded'
    BY <1>20, <2>1 DEF WriteReply, client, Coupling, Counting, Handshake, Quiet, Guarded
  <2> QED BY <2>5, <2>6 DEF Coupling
<1>21. CASE WriteBroken
  BY <1>21 DEF WriteBroken, ClientGone, client, Coupling, Counting, Handshake, Quiet, Waiting, Guarded
<1>22. CASE CrashServer
  BY <1>22 DEF CrashServer, client, Coupling, Counting, Handshake, Quiet, Waiting, Guarded
<1>23. CASE UNCHANGED vars
  BY <1>23 DEF vars, client, server, Coupling, Counting, Handshake, Quiet, Waiting, Guarded
<1> QED
  BY <1>1, <1>2, <1>4, <1>5, <1>6, <1>9, <1>10, <1>11, <1>12, <1>13, <1>14, <1>15,
     <1>16, <1>17, <1>18, <1>19, <1>20, <1>21, <1>22, <1>23, StepCases

\* However the two processes are scheduled and whichever of them crashes, the
\* two streams and the two counters stay coupled.
THEOREM CouplingCorrect == Spec => []Coupling
<1>1. Init => Coupling
  BY EmptySeq DEF Init, Coupling, Counting, Handshake, Quiet, Waiting, Guarded
<1>2. TypeOK /\ Coupling /\ [Next]_vars => Coupling'
  BY CouplingStep
<1> QED BY <1>1, <1>2, TypeCorrect, PTL DEF Spec

\* What the client reads during a call is the answer to that call, in order,
\* and a finished call leaves nothing behind (glibtop_read_l never sees a byte
\* of another call).
THEOREM FramedCorrect == Spec => []Framed
<1>1. Coupling => Framed
  BY DEF Coupling, Quiet, Waiting, Framed
<1> QED BY <1>1, CouplingCorrect, PTL

\* The two version checks of glibtop_open_l keep every command from a server
\* of another version.
THEOREM VersionGuardCorrect == Spec => []VersionGuard
<1>1. Coupling => VersionGuard
  BY DEF Coupling, Guarded, VersionGuard
<1> QED BY <1>1, CouplingCorrect, PTL

\* While a server waits in do_read for an announced argument, no byte is on its
\* way to it.
THEOREM StarvedCorrect == Spec => []Starved
<1>1. Coupling => Starved
  BY DEF Coupling, Counting, Starved
<1> QED BY <1>1, CouplingCorrect, PTL

-----------------------------------------------------------------------------
\* Every step of the two processes is a step of RemoteCall, or leaves its three
\* variables alone.
LEMMA RefinementStep ==
  ASSUME TypeOK, Coupling, [Next]_vars
  PROVE  [RC!AbsNext]_(RC!absVars)
<1> USE DEF RC!AbsNext, RC!absVars, abstractState, ClientGone
<1>1. CASE ReadVersionSize \/ ReadVersionText \/ SendBroken \/ ReadEof \/ CrashClient
  <2>1. cpc' \notin {"reply", "data"} \/ cpc' \in {"aborted", "killed"}
    BY <1>1 DEF ReadVersionSize, ReadVersionText, SendBroken, ReadEof, CrashClient
  <2>2. UNCHANGED <<placed, executed>>
    BY <1>1 DEF ReadVersionSize, ReadVersionText, SendBroken, ReadEof, CrashClient
  <2>3. cpc' \in {"aborted", "killed"} \/ (cpc \in {"verSize", "verText"} /\ cpc' \in {"verText", "ask"})
    BY <1>1 DEF ReadVersionSize, ReadVersionText, SendBroken, ReadEof, CrashClient
  <2>4. cpc \notin {"aborted", "killed", "closed"}
    BY <1>1 DEF ReadVersionSize, ReadVersionText, SendBroken, ReadEof, CrashClient
  <2> QED BY <2>2, <2>3, <2>4 DEF RC!GiveUp
<1>2. ASSUME NEW r \in Commands, Send(r), cpc \in {"ask", "free"}
      PROVE  [RC!AbsNext]_(RC!absVars)
  <2>1. executed = placed
    BY <1>2 DEF Coupling, Quiet
  <2>2. cpc' = "reply" /\ placed' = placed + 1 /\ executed' = executed
    BY <1>2 DEF Send
  <2> QED BY <1>2, <2>1, <2>2 DEF RC!Ask, TypeOK
<1>3. CASE AskFeatures
  BY <1>2, <1>3 DEF AskFeatures, Commands
<1>4. CASE \E f \in Features : Call(f)
  BY <1>2, <1>4 DEF Call, Commands
<1>5. CASE CloseSocket
  BY <1>2, <1>5 DEF CloseSocket, Commands
<1>6. CASE ReadHeader \/ ReadData
  <2>1. cpc \in {"reply", "data"} /\ UNCHANGED <<placed, executed>>
    BY <1>6 DEF ReadHeader, ReadData
  <2>2. executed = placed
    BY <1>6, <2>1 DEF ReadHeader, ReadData, Coupling, Waiting, Counting, TypeOK
  <2>3. cpc' \in {"reply", "data", "free", "closed"}
    BY <1>6 DEF ReadHeader, ReadData, Return
  <2> QED BY <2>1, <2>2, <2>3 DEF RC!Deliver, RC!GiveUp
<1>7. CASE ClosePipe
  BY <1>7 DEF ClosePipe, RC!GiveUp
<1>8. CASE Handle
  <2>1. executed < placed /\ placed <= executed + 1
    BY <1>8 DEF Handle, Coupling, Counting
  <2>2. cpc \notin {"verSize", "verText", "ask", "free"} /\ UNCHANGED <<cpc, placed>>
    BY <1>8 DEF Handle, client, Coupling, Handshake, Quiet
  <2>3. executed' = executed \/ executed' = placed
    BY <1>8, <2>1 DEF Handle, Answer, TypeOK
  <2> QED BY <2>1, <2>2, <2>3 DEF RC!Execute, RC!ExecuteLate, TypeOK
<1>9. CASE SendVersion \/ ReadCommand \/ ReadCommandEof \/ ReadParamEof
           \/ WriteReply \/ WriteBroken \/ CrashServer
  BY <1>9 DEF SendVersion, ReadCommand, ReadCommandEof, ReadParamEof, WriteReply,
              WriteBroken, CrashServer, client
<1>10. CASE UNCHANGED vars
  BY <1>10 DEF vars, client
<1> QED
  BY <1>1, <1>3, <1>4, <1>5, <1>6, <1>7, <1>8, <1>9, <1>10, StepCases

\* The exchange of bytes implements the abstract remote call: commands are
\* executed one at a time, in order, at most once, and glibtop_call_l returns
\* only after the execution of its own.
THEOREM RefinementCorrect == Spec => ImplementsRemoteCall
<1>1. Init => RC!AbsInit
  BY DEF Init, RC!AbsInit, abstractState, ClientGone
<1>2. TypeOK /\ Coupling /\ [Next]_vars => [RC!AbsNext]_(RC!absVars)
  BY RefinementStep
<1> QED
  BY <1>1, <1>2, TypeCorrect, CouplingCorrect, PTL
     DEF Spec, ImplementsRemoteCall, RC!AbsSpec

=============================================================================
