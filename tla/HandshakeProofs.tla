-------------------------- MODULE HandshakeProofs ---------------------------
(***************************************************************************)
(* Theorems about the negotiation, for every offer, every configuration of *)
(* the server and every overhead of a frame, and about the greeting, for   *)
(* every number of attempts and every kind of client: its types, the terms *)
(* both sides end with, what it takes to start a session, and that a lost  *)
(* line does not stop it.                                                  *)
(***************************************************************************)
EXTENDS Handshake, SequenceTheorems, WellFoundedInduction, TLAPS

-----------------------------------------------------------------------------
(* What is proposed is accepted. *)

\* The two facts about integers the arithmetic rests on.
LEMMA DivisionBounds == ASSUME NEW a \in Nat, NEW b \in Nat \ {0}
                        PROVE  a \div b \in Nat /\ (a \div b) * b <= a
  OBVIOUS

LEMMA ProductGrows == ASSUME NEW a \in Nat, NEW b \in Nat, NEW c \in Nat, a <= b
                      PROVE  a * c <= b * c /\ c * a <= c * b
  OBVIOUS

\* Each field of an offer has its type, and so has what is computed of it.
LEMMA ProposedTypes ==
  ASSUME NEW o \in Offer, NEW limit \in Limit
  PROVE  /\ BlockLimit(o, limit) \in Nat \ {0} /\ BlockLimit(o, limit) <= o.maxblk
         /\ Capacity(o, limit) \in Nat
         /\ Proposed(o, limit) \in Terms
<1>1. o.maxblk \in Nat \ {0} /\ o.window \in Nat \ {0} /\ o.rxbuf \in Nat
      /\ o.flow \in BOOLEAN /\ o.lz4 \in BOOLEAN
  BY DEF Offer
<1>2. limit.block \in Nat \ {0} /\ limit.window \in Nat \ {0} /\ limit.lz4 \in BOOLEAN
  BY DEF Limit
<1>3. BlockLimit(o, limit) \in Nat \ {0} /\ BlockLimit(o, limit) <= o.maxblk
  BY <1>1, <1>2 DEF BlockLimit, Minimum
<1>4. FrameSize(BlockLimit(o, limit)) \in Nat \ {0}
  BY <1>3, NegotiationAssumption DEF FrameSize
<1>5. Capacity(o, limit) \in Nat
  BY <1>1, <1>4, DivisionBounds DEF Capacity
<1>6. Minimum(Minimum(limit.window, o.window), Capacity(o, limit)) \in Nat
  BY <1>1, <1>2, <1>5 DEF Minimum
<1> QED  BY <1>1, <1>2, <1>3, <1>5, <1>6 DEF Proposed, Terms

\* With FLOW, a whole window of the largest blocks fits the client's buffer:
\* the server divides by the size of a frame, not of a block.
LEMMA WindowFits ==
  ASSUME NEW o \in Offer, NEW limit \in Limit, o.flow
  PROVE  LET t == Proposed(o, limit)
         IN  /\ t.window <= o.window
             /\ t.window * (t.maxblk + FrameOverhead) <= o.rxbuf
<1> DEFINE B == BlockLimit(o, limit)
           F == B + FrameOverhead
           Q == Capacity(o, limit)
           W == Minimum(Minimum(limit.window, o.window), Q)
<1>1. B \in Nat \ {0} /\ Q \in Nat
  BY ProposedTypes
<1>2. o.rxbuf \in Nat /\ o.window \in Nat /\ limit.window \in Nat
  BY DEF Offer, Limit
<1>3. F \in Nat \ {0}
  BY <1>1, NegotiationAssumption
<1>4. Q * F <= o.rxbuf
  BY <1>2, <1>3, DivisionBounds DEF Capacity, FrameSize
<1>5. W \in Nat /\ W <= Q /\ W <= o.window
  BY <1>1, <1>2 DEF Minimum
<1>6. W * F <= o.rxbuf
  <2>1. W * F <= Q * F  BY <1>1, <1>3, <1>5, ProductGrows
  <2>2. W * F \in Nat /\ Q * F \in Nat  BY <1>1, <1>3, <1>5
  <2> QED  BY <2>1, <2>2, <1>4, <1>2
<1>7. Proposed(o, limit).window = W /\ Proposed(o, limit).maxblk = B
  BY DEF Proposed
<1> QED  BY <1>5, <1>6, <1>7

\* The check of PcutpClient.hello and PCUTP.BAS never refuses what
\* _handle_hello proposes: not its window, not its block size, not its buffer,
\* not its compression.  A client without FLOW needs room for a frame.
THEOREM ProposalsAreAccepted ==
  ASSUME NEW o \in Offer, NEW limit \in Limit,
         o.flow \/ FrameSize(BlockLimit(o, limit)) <= o.rxbuf
  PROVE  Accepts(o, Proposed(o, limit))
<1> DEFINE t == Proposed(o, limit)
<1>1. t.maxblk <= o.maxblk /\ (t.lz4 => o.lz4)
  BY ProposedTypes DEF Proposed, Offer
<1>2. CASE o.flow
  BY <1>1, <1>2, WindowFits DEF Accepts
<1>3. CASE ~o.flow
  <2>1. t.window = 1 /\ t.maxblk = BlockLimit(o, limit)
    BY <1>3 DEF Proposed
  <2>2. 1 <= o.window /\ o.rxbuf \in Nat
    BY DEF Offer
  <2>3. 1 * (BlockLimit(o, limit) + FrameOverhead) <= o.rxbuf
    BY <1>3, <2>2, ProposedTypes, NegotiationAssumption DEF FrameSize
  <2> QED  BY <1>1, <2>1, <2>2, <2>3 DEF Accepts
<1> QED  BY <1>2, <1>3

\* Whatever block size send_file takes, as long as it is not above the
\* negotiated limit, a full window of its frames fits the client's buffer.
THEOREM AnyBlockFits ==
  ASSUME NEW o \in Offer, NEW limit \in Limit, o.flow,
         NEW block \in Nat, block <= Proposed(o, limit).maxblk
  PROVE  Proposed(o, limit).window * (block + FrameOverhead) <= o.rxbuf
<1> DEFINE w == Proposed(o, limit).window
           b == Proposed(o, limit).maxblk
<1>1. w \in Nat /\ b \in Nat
  BY ProposedTypes DEF Terms
<1>2. w * (b + FrameOverhead) <= o.rxbuf
  BY WindowFits
<1> HIDE DEF w, b
<1>3. FrameOverhead \in Nat /\ o.rxbuf \in Nat
  BY NegotiationAssumption DEF Offer
<1>4. block <= b
  BY DEF b
<1>5. w * (block + FrameOverhead) <= w * (b + FrameOverhead)
  <2>1. block + FrameOverhead \in Nat /\ b + FrameOverhead \in Nat
        /\ block + FrameOverhead <= b + FrameOverhead
    BY <1>1, <1>3, <1>4
  <2> QED  BY <1>1, <2>1, ProductGrows
<1>6. w * (block + FrameOverhead) <= o.rxbuf
  <2>1. w * (block + FrameOverhead) \in Nat /\ w * (b + FrameOverhead) \in Nat
    BY <1>1, <1>3
  <2> QED  BY <1>2, <1>3, <1>5, <2>1
<1> QED  BY <1>6 DEF w

-----------------------------------------------------------------------------
(* Types.  Greetings carry what the client offers, proposals carry terms,   *)
(* and both carry IDENTITY=1 unless the peer is plain, which it stays.      *)

Asks == peer # "plain"
ClientLines == (Greetings \X Offers \X {Asks}) \union {Word(k) : k \in {"HRU", "IAM", "GET"}}
ServerLines == (Proposals \X Terms \X {Asks}) \union {Word(k) : k \in {"WHO?", "ERR", "FETCHING"}}

VariableTypes ==
  /\ cPhase \in CPhases /\ cTries \in 0 .. HelloRetries + 1
  /\ cPhase \in {"hello", "who"} => cTries <= HelloRetries
  /\ peer \in Clients /\ offer \in Offers /\ cTerms \in Terms
  /\ sPhase \in SPhases /\ sTries \in 0 .. HelloRetries /\ sTerms \in Terms
  /\ identity \in BOOLEAN
  /\ setting \in Settings /\ losses \in Nat /\ dials \in Nat
  /\ due \in {"none", "client", "server"}

LineTypes ==
  /\ toServer \in Seq(ClientLines) /\ toClient \in Seq(ServerLines)
  /\ sPhase # "listen" => identity = Asks
  /\ cPhase = "who" => Asks

HandshakeTypes == VariableTypes /\ LineTypes

\* Adding to a channel, or reading its head, keeps its type.
LEMMA ChannelType ==
  ASSUME NEW S, NEW s \in Seq(S)
  PROVE  /\ \A e \in S : Append(s, e) \in Seq(S)
         /\ \A e, f \in S : s \o <<e, f>> \in Seq(S)
         /\ s # <<>> => Head(s) \in S /\ Tail(s) \in Seq(S)
         /\ <<>> \in Seq(S)
<1>1. \A e \in S : Append(s, e) \in Seq(S)
  BY AppendProperties
<1>2. s # <<>> => Head(s) \in S /\ Tail(s) \in Seq(S)
  BY HeadTailProperties
<1>3. \A e, f \in S : <<e, f>> \in Seq(S)
  OBVIOUS
<1>4. QED
  BY <1>1, <1>2, <1>3, ConcatProperties, EmptySeq

\* What the lines that travel are, and what can be read off each of them.
LEMMA ClientLineFacts ==
  /\ \A k \in {"HRU", "IAM", "GET"} : Word(k) \in ClientLines
  /\ \A w \in Greetings, o \in Offers : <<w, o, Asks>> \in ClientLines
  /\ \A l \in ClientLines :
       /\ l[1] \in Greetings \union {"HRU", "IAM", "GET"}
       /\ l[1] \in Greetings => l = <<l[1], l[2], l[3]>> /\ l[2] \in Offers /\ l[3] = Asks
       /\ l[1] \notin Greetings => l = Word(l[1])
<1>1. \A k \in {"HRU", "IAM", "GET"} : Word(k) \in ClientLines
  BY DEF ClientLines
<1>2. \A w \in Greetings, o \in Offers : <<w, o, Asks>> \in ClientLines
  BY DEF ClientLines
<1>3. ASSUME NEW l \in Greetings \X Offers \X {Asks}
      PROVE  l[1] \in Greetings /\ l = <<l[1], l[2], l[3]>> /\ l[2] \in Offers /\ l[3] = Asks
  OBVIOUS
<1>4. ASSUME NEW k \in {"HRU", "IAM", "GET"}
      PROVE  Word(k)[1] = k /\ k \notin Greetings
  BY DEF Word, Greetings
<1>5. QED  BY <1>1, <1>2, <1>3, <1>4 DEF ClientLines

LEMMA ServerLineFacts ==
  /\ \A k \in {"WHO?", "ERR", "FETCHING"} : Word(k) \in ServerLines
  /\ \A w \in Proposals, t \in Terms : <<w, t, Asks>> \in ServerLines
  /\ \A l \in ServerLines :
       /\ l[1] \in Proposals \union {"WHO?", "ERR", "FETCHING"}
       /\ l[1] \in Proposals => l = <<l[1], l[2], l[3]>> /\ l[2] \in Terms /\ l[3] = Asks
       /\ l[1] \notin Proposals => l = Word(l[1])
<1>1. \A k \in {"WHO?", "ERR", "FETCHING"} : Word(k) \in ServerLines
  BY DEF ServerLines
<1>2. \A w \in Proposals, t \in Terms : <<w, t, Asks>> \in ServerLines
  BY DEF ServerLines
<1>3. ASSUME NEW l \in Proposals \X Terms \X {Asks}
      PROVE  l[1] \in Proposals /\ l = <<l[1], l[2], l[3]>> /\ l[2] \in Terms /\ l[3] = Asks
  OBVIOUS
<1>4. ASSUME NEW k \in {"WHO?", "ERR", "FETCHING"}
      PROVE  Word(k)[1] = k /\ k \notin Proposals
  BY DEF Word, Proposals
<1>5. QED  BY <1>1, <1>2, <1>3, <1>4 DEF ServerLines

LEMMA LineKinds == ClientLines \subseteq LineType /\ ServerLines \subseteq LineType
<1>1. Offers \subseteq Offer /\ NoTerms \in Terms /\ Asks \in BOOLEAN
  BY HandshakeAssumption DEF NoTerms, Terms, Asks
<1>2. \A k \in Kinds : Word(k) \in LineType
  BY <1>1 DEF Word, LineType
<1>3. Greetings \X Offers \X {Asks} \subseteq LineType /\ Proposals \X Terms \X {Asks} \subseteq LineType
  BY <1>1 DEF LineType, Greetings, Proposals, Kinds
<1>4. {"HRU", "IAM", "GET", "WHO?", "ERR", "FETCHING"} \subseteq Kinds
  BY DEF Kinds
<1>5. QED  BY <1>2, <1>3, <1>4 DEF ClientLines, ServerLines

LEMMA SamePeerSameLines ==
  ASSUME peer' = peer
  PROVE  ClientLines' = ClientLines /\ ServerLines' = ServerLines /\ Asks' = Asks
  BY DEF ClientLines, ServerLines, Asks

\* Nobody turns into another program.
LEMMA PeerStays == [Next]_vars => peer' = peer
  BY DEF Next, vars, clientVars, world, Dial, Get, ClientStep, ServerStep, LoseLine, OfServer, OfClient,
         HelloTimeout, RecvAnswer, RecvWho, WhoTimeout, RecvAtPrompt, RecvGetReply, GetTimeout,
         TakeReply, NoReply, ClientFails, HelloAgain, Connected, HruAgain,
         RecvGreeting, RecvNoGreeting, RecvRequest, RecvGreetingAgain, ProposalTimeout,
         RecvHru, RecvIam, IamTimeout, SilenceNoticed, TakeInput, NoInput

LEMMA InitTypes == Init => HandshakeTypes
<1> SUFFICES ASSUME Init PROVE HandshakeTypes
  OBVIOUS
<1>1. NoTerms \in Terms
  BY DEF NoTerms, Terms
<1>2. peer \in Clients
  BY HandshakeAssumption DEF Init, Setting
<1>3. 0 \in 0 .. HelloRetries /\ 0 \in 0 .. HelloRetries + 1 /\ 0 <= HelloRetries
  BY HandshakeAssumption
<1>4. VariableTypes
  BY <1>1, <1>2, <1>3 DEF Init, VariableTypes, CPhases, SPhases
<1>5. LineTypes
  BY EmptySeq DEF Init, LineTypes
<1>6. QED  BY <1>4, <1>5 DEF HandshakeTypes

\* What the channels hold and what can be added, once for all actions.
LEMMA LinesInHand ==
  ASSUME HandshakeTypes
  PROVE  /\ \A e \in ClientLines : Append(toServer, e) \in Seq(ClientLines)
         /\ \A e \in ServerLines : Append(toClient, e) \in Seq(ServerLines)
         /\ \A e, f \in ServerLines : toClient \o <<e, f>> \in Seq(ServerLines)
         /\ <<>> \in Seq(ClientLines) /\ <<>> \in Seq(ServerLines)
         /\ toServer # <<>> =>
              /\ Tail(toServer) \in Seq(ClientLines)
              /\ Input[1] \in Greetings \union {"HRU", "IAM", "GET"}
              /\ Input[1] \in Greetings =>
                   /\ Input = <<Input[1], Input[2], Input[3]>>
                   /\ Input[2] \in Offers /\ Input[3] = Asks
                   /\ Proposed(Input[2], ServerLimit) \in Terms
              /\ Input[1] \notin Greetings => Input = Word(Input[1])
         /\ toClient # <<>> =>
              /\ Tail(toClient) \in Seq(ServerLines)
              /\ Reply[1] \in Proposals \union {"WHO?", "ERR", "FETCHING"}
              /\ Reply[1] \in Proposals =>
                   Reply = <<Reply[1], Reply[2], Reply[3]>> /\ Reply[2] \in Terms /\ Reply[3] = Asks
              /\ Reply[1] \notin Proposals => Reply = Word(Reply[1])
<1>1. toServer \in Seq(ClientLines) /\ toClient \in Seq(ServerLines)
  BY DEF HandshakeTypes, LineTypes
<1>2. \A o \in Offers : Proposed(o, ServerLimit) \in Terms
  BY ProposedTypes, HandshakeAssumption
<1>3. toServer # <<>> => Input \in ClientLines
  BY <1>1, ChannelType DEF Input
<1>4. toClient # <<>> => Reply \in ServerLines
  BY <1>1, ChannelType DEF Reply
<1>5. QED
  BY <1>1, <1>2, <1>3, <1>4, ChannelType, ClientLineFacts, ServerLineFacts

\* No step makes more passes than a loop has, or sends what is not a line.
LEMMA TypesKept == HandshakeTypes /\ [Next]_vars => HandshakeTypes'
<1> SUFFICES ASSUME HandshakeTypes, [Next]_vars PROVE HandshakeTypes'
  OBVIOUS
<1>a. peer' = peer /\ ClientLines' = ClientLines /\ ServerLines' = ServerLines /\ Asks' = Asks
  BY PeerStays, SamePeerSameLines
<1>b. /\ \A k \in {"HRU", "IAM", "GET"} : Append(toServer, Word(k)) \in Seq(ClientLines)
      /\ \A w \in Greetings, o \in Offers : Append(toServer, <<w, o, Asks>>) \in Seq(ClientLines)
      /\ \A k \in {"WHO?", "ERR", "FETCHING"} : Append(toClient, Word(k)) \in Seq(ServerLines)
      /\ \A w \in Proposals, t \in Terms :
           /\ Append(toClient, <<w, t, Asks>>) \in Seq(ServerLines)
           /\ toClient \o <<<<w, t, Asks>>, Word("ERR")>> \in Seq(ServerLines)
      /\ <<>> \in Seq(ClientLines) /\ <<>> \in Seq(ServerLines)
  BY LinesInHand, ClientLineFacts, ServerLineFacts
<1>c. /\ toServer # <<>> => /\ Tail(toServer) \in Seq(ClientLines)
                            /\ Input[1] \in Greetings =>
                                 /\ Input[2] \in Offers /\ Input[3] = Asks
                                 /\ Proposed(Input[2], ServerLimit) \in Terms
      /\ toClient # <<>> => /\ Tail(toClient) \in Seq(ServerLines)
                            /\ Reply[1] \in Proposals => Reply[2] \in Terms /\ Reply[3] = Asks
  BY LinesInHand
<1>d. HelloRetries \in Nat \ {0} /\ NoTerms \in Terms
  BY HandshakeAssumption DEF NoTerms, Terms
<1>e. toServer \in Seq(ClientLines) /\ toClient \in Seq(ServerLines) /\ Asks \in BOOLEAN
  BY DEF HandshakeTypes, LineTypes, Asks
<1> USE DEF HandshakeTypes, VariableTypes, LineTypes
<1>1. CASE Dial
  <2>1. VariableTypes'
    BY <1>1, <1>a, <1>d DEF Dial, world, serverVars, CPhases
  <2>2. Greeting("HELLO")' = <<"HELLO", offer', Asks>> /\ "HELLO" \in Greetings
    BY <1>a DEF Greeting, Greetings, Asks
  <2>3. LineTypes'
    BY <1>1, <1>a, <1>b, <2>2 DEF Dial, ClientSays, serverVars
  <2>4. QED  BY <2>1, <2>3
<1>2. CASE Get
  <2>1. VariableTypes'
    BY <1>2, <1>a DEF Get, OfClient, world, serverVars, CPhases
  <2>2. LineTypes'
    BY <1>2, <1>a, <1>b, <1>e DEF Get, OfClient, ClientSays, serverVars
  <2>3. QED  BY <2>1, <2>2
<1>g. Greeting("HELLO?") = <<"HELLO?", offer, Asks>> /\ "HELLO?" \in Greetings
  BY DEF Greeting, Greetings, Asks
<1>3. CASE HelloTimeout
  <2>1. VariableTypes'
    BY <1>3, <1>a, <1>d DEF HelloTimeout, NoReply, OfClient, world, serverVars, CPhases, HelloAgain, ClientFails
  <2>2. LineTypes'
    BY <1>3, <1>a, <1>b, <1>e, <1>g DEF HelloTimeout, NoReply, OfClient, serverVars, HelloAgain, ClientFails, ClientSays
  <2>3. QED  BY <2>1, <2>2
<1>4. CASE RecvAnswer
  <2>1. VariableTypes'
    BY <1>4, <1>a, <1>c, <1>d DEF RecvAnswer, TakeReply, OfClient, world, serverVars, CPhases, HelloAgain, ClientFails
  <2>2. LineTypes'
    BY <1>4, <1>a, <1>b, <1>c, <1>e, <1>g
       DEF RecvAnswer, TakeReply, OfClient, serverVars, HelloAgain, ClientFails, ClientSays
  <2>3. QED  BY <2>1, <2>2
<1>5. CASE RecvWho
  <2>1. VariableTypes'
    BY <1>5, <1>a, <1>d DEF RecvWho, TakeReply, OfClient, world, serverVars, CPhases, HruAgain, Connected, ClientFails
  <2>2. LineTypes'
    BY <1>5, <1>a, <1>b, <1>c, <1>e
       DEF RecvWho, TakeReply, OfClient, serverVars, HruAgain, Connected, ClientFails, ClientSays
  <2>3. QED  BY <2>1, <2>2
<1>6. CASE WhoTimeout
  <2>1. VariableTypes'
    BY <1>6, <1>a, <1>d DEF WhoTimeout, NoReply, OfClient, world, serverVars, CPhases, HruAgain, Connected, ClientFails
  <2>2. LineTypes'
    BY <1>6, <1>a, <1>b, <1>e
       DEF WhoTimeout, NoReply, OfClient, serverVars, HruAgain, Connected, ClientFails, ClientSays
  <2>3. QED  BY <2>1, <2>2
<1>7. CASE RecvAtPrompt
  BY <1>7, <1>a, <1>c, <1>e DEF RecvAtPrompt, TakeReply, OfClient, clientVars, serverVars, world
<1>8. CASE RecvGetReply
  BY <1>8, <1>a, <1>c, <1>e DEF RecvGetReply, TakeReply, OfClient, ClientFails, serverVars, world, CPhases
<1>9. CASE GetTimeout
  BY <1>9, <1>a, <1>e DEF GetTimeout, NoReply, OfClient, ClientFails, serverVars, world, CPhases
<1>10. CASE RecvGreeting
  <2>1. VariableTypes'
    BY <1>10, <1>a, <1>c, <1>d, <1>e DEF RecvGreeting, OfServer, world, clientVars, SPhases, Propose, Dropped
  <2>2. LineTypes'
    BY <1>10, <1>a, <1>b, <1>c, <1>e
       DEF RecvGreeting, OfServer, clientVars, Propose, Dropped, ServerSays, Greetings, Proposals
  <2>3. QED  BY <2>1, <2>2
<1>11. CASE RecvNoGreeting
  BY <1>11, <1>a, <1>b, <1>c, <1>d, <1>e
     DEF RecvNoGreeting, TakeInput, OfServer, world, clientVars, SPhases, Refuse, ServerSays
<1>12. CASE RecvRequest
  <2>1. VariableTypes'
    BY <1>12, <1>a, <1>d DEF RecvRequest, OfServer, world, clientVars, serverVars, SPhases, Dropped
  <2>2. LineTypes'
    BY <1>12, <1>a, <1>b, <1>c, <1>e
       DEF RecvRequest, OfServer, clientVars, serverVars, Dropped, ServerSays
  <2>3. QED  BY <2>1, <2>2
<1>13. CASE RecvGreetingAgain
  <2>1. VariableTypes'
    BY <1>13, <1>a, <1>d DEF RecvGreetingAgain, TakeInput, OfServer, world, clientVars, SPhases, MorePasses
  <2>2. LineTypes'
    BY <1>13, <1>a, <1>b, <1>c, <1>e
       DEF RecvGreetingAgain, TakeInput, OfServer, clientVars, ServerSays, Proposals, RepeatedTerms
  <2>3. QED  BY <2>1, <2>2
<1>14. CASE ProposalTimeout
  <2>1. VariableTypes'
    BY <1>14, <1>a, <1>d DEF ProposalTimeout, NoInput, OfServer, world, clientVars, SPhases, MorePasses, Refuse
  <2>2. LineTypes'
    BY <1>14, <1>a, <1>b, <1>c, <1>e
       DEF ProposalTimeout, NoInput, OfServer, clientVars, ServerSays, Proposals, Refuse
  <2>3. QED  BY <2>1, <2>2
<1>15. CASE RecvHru
  <2>1. VariableTypes'
    BY <1>15, <1>a, <1>d DEF RecvHru, TakeInput, OfServer, world, clientVars, SPhases, AfterHru, Refuse
  <2>2. LineTypes'
    BY <1>15, <1>a, <1>b, <1>c, <1>e
       DEF RecvHru, TakeInput, OfServer, clientVars, ServerSays, Refuse
  <2>3. QED  BY <2>1, <2>2
<1>16. CASE RecvIam
  <2>1. VariableTypes'
    BY <1>16, <1>a, <1>d DEF RecvIam, OfServer, world, clientVars, SPhases, MorePasses, Dropped
  <2>2. LineTypes'
    BY <1>16, <1>a, <1>b, <1>c, <1>e
       DEF RecvIam, OfServer, clientVars, ServerSays, Dropped
  <2>3. QED  BY <2>1, <2>2
<1>17. CASE IamTimeout
  <2>1. VariableTypes'
    BY <1>17, <1>a, <1>d DEF IamTimeout, OfServer, world, clientVars, SPhases, Dropped
  <2>2. LineTypes'
    BY <1>17, <1>a, <1>b, <1>e DEF IamTimeout, OfServer, clientVars, Dropped
  <2>3. QED  BY <2>1, <2>2
<1>18. CASE SilenceNoticed
  BY <1>18, <1>a, <1>b, <1>d, <1>e DEF SilenceNoticed, OfServer, world, clientVars, SPhases, Dropped
<1>19. CASE LoseLine
  <2>1. VariableTypes'
    BY <1>19, <1>a DEF LoseLine, clientVars, serverVars
  <2>2. LineTypes'
    BY <1>19, <1>a, <1>c, <1>e DEF LoseLine, clientVars, serverVars
  <2>3. QED  BY <2>1, <2>2
<1>20. CASE UNCHANGED vars
  BY <1>20, <1>a DEF vars, clientVars, serverVars, world
<1>21. QED
  BY <1>1, <1>2, <1>3, <1>4, <1>5, <1>6, <1>7, <1>8, <1>9, <1>10, <1>11, <1>12, <1>13, <1>14,
     <1>15, <1>16, <1>17, <1>18, <1>19, <1>20 DEF Next, ClientStep, ServerStep

LEMMA TypesAreKept == Spec => []HandshakeTypes
<1>1. QED  BY InitTypes, TypesKept, PTL DEF Spec

\* Every variable has its type, whatever is lost, late or started again: no
\* loop of the two programs makes more than HELLO_RETRIES passes, and one more
\* for the HRU that ends the client's, and every greeting that is read carries
\* an offer, every proposal terms.
THEOREM GreetingTypes == Spec => []TypeOK
<1>1. HandshakeTypes => TypeOK
  <2> SUFFICES ASSUME HandshakeTypes PROVE TypeOK
    OBVIOUS
  <2>1. toServer \in Seq(LineType) /\ toClient \in Seq(LineType)
    BY LineKinds DEF HandshakeTypes, LineTypes
  <2>2. QED  BY <2>1 DEF HandshakeTypes, VariableTypes, TypeOK
<1>2. QED  BY <1>1, TypesAreKept, PTL

-----------------------------------------------------------------------------
(* The order of lines on a channel: it has a line of K; it has one of K and *)
(* a later one of L; it has one of L between two of K.                      *)

Has(s, K)       == \E i \in 1 .. Len(s) : s[i][1] \in K
Before(s, K, L) == \E i, j \in 1 .. Len(s) : i < j /\ s[i][1] \in K /\ s[j][1] \in L
Around(s, K, L) == \E i, j, k \in 1 .. Len(s) :
                     i < j /\ j < k /\ s[i][1] \in K /\ s[j][1] \in L /\ s[k][1] \in K

LEMMA NothingUnderWay ==
  ASSUME NEW K, NEW L
  PROVE  ~Has(<<>>, K) /\ ~Before(<<>>, K, L) /\ ~Around(<<>>, K, L)
  BY DEF Has, Before, Around

\* What a line added at the end comes behind.
LEMMA AddedLine ==
  ASSUME NEW S, NEW s \in Seq(S), NEW e \in S, NEW K, NEW L
  PROVE  /\ Has(Append(s, e), K) <=> Has(s, K) \/ e[1] \in K
         /\ Before(Append(s, e), K, L) <=> Before(s, K, L) \/ (Has(s, K) /\ e[1] \in L)
         /\ Around(Append(s, e), K, L) <=> Around(s, K, L) \/ (Before(s, K, L) /\ e[1] \in K)
<1> DEFINE t == Append(s, e)
           n == Len(s)
<1>1. n \in Nat /\ Len(t) = n + 1 /\ t[n + 1] = e /\ \A i \in 1 .. n : t[i] = s[i]
  BY AppendProperties, LenProperties
<1> HIDE DEF t, n
<1>2. 1 .. Len(t) = (1 .. n) \union {n + 1}
  BY <1>1
<1>3. Has(t, K) <=> Has(s, K) \/ e[1] \in K
  BY <1>1, <1>2 DEF Has, n
<1>4. Before(t, K, L) <=> Before(s, K, L) \/ (Has(s, K) /\ e[1] \in L)
  <2>1. \A i, j \in 1 .. Len(t) : i < j => i \in 1 .. n /\ (j \in 1 .. n \/ j = n + 1)
    BY <1>1, <1>2
  <2>2. Before(t, K, L) => Before(s, K, L) \/ (Has(s, K) /\ e[1] \in L)
    BY <1>1, <2>1 DEF Before, Has, n
  <2>3. Before(s, K, L) => Before(t, K, L)
    BY <1>1, <1>2 DEF Before, n
  <2>4. Has(s, K) /\ e[1] \in L => Before(t, K, L)
    BY <1>1, <1>2 DEF Before, Has, n
  <2>5. QED  BY <2>2, <2>3, <2>4
<1>5. Around(t, K, L) <=> Around(s, K, L) \/ (Before(s, K, L) /\ e[1] \in K)
  <2>1. \A i, j, k \in 1 .. Len(t) : i < j /\ j < k =>
          i \in 1 .. n /\ j \in 1 .. n /\ (k \in 1 .. n \/ k = n + 1)
    BY <1>1, <1>2
  <2>2. Around(t, K, L) => Around(s, K, L) \/ (Before(s, K, L) /\ e[1] \in K)
    BY <1>1, <2>1 DEF Around, Before, n
  <2>3. Around(s, K, L) => Around(t, K, L)
    BY <1>1, <1>2 DEF Around, n
  <2>4. Before(s, K, L) /\ e[1] \in K => Around(t, K, L)
    BY <1>1, <1>2 DEF Around, Before, n
  <2>5. QED  BY <2>2, <2>3, <2>4
<1>6. QED  BY <1>3, <1>4, <1>5 DEF t

\* What the line at the head comes before.
LEMMA ReadLine ==
  ASSUME NEW S, NEW s \in Seq(S), s # <<>>, NEW K, NEW L
  PROVE  /\ Has(s, K) <=> Head(s)[1] \in K \/ Has(Tail(s), K)
         /\ Before(s, K, L) <=> (Head(s)[1] \in K /\ Has(Tail(s), L)) \/ Before(Tail(s), K, L)
         /\ Around(s, K, L) <=> (Head(s)[1] \in K /\ Before(Tail(s), L, K)) \/ Around(Tail(s), K, L)
<1> DEFINE t == Tail(s)
           n == Len(t)
<1>1. n \in Nat /\ Len(s) = n + 1 /\ s[1] = Head(s) /\ \A i \in 1 .. n : t[i] = s[i + 1]
  BY HeadTailProperties, LenProperties
<1> HIDE DEF t, n
<1>2. \A i \in 1 .. Len(s) : i = 1 \/ (i - 1 \in 1 .. n /\ s[i] = t[i - 1])
  BY <1>1
<1>3. \A i \in 1 .. n : i + 1 \in 1 .. Len(s) /\ s[i + 1] = t[i]
  BY <1>1
<1>4. 1 \in 1 .. Len(s)
  BY <1>1
<1>5. Has(s, K) <=> Head(s)[1] \in K \/ Has(t, K)
  <2>1. Has(s, K) => Head(s)[1] \in K \/ Has(t, K)
    BY <1>1, <1>2 DEF Has, n
  <2>2. Head(s)[1] \in K \/ Has(t, K) => Has(s, K)
    BY <1>1, <1>3, <1>4 DEF Has, n
  <2>3. QED  BY <2>1, <2>2
<1>6. Before(s, K, L) <=> (Head(s)[1] \in K /\ Has(t, L)) \/ Before(t, K, L)
  <2>1. ASSUME NEW i \in 1 .. Len(s), NEW j \in 1 .. Len(s), i < j, s[i][1] \in K, s[j][1] \in L
        PROVE  (Head(s)[1] \in K /\ Has(t, L)) \/ Before(t, K, L)
    <3>1. j - 1 \in 1 .. n /\ s[j] = t[j - 1]
      BY <1>1, <1>2, <2>1
    <3>2. CASE i = 1
      BY <1>1, <2>1, <3>1, <3>2 DEF Has, n
    <3>3. CASE i # 1
      <4>1. i - 1 \in 1 .. n /\ s[i] = t[i - 1] /\ i - 1 < j - 1
        BY <1>1, <1>2, <2>1, <3>3
      <4>2. QED  BY <2>1, <3>1, <4>1 DEF Before, n
    <3>4. QED  BY <3>2, <3>3
  <2>2. Head(s)[1] \in K /\ Has(t, L) => Before(s, K, L)
    <3>1. \A i \in 1 .. n : 1 < i + 1
      BY <1>1
    <3>2. QED  BY <1>1, <1>3, <1>4, <3>1 DEF Has, Before, n
  <2>3. ASSUME NEW i \in 1 .. n, NEW j \in 1 .. n, i < j, t[i][1] \in K, t[j][1] \in L
        PROVE  Before(s, K, L)
    <3>1. i + 1 < j + 1
      BY <2>3, <1>1
    <3>2. QED  BY <1>3, <2>3, <3>1 DEF Before
  <2>4. QED  BY <2>1, <2>2, <2>3 DEF Before, n
<1>7. Around(s, K, L) <=> (Head(s)[1] \in K /\ Before(t, L, K)) \/ Around(t, K, L)
  <2>1. ASSUME NEW i \in 1 .. Len(s), NEW j \in 1 .. Len(s), NEW k \in 1 .. Len(s),
               i < j, j < k, s[i][1] \in K, s[j][1] \in L, s[k][1] \in K
        PROVE  (Head(s)[1] \in K /\ Before(t, L, K)) \/ Around(t, K, L)
    <3>1. /\ j - 1 \in 1 .. n /\ s[j] = t[j - 1]
          /\ k - 1 \in 1 .. n /\ s[k] = t[k - 1] /\ j - 1 < k - 1
      BY <1>1, <1>2, <2>1
    <3>2. CASE i = 1
      BY <1>1, <2>1, <3>1, <3>2 DEF Before, n
    <3>3. CASE i # 1
      <4>1. i - 1 \in 1 .. n /\ s[i] = t[i - 1] /\ i - 1 < j - 1
        BY <1>1, <1>2, <2>1, <3>3
      <4>2. QED  BY <2>1, <3>1, <4>1 DEF Around, n
    <3>4. QED  BY <3>2, <3>3
  <2>2. ASSUME Head(s)[1] \in K, NEW j \in 1 .. n, NEW k \in 1 .. n, j < k, t[j][1] \in L, t[k][1] \in K
        PROVE  Around(s, K, L)
    <3>1. 1 < j + 1 /\ j + 1 < k + 1
      BY <2>2, <1>1
    <3>2. QED  BY <1>1, <1>3, <1>4, <2>2, <3>1 DEF Around
  <2>3. ASSUME NEW i \in 1 .. n, NEW j \in 1 .. n, NEW k \in 1 .. n,
               i < j, j < k, t[i][1] \in K, t[j][1] \in L, t[k][1] \in K
        PROVE  Around(s, K, L)
    <3>1. i + 1 < j + 1 /\ j + 1 < k + 1
      BY <2>3, <1>1
    <3>2. QED  BY <1>3, <2>3, <3>1 DEF Around
  <2>4. QED  BY <2>1, <2>2, <2>3 DEF Around, Before, n
<1>8. QED  BY <1>5, <1>6, <1>7 DEF t

-----------------------------------------------------------------------------
(* Agreement.  With prompt replies few lines are under way while a client   *)
(* waits for an answer: a greeting, or proposals, or a refusal, and one of  *)
(* each when both ends repeated theirs at the same moment.  A proposal that *)
(* is under way carries the terms the server has; and when a greeting is    *)
(* still behind it, the server is at its proposal and does not make another *)
(* one of it, so nothing changes the server's terms before the client       *)
(* starts again.                                                            *)

ItsGreetings == Greetings \X Offers \X {Asks}
ItsProposals == {<<p, sTerms, Asks>> : p \in Proposals}
Err          == Word("ERR")

Silent      == toServer = <<>> /\ toClient = <<>>
Heard(line) == toServer = <<line>> /\ toClient = <<>>
Told(line)  == toServer = <<>> /\ toClient = <<line>>

Greeted == due # "client" /\ \E g \in ItsGreetings : Heard(g)
Offered ==
  /\ sPhase = "proposed"
  /\ \E p, q \in ItsProposals :
       \/ due # "server" /\ Told(p)
       \/ due = "none" /\ toServer = <<>> /\ toClient \in {<<p, q>>, <<Err, p>>}
Crossed ==
  /\ sPhase = "proposed" /\ due = "none"
  /\ \E g \in ItsGreetings, p \in ItsProposals : toServer = <<g>> /\ toClient = <<p>>
Refused ==
  /\ sPhase = "listen"
  /\ \/ due # "server" /\ Told(Err)
     \/ /\ due = "none" /\ toServer = <<>>
        /\ \E p, q \in ItsProposals : toClient \in {<<p, Err>>, <<p, q, Err>>}
RefusalCrossed ==
  /\ sPhase = "listen" /\ due = "none"
  /\ \E g \in ItsGreetings : toServer = <<g>> /\ toClient = <<Err>>
GreetedTwice ==
  /\ sPhase = "listen" /\ due = "none"
  /\ \E g, h \in ItsGreetings : toServer = <<g, h>> /\ toClient = <<>>

Greets == Silent \/ Greeted \/ Offered \/ Crossed \/ Refused \/ RefusalCrossed \/ GreetedTwice

Settled == cPhase \in {"who", "connected", "asked", "served"}

\* A greeting a settled client left behind is the next line the server reads.
LeftBehind ==
  Has(toServer, Greetings) =>
    sPhase = "proposed" /\ due = "none" /\ Input[1] \in Greetings /\ ~Has(Tail(toServer), Greetings)

Exchange ==
  setting.prompt =>
    /\ cPhase = "hello" => Greets
    /\ Settled => LeftBehind /\ Accepts(offer, cTerms) /\ (sPhase # "listen" => sTerms = cTerms)

LEMMA SettingStays == [Next]_vars => setting' = setting
  BY DEF Next, vars, world, Dial, Get, ClientStep, ServerStep, LoseLine, OfServer, OfClient,
         HelloTimeout, RecvAnswer, RecvWho, WhoTimeout, RecvAtPrompt, RecvGetReply, GetTimeout,
         TakeReply, NoReply,
         RecvGreeting, RecvNoGreeting, RecvRequest, RecvGreetingAgain, ProposalTimeout,
         RecvHru, RecvIam, IamTimeout, SilenceNoticed, TakeInput, NoInput

\* One line, two and three, read and written.
LEMMA ShortChannels ==
  /\ \A e : Append(<<>>, e) = <<e>> /\ Head(<<e>>) = e /\ Tail(<<e>>) = <<>> /\ <<e>> # <<>>
  /\ \A e, f : /\ Head(<<e, f>>) = e /\ Tail(<<e, f>>) = <<f>> /\ <<e, f>> # <<>>
               /\ <<>> \o <<e, f>> = <<e, f>> /\ Append(<<e>>, f) = <<e, f>>
  /\ \A e, f, g : /\ Head(<<e, f, g>>) = e /\ Tail(<<e, f, g>>) = <<f, g>> /\ <<e, f, g>> # <<>>
                  /\ <<e>> \o <<f, g>> = <<e, f, g>>
<1>1. ASSUME NEW e PROVE Append(<<>>, e) = <<e>> /\ Head(<<e>>) = e /\ Tail(<<e>>) = <<>> /\ <<e>> # <<>>
  OBVIOUS
<1>2. ASSUME NEW e, NEW f PROVE Head(<<e, f>>) = e /\ Tail(<<e, f>>) = <<f>>
  OBVIOUS
<1>3. ASSUME NEW e, NEW f PROVE <<e, f>> # <<>> /\ Append(<<e>>, f) = <<e, f>>
  <2>1. <<e>> \in Seq({e, f}) /\ <<e, f>> \in Seq({e, f}) /\ f \in {e, f}
    OBVIOUS
  <2>2. Len(<<e, f>>) = 2 /\ <<e, f>>[1] = e /\ <<e, f>>[2] = f /\ Len(<<>>) = 0
    OBVIOUS
  <2>3. Append(<<e>>, f) \in Seq({e, f}) /\ Len(Append(<<e>>, f)) = 2
    BY <2>1
  <2>4. Append(<<e>>, f)[1] = e /\ Append(<<e>>, f)[2] = f
    BY <2>1
  <2>5. \A i \in 1 .. 2 : i = 1 \/ i = 2
    OBVIOUS
  <2>6. Append(<<e>>, f) = <<e, f>>
    BY <2>1, <2>2, <2>3, <2>4, <2>5, SeqEqual
  <2>7. QED  BY <2>2, <2>6
<1>4. ASSUME NEW e, NEW f PROVE <<>> \o <<e, f>> = <<e, f>>
  OBVIOUS
<1>5. ASSUME NEW e, NEW f, NEW g
      PROVE  /\ Head(<<e, f, g>>) = e /\ Tail(<<e, f, g>>) = <<f, g>> /\ <<e, f, g>> # <<>>
             /\ <<e>> \o <<f, g>> = <<e, f, g>>
  <2>1. Head(<<e, f, g>>) = e /\ Tail(<<e, f, g>>) = <<f, g>>
    OBVIOUS
  <2>2. /\ <<e>> \in Seq({e, f, g}) /\ <<f, g>> \in Seq({e, f, g}) /\ <<e, f, g>> \in Seq({e, f, g})
        /\ Len(<<e>>) = 1 /\ Len(<<f, g>>) = 2 /\ Len(<<e, f, g>>) = 3 /\ Len(<<>>) = 0
    OBVIOUS
  <2>3. <<e>> \o <<f, g>> \in Seq({e, f, g}) /\ Len(<<e>> \o <<f, g>>) = 3
    BY <2>2
  <2>4. (<<e>> \o <<f, g>>)[1] = e /\ (<<e>> \o <<f, g>>)[2] = f /\ (<<e>> \o <<f, g>>)[3] = g
    BY <2>2
  <2>5. \A i \in 1 .. 3 : i = 1 \/ i = 2 \/ i = 3
    OBVIOUS
  <2>6. <<e, f, g>>[1] = e /\ <<e, f, g>>[2] = f /\ <<e, f, g>>[3] = g
    OBVIOUS
  <2>7. \A i \in 1 .. Len(<<e>> \o <<f, g>>) : (<<e>> \o <<f, g>>)[i] = <<e, f, g>>[i]
    BY <2>3, <2>4, <2>5, <2>6
  <2>8. <<e>> \o <<f, g>> = <<e, f, g>>
    BY <2>2, <2>3, <2>7, SeqEqual
  <2>9. QED  BY <2>1, <2>2, <2>8
<1>6. QED  BY <1>1, <1>2, <1>3, <1>4, <1>5

LEMMA ShortReads ==
  \A s, e, f, g :
    /\ s = <<e>> => s # <<>> /\ Head(s) = e /\ Tail(s) = <<>>
    /\ s = <<e, f>> => s # <<>> /\ Head(s) = e /\ Tail(s) = <<f>>
    /\ s = <<e, f, g>> => s # <<>> /\ Head(s) = e /\ Tail(s) = <<f, g>>
<1>1. ASSUME NEW s, NEW e, s = <<e>> PROVE s # <<>> /\ Head(s) = e /\ Tail(s) = <<>>
  BY <1>1, ShortChannels, Zenon
<1>2. ASSUME NEW s, NEW e, NEW f, s = <<e, f>> PROVE s # <<>> /\ Head(s) = e /\ Tail(s) = <<f>>
  BY <1>2, ShortChannels, Zenon
<1>3. ASSUME NEW s, NEW e, NEW f, NEW g, s = <<e, f, g>> PROVE s # <<>> /\ Head(s) = e /\ Tail(s) = <<f, g>>
  <2>1. <<e, f, g>> # <<>> /\ Head(<<e, f, g>>) = e /\ Tail(<<e, f, g>>) = <<f, g>>
    BY ShortChannels
  <2>2. QED  BY <1>3, <2>1
<1>4. QED  BY <1>1, <1>2, <1>3

-----------------------------------------------------------------------------
(* What can happen while a client that was not answered waits.              *)

GreetsAgain ==
  /\ \E g \in ItsGreetings : toServer' = Append(toServer, g)
  /\ UNCHANGED <<toClient, sPhase, sTerms>>
  /\ (due = "client" /\ due' = "none") \/ (Silent /\ due' # "client")
GreetsOnRefusal ==
  /\ toClient # <<>> /\ Reply[1] \notin Proposals /\ toClient' = Tail(toClient) /\ due' = "none"
  /\ \E g \in ItsGreetings : toServer' = Append(toServer, g)
  /\ UNCHANGED <<sPhase, sTerms>>
Drops ==
  /\ sPhase' = "listen" /\ toServer' = <<>> /\ due' = "none" /\ UNCHANGED <<toClient, sTerms>>
  /\ sPhase = "asked" \/ (sPhase \in {"listen", "session"} /\ toServer # <<>>)
GivesUpAsking ==
  /\ sPhase = "asked" /\ sPhase' = "listen" /\ due' = "none"
  /\ UNCHANGED <<toServer, toClient, sTerms>>
Proposes ==
  /\ sPhase \in {"listen", "session"} /\ toServer # <<>> /\ toServer' = Tail(toServer)
  /\ sPhase' = "proposed" /\ due' = "none"
  /\ \E p \in ItsProposals' : toClient' = Append(toClient, p)
Rereads ==
  /\ sPhase = "proposed" /\ toServer # <<>> /\ toServer' = Tail(toServer)
  /\ due' = "none" /\ sTerms' = sTerms
  /\ \E p \in ItsProposals : \/ sPhase' = "proposed" /\ toClient' = Append(toClient, p)
                             \/ sPhase' = "listen" /\ toClient' = toClient \o <<p, Err>>
ServerRepeats ==
  /\ sPhase = "proposed" /\ UNCHANGED <<toServer, sTerms>>
  /\ (due = "server" /\ due' = "none") \/ (Silent /\ due' # "server")
  /\ \/ sPhase' = "proposed" /\ \E p \in ItsProposals : toClient' = Append(toClient, p)
     \/ sPhase' = "listen" /\ toClient' = Append(toClient, Err)
LosesHead ==
  /\ UNCHANGED <<sPhase, sTerms, due>>
  /\ \/ toServer # <<>> /\ toServer' = Tail(toServer) /\ toClient' = toClient
     \/ toClient # <<>> /\ toClient' = Tail(toClient) /\ toServer' = toServer

\* The lines of a handshake, and what they say.
LEMMA LinesSay ==
  /\ \A line : /\ Heard(line) => toServer # <<>> /\ Input = line /\ Tail(toServer) = <<>> /\ toClient = <<>>
               /\ Told(line) => toClient # <<>> /\ Reply = line /\ Tail(toClient) = <<>> /\ toServer = <<>>
  /\ \A k : Word(k)[1] = k
  /\ \A g, t, a : <<g, t, a>>[1] = g /\ <<g, t, a>>[2] = t /\ <<g, t, a>>[3] = a
  /\ \A g \in ItsGreetings : g[1] \in Greetings /\ g[2] \in Offers /\ g[3] = Asks
  /\ \A p \in ItsProposals : p[1] \in Proposals /\ p[2] = sTerms /\ p[3] = Asks
  /\ Err[1] = "ERR" /\ "ERR" \notin Proposals
<1>1. \A k : Word(k)[1] = k
  BY DEF Word
<1>2. \A g, t, a : <<g, t, a>>[1] = g /\ <<g, t, a>>[2] = t /\ <<g, t, a>>[3] = a
  OBVIOUS
<1>3. \A line : /\ Heard(line) => toServer # <<>> /\ Input = line /\ Tail(toServer) = <<>> /\ toClient = <<>>
                /\ Told(line) => toClient # <<>> /\ Reply = line /\ Tail(toClient) = <<>> /\ toServer = <<>>
  BY ShortChannels DEF Heard, Told, Input, Reply
<1>4. \A g \in ItsGreetings : g[1] \in Greetings /\ g[2] \in Offers /\ g[3] = Asks
  BY DEF ItsGreetings
<1>5. \A p \in ItsProposals : p[1] \in Proposals /\ p[2] = sTerms /\ p[3] = Asks
  BY <1>2 DEF ItsProposals
<1>6. QED  BY <1>1, <1>2, <1>3, <1>4, <1>5 DEF Err, Proposals

LEMMA SameLines ==
  ASSUME HandshakeTypes, [Next]_vars
  PROVE  /\ ItsGreetings' = ItsGreetings /\ Asks' = Asks
         /\ (sTerms' = sTerms => ItsProposals' = ItsProposals)
         /\ \A o \in Offers, w \in Greetings : <<w, o, Asks>> \in ItsGreetings
         /\ offer \in Offers /\ (sPhase # "listen" => identity = Asks)
<1>1. Asks' = Asks
  BY PeerStays, SamePeerSameLines
<1>2. QED
  BY <1>1 DEF ItsGreetings, ItsProposals, HandshakeTypes, VariableTypes, LineTypes

\* The server reads a greeting as long as the client was not answered, and the
\* client a proposal of the terms the server has, or a refusal.
LEMMA GreetingReads ==
  ASSUME Greets
  PROVE  /\ toServer # <<>> => Input \in ItsGreetings
         /\ toClient # <<>> => Reply = Err \/ Reply \in ItsProposals
<1>1. ASSUME toServer # <<>> PROVE Input \in ItsGreetings
  <2>1. PICK g \in ItsGreetings, h \in ItsGreetings : toServer = <<g>> \/ toServer = <<g, h>>
    BY <1>1, Zenon DEF Greets, Silent, Greeted, Heard, Offered, Told, Crossed, Refused, RefusalCrossed, GreetedTwice
  <2>2. Head(toServer) = g
    <3>1. CASE toServer = <<g>>
      BY ONLY <3>1, ShortChannels, Zenon
    <3>2. CASE toServer = <<g, h>>
      BY ONLY <3>2, ShortChannels, Zenon
    <3>3. QED  BY <2>1, <3>1, <3>2
  <2>3. QED  BY <2>2 DEF Input
<1>2. ASSUME toClient # <<>> PROVE Reply = Err \/ Reply \in ItsProposals
  <2>1. PICK p \in ItsProposals, q \in ItsProposals :
          toClient \in {<<Err>>, <<p>>, <<p, q>>, <<Err, p>>, <<p, Err>>, <<p, q, Err>>}
    <3>1. \E r : r \in ItsProposals
      BY DEF ItsProposals, Proposals
    <3>2. QED
      BY <1>2, <3>1, Zenon DEF Greets, Silent, Greeted, Heard, Offered, Told, Crossed, Refused, RefusalCrossed, GreetedTwice
  <2>2. PICK e : e = Err
    OBVIOUS
  <2>3. toClient \in {<<e>>, <<p>>, <<p, q>>, <<e, p>>, <<p, e>>, <<p, q, e>>}
    BY <2>1, <2>2, Zenon
  <2>4. Head(toClient) = e \/ Head(toClient) = p
    BY <2>3, ShortReads
  <2>5. QED  BY <2>2, <2>4 DEF Reply
<1>3. QED  BY <1>1, <1>2

\* Behind a refusal there is nothing, or the proposal to a client that has
\* greeted again.
LEMMA RefusalRead ==
  ASSUME Greets, toClient # <<>>, Reply[1] \notin Proposals
  PROVE  Tail(toClient) = <<>> \/ (sPhase = "proposed" /\ toServer = <<>>)
<1>1. \A p \in ItsProposals : p[1] \in Proposals
  BY LinesSay
<1>2. CASE Offered
  BY <1>2, ShortReads DEF Offered, Told
<1>3. CASE Crossed
  <2>1. PICK p \in ItsProposals : toClient = <<p>>
    BY <1>3 DEF Crossed
  <2>2. QED  BY <2>1, ShortReads
<1>4. CASE Refused
  <2>1. PICK p \in ItsProposals, q \in ItsProposals : toClient \in {<<Err>>, <<p, Err>>, <<p, q, Err>>}
    <3>1. \E r : r \in ItsProposals
      BY DEF ItsProposals, Proposals
    <3>2. QED  BY <1>4, <3>1 DEF Refused, Told
  <2>2. QED  BY <1>1, <2>1, ShortReads DEF Reply
<1>5. CASE RefusalCrossed
  BY <1>5, ShortReads DEF RefusalCrossed
<1>6. CASE Silent \/ Greeted \/ GreetedTwice
  BY <1>6 DEF Silent, Greeted, Heard, GreetedTwice
<1>7. QED  BY <1>2, <1>3, <1>4, <1>5, <1>6 DEF Greets

LEMMA WhileGreeting ==
  ASSUME HandshakeTypes, setting.prompt, Greets, cPhase = "hello", cPhase' = "hello", Next, ~Dial
  PROVE  \/ GreetsAgain \/ GreetsOnRefusal \/ Drops \/ GivesUpAsking
         \/ Proposes \/ Rereads \/ ServerRepeats \/ LosesHead
<1>a. /\ ItsGreetings' = ItsGreetings /\ Asks' = Asks
      /\ \A o \in Offers, w \in Greetings : <<w, o, Asks>> \in ItsGreetings
      /\ offer \in Offers /\ (sPhase # "listen" => identity = Asks)
  BY SameLines
<1>b. toServer # <<>> => Input[1] \in Greetings /\ Input[3] = Asks
  BY GreetingReads, LinesSay
<1>c. \/ HelloTimeout \/ RecvAnswer \/ RecvGreeting \/ RecvNoGreeting \/ RecvRequest
      \/ RecvGreetingAgain \/ ProposalTimeout \/ RecvHru \/ RecvIam \/ IamTimeout \/ LoseLine
  BY DEF Next, ClientStep, ServerStep, Get, RecvWho, WhoTimeout, RecvAtPrompt, RecvGetReply, GetTimeout, SilenceNoticed
<1>d. ~ClientFails
  BY DEF ClientFails
<1>e. Greeting("HELLO?") \in ItsGreetings
  BY <1>a DEF Greeting, Greetings, Asks
<1>1. CASE HelloTimeout
  <2>1. toServer' = Append(toServer, Greeting("HELLO?")) /\ UNCHANGED <<toClient, sPhase, sTerms>>
    BY <1>1, <1>d DEF HelloTimeout, NoReply, HelloAgain, ClientSays, OfClient, serverVars
  <2>2. (due = "client" /\ due' = "none") \/ (Silent /\ due' # "client")
    BY <1>1 DEF HelloTimeout, NoReply, ClientDeadline, Silent
  <2>3. QED  BY <1>e, <2>1, <2>2 DEF GreetsAgain
<1>2. CASE RecvAnswer
  <2>1. /\ toClient # <<>> /\ toClient' = Tail(toClient) /\ due' = "none" /\ UNCHANGED <<sPhase, sTerms>>
        /\ HelloAgain /\ Reply[1] \notin Proposals
    BY <1>2, <1>d DEF RecvAnswer, TakeReply, OfClient, serverVars
  <2>2. QED  BY <1>e, <2>1 DEF GreetsOnRefusal, HelloAgain, ClientSays
<1>3. CASE RecvGreeting
  <2>1. toServer # <<>> /\ sPhase \in {"listen", "session"} /\ due' = "none"
    BY <1>3 DEF RecvGreeting, OfServer
  <2>2. CASE CanServe(Input[2], ServerLimit)
    <3>1. /\ toServer' = Tail(toServer) /\ sPhase' = "proposed" /\ identity' = Asks
          /\ toClient' = Append(toClient, <<IF Input[1] = "HELLO" THEN "HRU?" ELSE "OHRU", sTerms', identity'>>)
      BY <1>3, <1>b, <2>1, <2>2 DEF RecvGreeting, Propose, ServerSays
    <3>2. <<IF Input[1] = "HELLO" THEN "HRU?" ELSE "OHRU", sTerms', identity'>> \in ItsProposals'
      BY <1>a, <3>1 DEF ItsProposals, Proposals
    <3>3. QED  BY <2>1, <3>1, <3>2 DEF Proposes
  <2>3. CASE ~CanServe(Input[2], ServerLimit)
    BY <1>3, <2>1, <2>3 DEF RecvGreeting, Dropped, Drops
  <2>4. QED  BY <2>2, <2>3
<1>4. CASE RecvNoGreeting \/ RecvRequest \/ RecvHru
  <2>1. RecvRequest
    BY <1>4, <1>b DEF RecvNoGreeting, RecvHru, TakeInput
  <2>2. QED  BY <2>1, <1>b DEF RecvRequest
<1>o. sPhase = "proposed" => <<"OHRU", sTerms, identity>> \in ItsProposals
  BY <1>a DEF ItsProposals, Proposals
<1>5. CASE RecvGreetingAgain
  <2>1. toServer # <<>> /\ sPhase = "proposed" /\ toServer' = Tail(toServer) /\ due' = "none" /\ sTerms' = sTerms
    BY <1>5 DEF RecvGreetingAgain, TakeInput, OfServer
  <2>2. \/ sPhase' = "proposed" /\ toClient' = Append(toClient, <<"OHRU", sTerms, identity>>)
        \/ sPhase' = "listen" /\ toClient' = toClient \o <<<<"OHRU", sTerms, identity>>, Err>>
    BY <1>5, <2>1 DEF RecvGreetingAgain, ServerSays, RepeatedTerms, Err
  <2>3. QED  BY <1>o, <2>1, <2>2 DEF Rereads
<1>6. CASE ProposalTimeout
  <2>1. /\ sPhase = "proposed" /\ UNCHANGED <<toServer, sTerms>>
        /\ (due = "server" /\ due' = "none") \/ (Silent /\ due' # "server")
    BY <1>6 DEF ProposalTimeout, NoInput, ServerDeadline, ClientReads, Refuse, Silent
  <2>2. \/ sPhase' = "proposed" /\ toClient' = Append(toClient, <<"OHRU", sTerms, identity>>)
        \/ sPhase' = "listen" /\ toClient' = Append(toClient, Err)
    BY <1>6, <2>1 DEF ProposalTimeout, ServerSays, Refuse, Err
  <2>3. QED  BY <1>o, <2>1, <2>2 DEF ServerRepeats
<1>7. CASE RecvIam
  <2>1. Input[1] \notin {"IAM", "HRU"} /\ sPhase = "asked"
    BY <1>7, <1>b DEF RecvIam, Greetings
  <2>2. QED  BY <1>7, <2>1 DEF RecvIam, OfServer, Dropped, Drops
<1>8. CASE IamTimeout
  BY <1>8 DEF IamTimeout, IamDeadline, OfServer, Dropped, Drops, GivesUpAsking
<1>9. CASE LoseLine
  BY <1>9 DEF LoseLine, serverVars, LosesHead
<1>10. QED  BY <1>c, <1>1, <1>2, <1>3, <1>4, <1>5, <1>6, <1>7, <1>8, <1>9

\* From each state of the exchange to another.
LEMMA GreetsOn ==
  ASSUME HandshakeTypes, [Next]_vars, Greets,
         \/ GreetsAgain \/ GreetsOnRefusal \/ Drops \/ GivesUpAsking
         \/ Proposes \/ Rereads \/ ServerRepeats \/ LosesHead
  PROVE  Greets'
<1>a. ItsGreetings' = ItsGreetings /\ (sTerms' = sTerms => ItsProposals' = ItsProposals) /\ Err' = Err
  BY SameLines DEF Err, Word
<1>b. /\ \A g \in ItsGreetings : g[1] \in Greetings
      /\ \A p \in ItsProposals : p[1] \in Proposals
      /\ Err[1] = "ERR" /\ "ERR" \notin Proposals
  BY LinesSay
<1>1. CASE Silent
  <2>1. toServer = <<>> /\ toClient = <<>>
    BY <1>1 DEF Silent
  <2>2. CASE GreetsAgain
    <3>1. PICK g \in ItsGreetings : toServer' = <<g>>
      BY <2>1, <2>2, ShortChannels, Zenon DEF GreetsAgain
    <3>2. toClient' = <<>> /\ due' # "client"
      BY <2>1, <2>2 DEF GreetsAgain
    <3>3. QED  BY <1>a, <3>1, <3>2 DEF Greets, Greeted, Heard
  <2>3. CASE Drops \/ GivesUpAsking
    BY <2>1, <2>3 DEF Drops, GivesUpAsking, Greets, Silent
  <2>4. CASE ServerRepeats
    <3>1. toServer' = <<>> /\ due' # "server" /\ sTerms' = sTerms
      BY <2>1, <2>4 DEF ServerRepeats
    <3>2. \/ sPhase' = "proposed" /\ \E p \in ItsProposals : toClient' = <<p>>
          \/ sPhase' = "listen" /\ toClient' = <<Err>>
      BY <2>1, <2>4, ShortChannels, Zenon DEF ServerRepeats
    <3>3. QED  BY <1>a, <3>1, <3>2 DEF Greets, Offered, Refused, Told
  <2>5. ~(GreetsOnRefusal \/ Proposes \/ Rereads \/ LosesHead)
    BY <2>1 DEF GreetsOnRefusal, Proposes, Rereads, LosesHead
  <2>6. QED  BY <2>2, <2>3, <2>4, <2>5
<1>2. CASE Greeted
  <2>1. PICK g \in ItsGreetings : toServer = <<g>> /\ toClient = <<>> /\ due # "client"
    BY <1>2 DEF Greeted, Heard
  <2>2. toServer # <<>> /\ Tail(toServer) = <<>> /\ ~Silent
    <3>1. toServer # <<>> /\ Tail(toServer) = <<>>
      BY ONLY <2>1, ShortChannels, Zenon
    <3>2. QED  BY <3>1 DEF Silent
  <2>3. CASE Drops \/ GivesUpAsking
    BY <1>a, <2>1, <2>3 DEF Drops, GivesUpAsking, Greets, Silent, Greeted, Heard
  <2>4. CASE Proposes
    <3>1. PICK p \in ItsProposals' : toClient' = <<p>>
      BY <2>1, <2>4, ShortChannels, Zenon DEF Proposes
    <3>2. sPhase' = "proposed" /\ due' = "none" /\ toServer' = <<>>
      BY <2>2, <2>4 DEF Proposes
    <3>3. QED  BY <3>1, <3>2 DEF Greets, Offered, Told
  <2>5. CASE Rereads
    <3>1. PICK p \in ItsProposals : \/ sPhase' = "proposed" /\ toClient' = <<p>>
                                    \/ sPhase' = "listen" /\ toClient' = <<p, Err>>
      <4>1. toClient = <<>>
        BY <2>1
      <4>2. \A p : Append(toClient, p) = <<p>> /\ toClient \o <<p, Err>> = <<p, Err>>
        BY ONLY <4>1, ShortChannels, Zenon
      <4>3. QED  BY <2>5, <4>2, Zenon DEF Rereads
    <3>2. due' = "none" /\ toServer' = <<>> /\ sTerms' = sTerms
      BY <2>2, <2>5 DEF Rereads
    <3>3. QED  BY <1>a, <3>1, <3>2 DEF Greets, Offered, Refused, Told
  <2>6. CASE ServerRepeats
    <3>1. toServer' = <<g>> /\ due' = "none" /\ sTerms' = sTerms
      BY <2>1, <2>2, <2>6 DEF ServerRepeats
    <3>2. \/ sPhase' = "proposed" /\ \E p \in ItsProposals : toClient' = <<p>>
          \/ sPhase' = "listen" /\ toClient' = <<Err>>
      BY <2>1, <2>6, ShortChannels, Zenon DEF ServerRepeats
    <3>3. QED  BY <1>a, <3>1, <3>2 DEF Greets, Crossed, RefusalCrossed
  <2>7. CASE LosesHead
    BY <2>1, <2>2, <2>7 DEF LosesHead, Greets, Silent
  <2>8. ~(GreetsAgain \/ GreetsOnRefusal)
    BY <2>1, <2>2 DEF GreetsAgain, GreetsOnRefusal
  <2>9. QED  BY <2>3, <2>4, <2>5, <2>6, <2>7, <2>8
<1>3. CASE Offered
  <2>1. PICK p \in ItsProposals, q \in ItsProposals :
          /\ toServer = <<>> /\ sPhase = "proposed"
          /\ \/ due # "server" /\ toClient = <<p>>
             \/ due = "none" /\ toClient \in {<<p, q>>, <<Err, p>>}
    BY <1>3 DEF Offered, Told
  <2>2. PICK e : e = Err
    OBVIOUS
  <2>3. /\ toClient = <<p>> => toClient # <<>> /\ Tail(toClient) = <<>> /\ Head(toClient) = p
        /\ toClient = <<p, q>> => toClient # <<>> /\ Tail(toClient) = <<q>> /\ Head(toClient) = p
        /\ toClient = <<e, p>> => toClient # <<>> /\ Tail(toClient) = <<p>> /\ Head(toClient) = e
    BY ShortReads
  <2>4. toClient # <<>> /\ ~Silent
    BY <2>1, <2>2, <2>3 DEF Silent
  <2>5. CASE GreetsAgain
    <3>1. PICK g \in ItsGreetings : toServer' = <<g>>
      BY <2>1, <2>5, ShortChannels, Zenon DEF GreetsAgain
    <3>2. due = "client" /\ due' = "none" /\ toClient' = toClient /\ UNCHANGED <<sPhase, sTerms>>
      BY <2>4, <2>5 DEF GreetsAgain
    <3>3. toClient = <<p>>
      BY <2>1, <3>2
    <3>4. QED  BY <1>a, <2>1, <3>1, <3>2, <3>3 DEF Greets, Crossed
  <2>6. CASE GreetsOnRefusal
    <3>1. PICK g \in ItsGreetings : toServer' = <<g>>
      BY <2>1, <2>6, ShortChannels, Zenon DEF GreetsOnRefusal
    <3>2. toClient = <<e, p>>
      BY <1>b, <2>1, <2>2, <2>3, <2>6 DEF GreetsOnRefusal, Reply
    <3>3. toClient' = <<p>> /\ due' = "none" /\ UNCHANGED <<sPhase, sTerms>>
      BY <2>3, <2>6, <3>2 DEF GreetsOnRefusal
    <3>4. QED  BY <1>a, <2>1, <3>1, <3>3 DEF Greets, Crossed
  <2>7. CASE LosesHead
    <3>1. toServer' = <<>> /\ toClient' = Tail(toClient) /\ UNCHANGED <<sPhase, sTerms, due>>
      BY <2>1, <2>7 DEF LosesHead
    <3>2. toClient' = <<>> \/ (due = "none" /\ toClient' \in {<<p>>, <<q>>})
      BY <2>1, <2>2, <2>3, <3>1
    <3>3. QED  BY <1>a, <2>1, <3>1, <3>2 DEF Greets, Silent, Offered, Told
  <2>8. ~(Drops \/ GivesUpAsking \/ Proposes \/ Rereads \/ ServerRepeats)
    BY <2>1, <2>4 DEF Drops, GivesUpAsking, Proposes, Rereads, ServerRepeats
  <2>9. QED  BY <2>5, <2>6, <2>7, <2>8
<1>4. CASE Crossed
  <2>1. PICK g \in ItsGreetings, p \in ItsProposals :
          sPhase = "proposed" /\ due = "none" /\ toServer = <<g>> /\ toClient = <<p>>
    BY <1>4 DEF Crossed
  <2>2. /\ toServer # <<>> /\ Tail(toServer) = <<>>
        /\ toClient # <<>> /\ Tail(toClient) = <<>> /\ Head(toClient) = p
    BY ONLY <2>1, ShortChannels, Zenon
  <2>3. CASE Rereads
    <3>1. PICK q \in ItsProposals : \/ sPhase' = "proposed" /\ toClient' = Append(<<p>>, q)
                                    \/ sPhase' = "listen" /\ toClient' = <<p>> \o <<q, Err>>
      BY <2>1, <2>3 DEF Rereads
    <3>p. Append(<<p>>, q) = <<p, q>> /\ <<p>> \o <<q, Err>> = <<p, q, Err>>
      BY ShortChannels
    <3>2. due' = "none" /\ toServer' = <<>> /\ sTerms' = sTerms
      BY <2>2, <2>3 DEF Rereads
    <3>3. QED  BY <1>a, <3>1, <3>p, <3>2 DEF Greets, Offered, Refused, Told
  <2>4. CASE LosesHead
    <3>1. \/ toServer' = <<>> /\ toClient' = <<p>>
          \/ toServer' = <<g>> /\ toClient' = <<>>
      BY <2>1, <2>2, <2>4 DEF LosesHead
    <3>2. QED  BY <1>a, <2>1, <2>4, <3>1 DEF LosesHead, Greets, Offered, Told, Greeted, Heard
  <2>5. ~(GreetsAgain \/ GreetsOnRefusal \/ Drops \/ GivesUpAsking \/ Proposes \/ ServerRepeats)
    BY <1>b, <2>1, <2>2
       DEF GreetsAgain, GreetsOnRefusal, Drops, GivesUpAsking, Proposes, ServerRepeats, Silent, Reply
  <2>6. QED  BY <2>3, <2>4, <2>5
<1>5. CASE Refused
  <2>1. PICK p \in ItsProposals, q \in ItsProposals :
          /\ toServer = <<>> /\ sPhase = "listen"
          /\ \/ due # "server" /\ toClient = <<Err>>
             \/ due = "none" /\ toClient \in {<<p, Err>>, <<p, q, Err>>}
    <3>1. \E r : r \in ItsProposals
      BY DEF ItsProposals, Proposals
    <3>2. QED  BY <1>5, <3>1 DEF Refused, Told
  <2>2. PICK e : e = Err
    OBVIOUS
  <2>3. /\ toClient = <<e>> => toClient # <<>> /\ Tail(toClient) = <<>> /\ Head(toClient) = e
        /\ toClient = <<p, e>> => toClient # <<>> /\ Tail(toClient) = <<e>> /\ Head(toClient) = p
        /\ toClient = <<p, q, e>> => toClient # <<>> /\ Tail(toClient) = <<q, e>> /\ Head(toClient) = p
    BY ShortReads
  <2>4. toClient # <<>> /\ ~Silent
    BY <2>1, <2>2, <2>3 DEF Silent
  <2>5. CASE GreetsAgain
    <3>1. PICK g \in ItsGreetings : toServer' = <<g>>
      BY <2>1, <2>5, ShortChannels, Zenon DEF GreetsAgain
    <3>2. due = "client" /\ due' = "none" /\ toClient' = toClient /\ UNCHANGED <<sPhase, sTerms>>
      BY <2>4, <2>5 DEF GreetsAgain
    <3>3. toClient = <<Err>>
      BY <2>1, <3>2
    <3>4. QED  BY <1>a, <2>1, <3>1, <3>2, <3>3 DEF Greets, RefusalCrossed
  <2>6. CASE GreetsOnRefusal
    <3>1. PICK g \in ItsGreetings : toServer' = <<g>>
      BY <2>1, <2>6, ShortChannels, Zenon DEF GreetsOnRefusal
    <3>2. toClient = <<e>>
      BY <1>b, <2>1, <2>2, <2>3, <2>6 DEF GreetsOnRefusal, Reply
    <3>3. toClient' = <<>> /\ due' = "none"
      BY <2>3, <2>6, <3>2 DEF GreetsOnRefusal
    <3>4. QED  BY <1>a, <3>1, <3>3 DEF Greets, Greeted, Heard
  <2>7. CASE LosesHead
    <3>1. toServer' = <<>> /\ toClient' = Tail(toClient) /\ UNCHANGED <<sPhase, sTerms, due>>
      BY <2>1, <2>7 DEF LosesHead
    <3>2. toClient' = <<>> \/ (due = "none" /\ toClient' \in {<<e>>, <<q, e>>})
      BY <2>1, <2>2, <2>3, <3>1
    <3>3. QED  BY <1>a, <2>1, <2>2, <3>1, <3>2 DEF Greets, Silent, Refused, Told
  <2>8. ~(Drops \/ GivesUpAsking \/ Proposes \/ Rereads \/ ServerRepeats)
    BY <2>1, <2>4 DEF Drops, GivesUpAsking, Proposes, Rereads, ServerRepeats
  <2>9. QED  BY <2>5, <2>6, <2>7, <2>8
<1>6. CASE RefusalCrossed
  <2>1. PICK g \in ItsGreetings : sPhase = "listen" /\ due = "none" /\ toServer = <<g>> /\ toClient = <<Err>>
    BY <1>6 DEF RefusalCrossed
  <2>2. PICK e : e = Err
    OBVIOUS
  <2>3. /\ toServer # <<>> /\ Tail(toServer) = <<>>
        /\ toClient # <<>> /\ Tail(toClient) = <<>>
    BY ONLY <2>1, <2>2, ShortChannels, Zenon
  <2>4. CASE GreetsOnRefusal
    <3>1. PICK h \in ItsGreetings : toServer' = <<g, h>>
      BY <2>1, <2>4, ShortChannels, Zenon DEF GreetsOnRefusal
    <3>2. toClient' = <<>> /\ due' = "none" /\ sPhase' = "listen"
      BY <2>1, <2>3, <2>4 DEF GreetsOnRefusal
    <3>3. QED  BY <1>a, <3>1, <3>2 DEF Greets, GreetedTwice
  <2>5. CASE Drops
    BY <1>a, <2>1, <2>5 DEF Drops, Greets, Refused, Told
  <2>6. CASE Proposes
    <3>1. PICK p \in ItsProposals' : toClient' = Append(toClient, p)
      BY <2>6 DEF Proposes
    <3>2. toClient' = <<e, p>>
      BY ONLY <2>1, <2>2, <3>1, ShortChannels, Zenon
    <3>3. toServer' = <<>> /\ sPhase' = "proposed" /\ due' = "none"
      BY <2>3, <2>6 DEF Proposes
    <3>4. QED  BY <1>a, <2>2, <3>2, <3>3 DEF Greets, Offered
  <2>7. CASE LosesHead
    <3>1. \/ toServer' = <<>> /\ toClient' = <<Err>>
          \/ toServer' = <<g>> /\ toClient' = <<>>
      BY <2>1, <2>3, <2>7 DEF LosesHead
    <3>2. QED  BY <1>a, <2>1, <2>7, <3>1 DEF LosesHead, Greets, Refused, Told, Greeted, Heard
  <2>8. ~(GreetsAgain \/ GivesUpAsking \/ Rereads \/ ServerRepeats)
    BY <2>1, <2>3 DEF GreetsAgain, GivesUpAsking, Rereads, ServerRepeats, Silent
  <2>9. QED  BY <2>4, <2>5, <2>6, <2>7, <2>8
<1>7. CASE GreetedTwice
  <2>1. PICK g \in ItsGreetings, h \in ItsGreetings :
          sPhase = "listen" /\ due = "none" /\ toServer = <<g, h>> /\ toClient = <<>>
    BY <1>7 DEF GreetedTwice
  <2>2. toServer # <<>> /\ Tail(toServer) = <<h>>
    BY ONLY <2>1, ShortChannels, Zenon
  <2>3. CASE Drops
    BY <2>1, <2>3 DEF Drops, Greets, Silent
  <2>4. CASE Proposes
    <3>1. PICK p \in ItsProposals' : toClient' = <<p>>
      BY <2>1, <2>4, ShortChannels, Zenon DEF Proposes
    <3>2. sPhase' = "proposed" /\ due' = "none" /\ toServer' = <<h>>
      BY <2>2, <2>4 DEF Proposes
    <3>3. QED  BY <1>a, <3>1, <3>2 DEF Greets, Crossed
  <2>5. CASE LosesHead
    <3>1. toServer' = <<h>> /\ toClient' = <<>> /\ due' = "none"
      BY <2>1, <2>2, <2>5 DEF LosesHead
    <3>2. QED  BY <1>a, <3>1 DEF Greets, Greeted, Heard
  <2>6. ~(GreetsAgain \/ GreetsOnRefusal \/ GivesUpAsking \/ Rereads \/ ServerRepeats)
    BY <2>1, <2>2 DEF GreetsAgain, GreetsOnRefusal, GivesUpAsking, Rereads, ServerRepeats, Silent
  <2>7. QED  BY <2>3, <2>4, <2>5, <2>6
<1>8. QED  BY <1>1, <1>2, <1>3, <1>4, <1>5, <1>6, <1>7 DEF Greets

\* HRU, IAM and GET are no greetings.
LEMMA NoGreetingAdded ==
  ASSUME toServer \in Seq(ClientLines), NEW k \in {"HRU", "IAM", "GET"}, NEW s \in Seq(ClientLines)
  PROVE  Has(Append(s, Word(k)), Greetings) <=> Has(s, Greetings)
<1>1. Word(k) \in ClientLines /\ Word(k)[1] \notin Greetings
  BY ClientLineFacts DEF Word, Greetings
<1>2. QED  BY <1>1, AddedLine

\* A client that accepts the proposal has the server's terms, and at most one
\* greeting behind, which finds the server at its proposal.
LEMMA SettlesDown ==
  ASSUME HandshakeTypes, Greets, RecvAnswer, Settled'
  PROVE  LeftBehind' /\ Accepts(offer', cTerms') /\ (sPhase' # "listen" => sTerms' = cTerms')
<1>1. /\ toClient # <<>> /\ UNCHANGED <<sPhase, sTerms, offer>> /\ due' = "none"
      /\ Reply[1] \in Proposals /\ Acceptable(Reply[2]) /\ cTerms' = Reply[2]
      /\ toServer' = Append(toServer, Word("HRU"))
  BY DEF RecvAnswer, TakeReply, OfClient, serverVars, Settled, ClientFails, HelloAgain, ClientSays
<1>2. Reply[2] = sTerms
  BY <1>1, GreetingReads, LinesSay
<1>3. Accepts(offer', cTerms') /\ (sPhase' # "listen" => sTerms' = cTerms')
  BY <1>1, <1>2 DEF Acceptable
<1>4. <<>> \in Seq(ClientLines) /\ toServer \in Seq(ClientLines) /\ ~Has(<<>>, Greetings)
  BY EmptySeq, NothingUnderWay DEF HandshakeTypes, LineTypes
<1>5. CASE toServer = <<>>
  <2>1. ~Has(toServer', Greetings)
    BY <1>1, <1>4, <1>5, NoGreetingAdded
  <2>2. QED  BY <1>3, <2>1 DEF LeftBehind
<1>6. CASE Crossed
  <2>1. PICK g \in ItsGreetings : sPhase = "proposed" /\ toServer = <<g>>
    BY <1>6 DEF Crossed
  <2>2. PICK w : w = Word("HRU")
    OBVIOUS
  <2>3. toServer' = <<g, w>>
    <3>1. toServer' = Append(<<g>>, w)
      BY <1>1, <2>1, <2>2
    <3>2. QED  BY ONLY <3>1, ShortChannels, Zenon
  <2>4. Head(toServer') = g /\ Tail(toServer') = <<w>>
    BY ONLY <2>3, ShortChannels, Zenon
  <2>5. <<w>> = Append(<<>>, w)
    BY ShortChannels, Zenon
  <2>6. ~Has(Tail(toServer'), Greetings)
    BY <1>4, <2>2, <2>4, <2>5, NoGreetingAdded
  <2>7. g[1] \in Greetings
    BY LinesSay
  <2>8. QED  BY <1>1, <1>3, <2>1, <2>4, <2>6, <2>7 DEF LeftBehind, Input
<1>7. CASE Greeted \/ RefusalCrossed \/ GreetedTwice
  <2>1. toClient = <<Err>>
    BY <1>1, <1>7 DEF Greeted, Heard, RefusalCrossed, GreetedTwice
  <2>2. Reply = Err
    BY <2>1, ShortChannels, Zenon DEF Reply
  <2>3. QED  BY <1>1, <2>2, LinesSay
<1>8. QED  BY <1>5, <1>6, <1>7 DEF Greets, Silent, Offered, Told, Refused

\* What a settled client was told holds while the server keeps its terms.
LEMMA StaysSettled ==
  ASSUME HandshakeTypes, LeftBehind, Accepts(offer, cTerms), sPhase # "listen" => sTerms = cTerms,
         UNCHANGED <<offer, cTerms, sTerms>>, sPhase' # "listen" => sPhase # "listen",
         \/ toServer' = <<>>
         \/ toServer # <<>> /\ toServer' = Tail(toServer)
         \/ /\ Has(toServer, Greetings) => sPhase' = sPhase /\ due' = "none"
            /\ \/ toServer' = toServer
               \/ \E k \in {"HRU", "IAM", "GET"} : toServer' = Append(toServer, Word(k))
  PROVE  LeftBehind' /\ Accepts(offer', cTerms') /\ (sPhase' # "listen" => sTerms' = cTerms')
<1>1. toServer \in Seq(ClientLines) /\ (toServer # <<>> => Tail(toServer) \in Seq(ClientLines))
      /\ (Has(toServer, Greetings) => toServer # <<>>)
  BY NothingUnderWay, ChannelType DEF HandshakeTypes, LineTypes
<1>2. CASE toServer' = <<>>
  BY <1>2, NothingUnderWay DEF LeftBehind
<1>3. CASE toServer # <<>> /\ toServer' = Tail(toServer)
  <2>1. ~Has(toServer', Greetings)
    <3>1. Has(Tail(toServer), Greetings) => Has(toServer, Greetings)
      BY <1>1, <1>3, ReadLine
    <3>2. QED  BY <1>3, <3>1 DEF LeftBehind
  <2>2. QED  BY <2>1 DEF LeftBehind
<1>4. CASE toServer' = toServer /\ (Has(toServer, Greetings) => sPhase' = sPhase /\ due' = "none")
  BY <1>4 DEF LeftBehind, Input
<1>5. ASSUME NEW k \in {"HRU", "IAM", "GET"}, toServer' = Append(toServer, Word(k)),
             Has(toServer, Greetings) => sPhase' = sPhase /\ due' = "none"
      PROVE  LeftBehind'
  <2>1. Has(toServer', Greetings) <=> Has(toServer, Greetings)
    BY <1>1, <1>5, NoGreetingAdded
  <2>2. ASSUME Has(toServer, Greetings)
        PROVE  Head(toServer') = Input /\ ~Has(Tail(toServer'), Greetings)
    <3>1. toServer # <<>> /\ ~Has(Tail(toServer), Greetings)
      BY <1>1, <2>2 DEF LeftBehind
    <3>2. ASSUME NEW S, NEW s \in Seq(S), s # <<>>, NEW e \in S
          PROVE  Head(Append(s, e)) = Head(s) /\ Tail(Append(s, e)) = Append(Tail(s), e)
      BY <3>2
    <3>3. Word(k) \in ClientLines
      BY ClientLineFacts
    <3>4. Head(toServer') = Head(toServer) /\ Tail(toServer') = Append(Tail(toServer), Word(k))
      <4>1. toServer' = Append(toServer, Word(k)) /\ toServer \in Seq(ClientLines)
        BY <1>1, <1>5
      <4>2. QED  BY <3>1, <3>2, <3>3, <4>1
    <3>5. QED  BY <1>1, <3>1, <3>4, NoGreetingAdded DEF Input
  <2>3. QED  BY <1>5, <2>1, <2>2 DEF LeftBehind, Input
<1>6. QED  BY <1>2, <1>3, <1>4, <1>5

LEMMA ExchangeKept == HandshakeTypes /\ Exchange /\ [Next]_vars => Exchange'
<1> SUFFICES ASSUME HandshakeTypes, Exchange, [Next]_vars, setting.prompt PROVE Exchange'
  BY SettingStays DEF Exchange
<1>a. /\ cPhase = "hello" => Greets
      /\ Settled => LeftBehind /\ Accepts(offer, cTerms) /\ (sPhase # "listen" => sTerms = cTerms)
  BY DEF Exchange
<1>b. Has(toServer, Greetings) => toServer # <<>>
  BY NothingUnderWay
<1>1. CASE Dial
  <2>1. toServer = <<>> /\ toServer' = <<Greeting("HELLO")'>> /\ toClient' = <<>> /\ cPhase' = "hello" /\ due' = "none"
    BY <1>1, ShortChannels DEF Dial, ClientSays
  <2>2. Greeting("HELLO")' \in ItsGreetings'
    BY <1>1, PeerStays DEF Dial, Greeting, ItsGreetings, Greetings, Asks
  <2>3. QED  BY <2>1, <2>2 DEF Exchange, Greets, Greeted, Heard, Settled
<1>2. CASE Next /\ ~Dial /\ cPhase = "hello"
  <2>1. ASSUME cPhase' = "hello" PROVE Greets'
    BY <1>2, <1>a, <2>1, WhileGreeting, GreetsOn
  <2>2. ASSUME Settled'
        PROVE  LeftBehind' /\ Accepts(offer', cTerms') /\ (sPhase' # "listen" => sTerms' = cTerms')
    <3>1. RecvAnswer
      BY <1>2, <2>2 DEF Next, ClientStep, ServerStep, Settled, Get, HelloTimeout, HelloAgain, ClientFails, RecvWho, WhoTimeout,
           RecvAtPrompt, RecvGetReply, GetTimeout, RecvGreeting, RecvNoGreeting, RecvRequest, RecvGreetingAgain,
           ProposalTimeout, RecvHru, RecvIam, IamTimeout, SilenceNoticed, LoseLine, OfServer, TakeInput, NoInput, clientVars
    <3>2. QED  BY <1>2, <1>a, <2>2, <3>1, SettlesDown
  <2>3. QED  BY <2>1, <2>2 DEF Exchange
<1>3. ASSUME Next, ~Dial, cPhase # "hello", Settled'
      PROVE  LeftBehind' /\ Accepts(offer', cTerms') /\ (sPhase' # "listen" => sTerms' = cTerms')
  <2>1. CASE Get \/ RecvWho \/ WhoTimeout \/ RecvAtPrompt \/ RecvGetReply \/ GetTimeout
    <3>1. /\ Settled /\ UNCHANGED <<offer, cTerms, sTerms, sPhase>>
          /\ toServer' = toServer \/ \E k \in {"HRU", "IAM", "GET"} : toServer' = Append(toServer, Word(k))
      BY <1>3, <2>1 DEF Get, RecvWho, WhoTimeout, RecvAtPrompt, RecvGetReply, GetTimeout, TakeReply, NoReply, OfClient,
           serverVars, clientVars, ClientFails, HruAgain, Connected, ClientSays, Settled
    <3>2. ASSUME Has(toServer, Greetings) PROVE due' = "none"
      BY <1>a, <1>b, <2>1, <3>1, <3>2 DEF LeftBehind, Get, RecvWho, WhoTimeout, RecvAtPrompt, RecvGetReply, GetTimeout,
           TakeReply, NoReply, ClientDeadline
    <3>3. QED  BY <1>a, <3>1, <3>2, StaysSettled
  <2>2. CASE \/ RecvGreeting \/ RecvNoGreeting \/ RecvRequest \/ RecvGreetingAgain \/ RecvHru \/ RecvIam
    <3>1. /\ Settled /\ UNCHANGED <<offer, cTerms>> /\ toServer # <<>> /\ toServer' \in {<<>>, Tail(toServer)}
      BY <1>3, <2>2 DEF RecvGreeting, RecvNoGreeting, RecvRequest, RecvGreetingAgain, RecvHru, RecvIam, TakeInput,
           OfServer, clientVars, Dropped, Settled
    <3>2. ~RecvGreeting
      <4>1. ASSUME RecvGreeting PROVE FALSE
        <5>1. Input[1] \in Greetings /\ sPhase # "proposed" /\ toServer \in Seq(ClientLines)
          BY <4>1 DEF RecvGreeting, HandshakeTypes, LineTypes
        <5>2. Has(toServer, Greetings)
          BY <3>1, <5>1, ReadLine DEF Input
        <5>3. QED  BY <1>a, <3>1, <5>1, <5>2 DEF LeftBehind
      <4>2. QED  BY <4>1
    <3>3. sTerms' = sTerms /\ (sPhase' # "listen" => sPhase # "listen")
      BY <2>2, <3>2 DEF RecvNoGreeting, RecvRequest, RecvGreetingAgain, RecvHru, RecvIam, Refuse, Dropped, serverVars
    <3>4. QED  BY <1>a, <3>1, <3>3, StaysSettled
  <2>3. CASE ProposalTimeout \/ IamTimeout
    <3>1. Settled /\ UNCHANGED <<offer, cTerms, sTerms>> /\ sPhase # "listen" /\ toServer' \in {<<>>, toServer}
      BY <1>3, <2>3 DEF ProposalTimeout, NoInput, IamTimeout, IamDeadline, OfServer, clientVars, Dropped, Refuse, Settled
    <3>2. ~Has(toServer, Greetings)
      BY <1>a, <1>b, <2>3, <3>1 DEF LeftBehind, ProposalTimeout, NoInput, ServerDeadline, IamTimeout, IamDeadline
    <3>3. QED  BY <1>a, <3>1, <3>2, StaysSettled
  <2>4. CASE LoseLine
    <3>1. /\ Settled /\ UNCHANGED <<offer, cTerms, sTerms, sPhase, due>>
          /\ toServer' = toServer \/ (toServer # <<>> /\ toServer' = Tail(toServer))
      BY <1>3, <2>4 DEF LoseLine, clientVars, serverVars, Settled
    <3>2. QED  BY <1>a, <3>1, StaysSettled DEF LeftBehind
  <2>5. ~(HelloTimeout \/ RecvAnswer \/ SilenceNoticed)
    BY <1>3 DEF HelloTimeout, RecvAnswer, SilenceNoticed, OfServer, clientVars, Settled
  <2>6. QED  BY <1>3, <2>1, <2>2, <2>3, <2>4, <2>5 DEF Next, ClientStep, ServerStep
<1>4. ASSUME Next, ~Dial, cPhase # "hello" PROVE cPhase' # "hello"
  BY <1>4 DEF Next, ClientStep, ServerStep, Get, HelloTimeout, RecvAnswer, RecvWho, WhoTimeout, RecvAtPrompt, RecvGetReply,
       GetTimeout, ClientFails, HruAgain, Connected, RecvGreeting, RecvNoGreeting, RecvRequest, RecvGreetingAgain,
       ProposalTimeout, RecvHru, RecvIam, IamTimeout, SilenceNoticed, LoseLine, OfServer, TakeInput, NoInput, clientVars
<1>5. CASE UNCHANGED vars
  <2>1. /\ UNCHANGED <<clientVars, sPhase, sTerms, toServer, toClient, due>>
        /\ ItsGreetings' = ItsGreetings /\ ItsProposals' = ItsProposals /\ Err' = Err
    BY <1>5, SameLines DEF vars, serverVars, Err, Word
  <2>2. Greets => Greets'
    BY <2>1 DEF Greets, Silent, Greeted, Heard, Offered, Told, Crossed, Refused, RefusalCrossed, GreetedTwice
  <2>3. LeftBehind' <=> LeftBehind
    BY <2>1 DEF LeftBehind, Input
  <2>4. QED  BY <1>a, <2>1, <2>2, <2>3 DEF Exchange, Settled, clientVars
<1>6. QED  BY <1>1, <1>2, <1>3, <1>4, <1>5 DEF Exchange

LEMMA ExchangeIsKept == Spec => []Exchange
<1>1. Init => Exchange
  BY DEF Init, Exchange, Settled
<1>2. QED  BY <1>1, ExchangeKept, TypesAreKept, PTL DEF Spec

\* A client that is through and a server in session have the same terms,
\* whatever was lost, however often the proposal was repeated and although a
\* client may have been started again with another offer in the middle of it.
THEOREM BothAgree == Spec => []Agreement
<1>1. Exchange => Agreement
  BY DEF Exchange, Agreement, Recoverable, Settled
<1>2. QED  BY <1>1, ExchangeIsKept, PTL

\* A set of numbers that has an element has a least one.
LEMMA LeastNumber ==
  ASSUME NEW T \in SUBSET Nat, T # {}
  PROVE  \E x \in T : \A y \in T : x <= y
<1>1. PICK x \in T : \A y \in T : ~(<<y, x>> \in OpToRel(<, Nat))
  BY NatLessThanWellFounded, WFMin, Zenon
<1>2. \A y \in T : y < x => <<y, x>> \in OpToRel(<, Nat)
  BY DEF OpToRel
<1>3. \A y \in T : ~(y < x)
  BY <1>1, <1>2, Zenon
<1>4. \A y \in T : x <= y
  BY <1>3, T \in SUBSET Nat
<1>5. QED  BY <1>4

LEMMA CostIsNatural ==
  ASSUME NEW size \in Nat, NEW n \in Nat \ {0}
  PROVE  CostOf(size, n) \in Nat
<1>1. size + n - 1 \in Nat
  OBVIOUS
<1>2. Frames(size, n) \in Nat
  BY <1>1, DivisionBounds DEF Frames
<1>3. Minimum(size, n) \in Nat
  BY DEF Minimum
<1>4. Frames(size, n) * FrameCost \in Nat /\ Minimum(size, n) * ByteCost \in Nat
  BY <1>2, <1>3, NegotiationAssumption
<1>5. QED  BY <1>4 DEF CostOf

\* choose_block finds the cheapest size, the smaller of two that cost the
\* same, and no size is above the limit.
LEMMA ChosenBlock ==
  ASSUME NEW size \in Nat, NEW limit \in Nat \ {0}, NEW window
  PROVE  ChooseBlock(size, limit, window) \in Nat /\ ChooseBlock(size, limit, window) <= limit
<1> DEFINE C == Candidates(limit)
           Cheapest(n) == \A k \in C : \/ CostOf(size, n) < CostOf(size, k)
                                       \/ CostOf(size, n) = CostOf(size, k) /\ n <= k
<1>1. limit \in C /\ \A n \in C : n \in Nat \ {0} /\ n <= limit
  BY NegotiationAssumption DEF Candidates
<1>2. \A n \in C : CostOf(size, n) \in Nat
  BY <1>1, CostIsNatural
<1>3. PICK c \in {CostOf(size, n) : n \in C} : \A d \in {CostOf(size, n) : n \in C} : c <= d
  <2>1. {CostOf(size, n) : n \in C} \in SUBSET Nat /\ {CostOf(size, n) : n \in C} # {}
    BY <1>1, <1>2
  <2>2. QED  BY <2>1, LeastNumber
<1>4. PICK n \in {n \in C : CostOf(size, n) = c} : \A k \in {k \in C : CostOf(size, k) = c} : n <= k
  <2>1. {k \in C : CostOf(size, k) = c} \in SUBSET Nat /\ {k \in C : CostOf(size, k) = c} # {}
    BY <1>1, <1>3
  <2>2. QED  BY <2>1, LeastNumber
<1>5. n \in C /\ Cheapest(n)
  <2>1. ASSUME NEW k \in C
        PROVE  CostOf(size, n) < CostOf(size, k) \/ (CostOf(size, n) = CostOf(size, k) /\ n <= k)
    <3>1. c <= CostOf(size, k) /\ CostOf(size, n) = c /\ CostOf(size, k) \in Nat /\ c \in Nat
      BY <1>2, <1>3, <1>4
    <3>2. CostOf(size, k) = c => n <= k
      BY <1>4
    <3>3. QED  BY <3>1, <3>2
  <2>2. QED  BY <2>1, <1>4
<1>6. (CHOOSE m \in C : Cheapest(m)) \in C
  BY <1>5, Zenon
<1>7. window # 1 => ChooseBlock(size, limit, window) \in C
  BY <1>6 DEF ChooseBlock
<1>8. window = 1 => ChooseBlock(size, limit, window) = limit
  BY DEF ChooseBlock
<1>9. QED  BY <1>1, <1>7, <1>8

\* A server that proposed something proposed blocks of some size.
SizedTerms == sPhase # "listen" => sTerms.maxblk # 0

LEMMA SizedTermsKept == HandshakeTypes /\ SizedTerms /\ [Next]_vars => SizedTerms'
<1> SUFFICES ASSUME HandshakeTypes, SizedTerms, [Next]_vars PROVE SizedTerms'
  OBVIOUS
<1>1. CASE RecvGreeting
  <2>1. CASE CanServe(Input[2], ServerLimit)
    <3>1. Input[2] \in Offer /\ sTerms' = Proposed(Input[2], ServerLimit)
      BY <1>1, <2>1, LinesInHand, HandshakeAssumption DEF RecvGreeting, Propose
    <3>2. sTerms'.maxblk = BlockLimit(Input[2], ServerLimit)
      BY <3>1 DEF Proposed
    <3>3. QED  BY <3>1, <3>2, ProposedTypes, HandshakeAssumption DEF SizedTerms
  <2>2. CASE ~CanServe(Input[2], ServerLimit)
    BY <1>1, <2>2 DEF RecvGreeting, Dropped, SizedTerms
  <2>3. QED  BY <2>1, <2>2
<1>2. CASE Dial \/ Get \/ ClientStep \/ LoseLine \/ UNCHANGED vars
  BY <1>2 DEF SizedTerms, Dial, Get, ClientStep, LoseLine, vars, serverVars, OfClient,
       HelloTimeout, RecvAnswer, RecvWho, WhoTimeout, RecvAtPrompt, RecvGetReply, GetTimeout, TakeReply, NoReply
<1>3. CASE \/ RecvNoGreeting \/ RecvRequest \/ RecvGreetingAgain \/ ProposalTimeout
           \/ RecvHru \/ RecvIam \/ IamTimeout \/ SilenceNoticed
  BY <1>3 DEF SizedTerms, serverVars, RecvNoGreeting, RecvRequest, RecvGreetingAgain, ProposalTimeout,
       RecvHru, RecvIam, IamTimeout, IamDeadline, SilenceNoticed, Refuse, Dropped
<1>4. QED  BY <1>1, <1>2, <1>3 DEF Next, ServerStep

LEMMA SizedTermsAreKept == Spec => []SizedTerms
<1>1. Init => SizedTerms
  BY DEF Init, SizedTerms
<1>2. QED  BY <1>1, SizedTermsKept, TypesAreKept, PTL DEF Spec

\* What the server keeps under way in a session fits into the buffer of the
\* client at the other end, for every file and whatever block choose_block
\* takes for it, also when another client was started in between.
THEOREM FlightsFit == Spec => []FlightFits
<1>1. HandshakeTypes /\ Exchange /\ SizedTerms => FlightFits
  <2> SUFFICES ASSUME HandshakeTypes, Exchange, SizedTerms, Recoverable,
                      cPhase \in {"connected", "asked", "served"}, sPhase = "session",
                      NEW size \in FileSizes, NEW block \in BlocksFor(size, sTerms)
               PROVE  sTerms.window * (block + FrameOverhead) <= offer.rxbuf
    BY DEF FlightFits
  <2>1. sTerms = cTerms /\ Accepts(offer, cTerms)
    BY DEF Exchange, Settled, Recoverable
  <2>2. sTerms.window \in Nat /\ sTerms.maxblk \in Nat \ {0} /\ offer.rxbuf \in Nat
        /\ FrameOverhead \in Nat /\ size \in Nat
    BY HandshakeAssumption, NegotiationAssumption DEF HandshakeTypes, VariableTypes, SizedTerms, Terms, Offer
  <2>3. block \in Nat /\ block <= sTerms.maxblk
    BY <2>2, ChosenBlock DEF BlocksFor
  <2>4. sTerms.window * (sTerms.maxblk + FrameOverhead) <= offer.rxbuf
    BY <2>1 DEF Accepts
  <2> DEFINE w == sTerms.window
             b == sTerms.maxblk
  <2>5. w * (block + FrameOverhead) <= w * (b + FrameOverhead)
    <3>1. block + FrameOverhead \in Nat /\ b + FrameOverhead \in Nat
          /\ block + FrameOverhead <= b + FrameOverhead
      BY <2>2, <2>3
    <3>2. QED  BY <2>2, <3>1, ProductGrows
  <2>6. w * (block + FrameOverhead) \in Nat /\ w * (b + FrameOverhead) \in Nat
    BY <2>2, <2>3
  <2>7. QED  BY <2>2, <2>4, <2>5, <2>6
<1>2. QED  BY <1>1, TypesAreKept, ExchangeIsKept, SizedTermsAreKept, PTL

-----------------------------------------------------------------------------
(* Turns.  A client that was proposed to and has not answered WHO? has no   *)
(* IAM under way, so the server cannot enter a session.  That an IAM of an  *)
(* earlier start is gone by then is what the order of the lines gives: no   *)
(* greeting is ahead of an IAM, unless the server will discard them both.   *)
(* PCUTP.BAS greets once more when the answer is not a proposal, which can  *)
(* put a greeting between the two; with prompt replies it cannot.           *)

Pending ==
  \/ cPhase = "who"
  \/ cPhase = "hello" /\ Has(toClient, Proposals)

WhoIsDue ==
  \/ cPhase = "who" /\ Has(toClient, {"WHO?"})
  \/ cPhase = "hello" /\ Before(toClient, Proposals, {"WHO?"})

Turns ==
  Asks /\ (Basic => setting.prompt) =>
    /\ Pending => sPhase # "session" /\ ~Has(toServer, {"IAM"})
    /\ Before(toServer, Greetings, {"IAM"}) => sPhase = "asked"
    /\ ~Around(toServer, {"IAM"}, Greetings)
    /\ WhoIsDue => sPhase # "proposed" /\ (Has(toServer, Greetings) => sPhase = "asked")
    /\ WhoIsDue => due # "client"
    /\ due = "server" => toClient = <<>> /\ ~Has(toServer, {"IAM"})

\* Reading from a channel brings no lines into another order.
LEMMA ReadingKeepsOrder ==
  ASSUME NEW S, NEW s \in Seq(S), s # <<>>, NEW K, NEW L
  PROVE  /\ Has(Tail(s), K) => Has(s, K)
         /\ Before(Tail(s), K, L) => Before(s, K, L)
         /\ Around(Tail(s), K, L) => Around(s, K, L)
         /\ Head(s)[1] \in K => /\ Has(s, K)
                                /\ Has(Tail(s), L) => Before(s, K, L)
                                /\ Before(Tail(s), L, K) => Around(s, K, L)
  BY ReadLine

LEMMA AheadMeansThere ==
  ASSUME NEW s, NEW K, NEW L, Before(s, K, L)
  PROVE  Has(s, K) /\ Has(s, L)
  BY DEF Before, Has

LEMMA OrderOfServerInput ==
  ASSUME HandshakeTypes
  PROVE  /\ toServer # <<>> =>
              /\ Has(Tail(toServer), Greetings) => Has(toServer, Greetings)
              /\ Has(Tail(toServer), {"IAM"}) => Has(toServer, {"IAM"})
              /\ Before(Tail(toServer), Greetings, {"IAM"}) => Before(toServer, Greetings, {"IAM"})
              /\ Around(Tail(toServer), {"IAM"}, Greetings) => Around(toServer, {"IAM"}, Greetings)
              /\ Input[1] \in Greetings =>
                   /\ Has(toServer, Greetings)
                   /\ Has(Tail(toServer), {"IAM"}) => Before(toServer, Greetings, {"IAM"})
              /\ Input[1] = "IAM" =>
                   /\ Has(toServer, {"IAM"})
                   /\ Before(Tail(toServer), Greetings, {"IAM"}) => Around(toServer, {"IAM"}, Greetings)
         /\ \A l \in ClientLines :
              /\ Has(Append(toServer, l), Greetings) <=> Has(toServer, Greetings) \/ l[1] \in Greetings
              /\ Has(Append(toServer, l), {"IAM"}) <=> Has(toServer, {"IAM"}) \/ l[1] = "IAM"
              /\ Before(Append(toServer, l), Greetings, {"IAM"}) <=>
                   Before(toServer, Greetings, {"IAM"}) \/ (Has(toServer, Greetings) /\ l[1] = "IAM")
              /\ Around(Append(toServer, l), {"IAM"}, Greetings) =>
                   Around(toServer, {"IAM"}, Greetings) \/ (Has(toServer, {"IAM"}) /\ l[1] = "IAM")
<1>1. toServer \in Seq(ClientLines)
  BY DEF HandshakeTypes, LineTypes
<1>2. ASSUME toServer # <<>>
      PROVE  /\ Has(Tail(toServer), Greetings) => Has(toServer, Greetings)
             /\ Has(Tail(toServer), {"IAM"}) => Has(toServer, {"IAM"})
             /\ Before(Tail(toServer), Greetings, {"IAM"}) => Before(toServer, Greetings, {"IAM"})
             /\ Around(Tail(toServer), {"IAM"}, Greetings) => Around(toServer, {"IAM"}, Greetings)
             /\ Input[1] \in Greetings =>
                  /\ Has(toServer, Greetings)
                  /\ Has(Tail(toServer), {"IAM"}) => Before(toServer, Greetings, {"IAM"})
             /\ Input[1] = "IAM" =>
                  /\ Has(toServer, {"IAM"})
                  /\ Before(Tail(toServer), Greetings, {"IAM"}) => Around(toServer, {"IAM"}, Greetings)
  BY <1>1, <1>2, ReadingKeepsOrder DEF Input
<1>3. ASSUME NEW l \in ClientLines
      PROVE  /\ Has(Append(toServer, l), Greetings) <=> Has(toServer, Greetings) \/ l[1] \in Greetings
             /\ Has(Append(toServer, l), {"IAM"}) <=> Has(toServer, {"IAM"}) \/ l[1] = "IAM"
             /\ Before(Append(toServer, l), Greetings, {"IAM"}) <=>
                  Before(toServer, Greetings, {"IAM"}) \/ (Has(toServer, Greetings) /\ l[1] = "IAM")
  BY <1>1, AddedLine
<1>4. ASSUME NEW l \in ClientLines
      PROVE  Around(Append(toServer, l), {"IAM"}, Greetings) =>
               Around(toServer, {"IAM"}, Greetings) \/ (Has(toServer, {"IAM"}) /\ l[1] = "IAM")
  BY <1>1, AddedLine, AheadMeansThere
<1>5. QED  BY <1>2, <1>3, <1>4

LEMMA OrderOfReplies ==
  ASSUME HandshakeTypes
  PROVE  /\ toClient # <<>> =>
              /\ Has(Tail(toClient), Proposals) => Has(toClient, Proposals)
              /\ Has(Tail(toClient), {"WHO?"}) => Has(toClient, {"WHO?"})
              /\ Before(Tail(toClient), Proposals, {"WHO?"}) => Before(toClient, Proposals, {"WHO?"})
              /\ Reply[1] \in Proposals =>
                   /\ Has(toClient, Proposals)
                   /\ Has(Tail(toClient), {"WHO?"}) => Before(toClient, Proposals, {"WHO?"})
              /\ Reply[1] = "WHO?" => Has(toClient, {"WHO?"})
         /\ \A k \in {"ERR", "FETCHING", "WHO?"} :
              /\ Has(Append(toClient, Word(k)), Proposals) => Has(toClient, Proposals)
              /\ k # "WHO?" =>
                   /\ Has(Append(toClient, Word(k)), {"WHO?"}) => Has(toClient, {"WHO?"})
                   /\ Before(Append(toClient, Word(k)), Proposals, {"WHO?"}) =>
                        Before(toClient, Proposals, {"WHO?"})
         /\ \A p \in Proposals, t \in Terms :
              LET l == <<p, t, Asks>>
              IN  /\ Has(Append(toClient, l), {"WHO?"}) => Has(toClient, {"WHO?"})
                  /\ Before(Append(toClient, l), Proposals, {"WHO?"}) => Before(toClient, Proposals, {"WHO?"})
                  /\ Has(toClient \o <<l, Word("ERR")>>, {"WHO?"}) => Has(toClient, {"WHO?"})
                  /\ Before(toClient \o <<l, Word("ERR")>>, Proposals, {"WHO?"}) =>
                       Before(toClient, Proposals, {"WHO?"})
<1>1. toClient \in Seq(ServerLines)
  BY DEF HandshakeTypes, LineTypes
<1>2. ASSUME toClient # <<>>
      PROVE  /\ Has(Tail(toClient), Proposals) => Has(toClient, Proposals)
             /\ Has(Tail(toClient), {"WHO?"}) => Has(toClient, {"WHO?"})
             /\ Before(Tail(toClient), Proposals, {"WHO?"}) => Before(toClient, Proposals, {"WHO?"})
             /\ Reply[1] \in Proposals =>
                  /\ Has(toClient, Proposals)
                  /\ Has(Tail(toClient), {"WHO?"}) => Before(toClient, Proposals, {"WHO?"})
             /\ Reply[1] = "WHO?" => Has(toClient, {"WHO?"})
  BY <1>1, <1>2, ReadingKeepsOrder DEF Reply
<1>3. ASSUME NEW s \in Seq(ServerLines), NEW l \in ServerLines, l[1] # "WHO?"
      PROVE  /\ Has(Append(s, l), {"WHO?"}) => Has(s, {"WHO?"})
             /\ Before(Append(s, l), Proposals, {"WHO?"}) => Before(s, Proposals, {"WHO?"})
             /\ Append(s, l) \in Seq(ServerLines)
  BY <1>3, AddedLine, ChannelType
<1>4. ASSUME NEW k \in {"ERR", "FETCHING", "WHO?"}
      PROVE  /\ Word(k) \in ServerLines /\ Word(k)[1] = k
             /\ Has(Append(toClient, Word(k)), Proposals) => Has(toClient, Proposals)
  <2>1. Word(k) \in ServerLines /\ Word(k)[1] = k /\ k \notin Proposals
    BY ServerLineFacts DEF Word, Proposals
  <2>2. QED  BY <1>1, <2>1, AddedLine
<1>5. ASSUME NEW p \in Proposals, NEW t \in Terms
      PROVE  LET l == <<p, t, Asks>>
             IN  /\ l \in ServerLines /\ l[1] # "WHO?"
                 /\ toClient \o <<l, Word("ERR")>> = Append(Append(toClient, l), Word("ERR"))
  <2>1. <<p, t, Asks>> \in ServerLines /\ Word("ERR") \in ServerLines /\ <<p, t, Asks>>[1] # "WHO?"
    BY ServerLineFacts DEF Proposals
  <2>2. ASSUME NEW l \in ServerLines, NEW m \in ServerLines
        PROVE  toClient \o <<l, m>> = Append(Append(toClient, l), m)
    BY <1>1
  <2>3. QED  BY <2>1, <2>2
<1>6. ASSUME NEW k \in {"ERR", "FETCHING", "WHO?"}, k # "WHO?"
      PROVE  /\ Has(Append(toClient, Word(k)), {"WHO?"}) => Has(toClient, {"WHO?"})
             /\ Before(Append(toClient, Word(k)), Proposals, {"WHO?"}) =>
                  Before(toClient, Proposals, {"WHO?"})
  BY <1>1, <1>3, <1>4, <1>6
<1>7. ASSUME NEW p \in Proposals, NEW t \in Terms
      PROVE  LET l == <<p, t, Asks>>
             IN  /\ Has(Append(toClient, l), {"WHO?"}) => Has(toClient, {"WHO?"})
                 /\ Before(Append(toClient, l), Proposals, {"WHO?"}) => Before(toClient, Proposals, {"WHO?"})
                 /\ Has(toClient \o <<l, Word("ERR")>>, {"WHO?"}) => Has(toClient, {"WHO?"})
                 /\ Before(toClient \o <<l, Word("ERR")>>, Proposals, {"WHO?"}) =>
                      Before(toClient, Proposals, {"WHO?"})
  <2> DEFINE l == <<p, t, Asks>>
             s == Append(toClient, l)
  <2>1. /\ l \in ServerLines /\ l[1] # "WHO?"
        /\ toClient \o <<l, Word("ERR")>> = Append(s, Word("ERR"))
    BY <1>5
  <2>2. Word("ERR") \in ServerLines /\ Word("ERR")[1] # "WHO?"
    BY <1>4
  <2> HIDE DEF l
  <2>3. /\ Has(s, {"WHO?"}) => Has(toClient, {"WHO?"})
        /\ Before(s, Proposals, {"WHO?"}) => Before(toClient, Proposals, {"WHO?"})
        /\ s \in Seq(ServerLines)
    BY <1>1, <1>3, <2>1
  <2> HIDE DEF s
  <2>4. /\ Has(Append(s, Word("ERR")), {"WHO?"}) => Has(s, {"WHO?"})
        /\ Before(Append(s, Word("ERR")), Proposals, {"WHO?"}) => Before(s, Proposals, {"WHO?"})
    BY <1>3, <2>2, <2>3
  <2>5. QED  BY <2>1, <2>3, <2>4 DEF s, l
<1>8. QED  BY <1>2, <1>4, <1>6, <1>7

\* The second of two deadlines passes only before the line that would be late
\* for it: neither a WHO? nor an IAM is under way then.
LEMMA SecondDeadline ==
  ASSUME HandshakeTypes, [Next]_vars,
         WhoIsDue => sPhase # "proposed" /\ due # "client",
         due = "server" => toClient = <<>> /\ ~Has(toServer, {"IAM"})
  PROVE  /\ WhoIsDue' => due' # "client"
         /\ due' = "server" => toClient' = <<>> /\ ~Has(toServer', {"IAM"})
<1>a. /\ toServer # <<>> => (Has(Tail(toServer), {"IAM"}) => Has(toServer, {"IAM"}))
      /\ \A k \in {"HRU", "GET"} : Has(Append(toServer, Word(k)), {"IAM"}) => Has(toServer, {"IAM"})
      /\ Has(Append(toServer, Greeting("HELLO?")), {"IAM"}) => Has(toServer, {"IAM"})
  <2>1. \A k \in {"HRU", "GET"} : Word(k) \in ClientLines /\ Word(k)[1] # "IAM"
    BY ClientLineFacts DEF Word
  <2>2. Greeting("HELLO?") \in ClientLines /\ Greeting("HELLO?")[1] # "IAM"
    BY ClientLineFacts DEF Greeting, Greetings, Asks, HandshakeTypes, VariableTypes
  <2>3. QED  BY <2>1, <2>2, OrderOfServerInput
<1>1. CASE HelloTimeout \/ WhoTimeout \/ GetTimeout
  <2>1. /\ due' \in {"none", "server"} /\ toClient' = toClient
        /\ due' = "server" => toServer = <<>> /\ toClient = <<>>
        /\ toServer' \in {toServer, Append(toServer, Word("HRU")), Append(toServer, Greeting("HELLO?"))}
    BY <1>1 DEF HelloTimeout, WhoTimeout, GetTimeout, NoReply, ClientDeadline, HelloAgain, ClientFails,
         HruAgain, Connected, ClientSays
  <2>2. QED  BY <1>a, <2>1, NothingUnderWay
<1>2. CASE ProposalTimeout
  <2>1. due' # "server" /\ ~WhoIsDue /\ cPhase' = cPhase
    BY <1>2 DEF ProposalTimeout, NoInput, clientVars
  <2>2. \/ toClient' \in {toClient, Append(toClient, <<"OHRU", sTerms, Asks>>)}
        \/ toClient' \in {toClient, Append(toClient, Word("ERR"))}
    BY <1>2 DEF ProposalTimeout, ServerSays, Refuse, HandshakeTypes, LineTypes
  <2>3. ~WhoIsDue'
    BY <2>1, <2>2, OrderOfReplies DEF WhoIsDue, Proposals, HandshakeTypes, VariableTypes
  <2>4. QED  BY <2>1, <2>3
<1>3. CASE Get
  <2>1. due' = due /\ toClient' = toClient /\ toServer' = Append(toServer, Word("GET")) /\ ~WhoIsDue'
    BY <1>3 DEF Get, ClientSays, WhoIsDue
  <2>2. QED  BY <1>a, <2>1
<1>4. CASE LoseLine
  <2>1. /\ due' = due /\ cPhase' = cPhase
        /\ \/ toServer # <<>> /\ toServer' = Tail(toServer) /\ toClient' = toClient
           \/ toClient # <<>> /\ toClient' = Tail(toClient) /\ toServer' = toServer
    BY <1>4 DEF LoseLine, clientVars
  <2>2. WhoIsDue' => WhoIsDue
    BY <2>1, OrderOfReplies DEF WhoIsDue
  <2>3. QED  BY <1>a, <2>1, <2>2
<1>5. CASE UNCHANGED vars
  BY <1>5 DEF vars, clientVars, WhoIsDue
<1>6. CASE \/ Dial \/ RecvAnswer \/ RecvWho \/ RecvAtPrompt \/ RecvGetReply
           \/ RecvGreeting \/ RecvNoGreeting \/ RecvRequest \/ RecvGreetingAgain
           \/ RecvHru \/ RecvIam \/ IamTimeout \/ SilenceNoticed
  <2>1. due' = "none"
    BY <1>6 DEF Dial, RecvAnswer, RecvWho, RecvAtPrompt, RecvGetReply, TakeReply, TakeInput, OfServer,
         RecvGreeting, RecvNoGreeting, RecvRequest, RecvGreetingAgain, RecvHru, RecvIam, IamTimeout, SilenceNoticed
  <2>2. QED  BY <2>1
<1>7. QED  BY <1>1, <1>2, <1>3, <1>4, <1>5, <1>6 DEF Next, ClientStep, ServerStep

LEMMA TurnsKept == HandshakeTypes /\ Exchange /\ Turns /\ [Next]_vars => Turns'
<1> SUFFICES ASSUME HandshakeTypes, Exchange, Turns, [Next]_vars,
                    Asks, Basic => setting.prompt
             PROVE  Turns'
  BY PeerStays, SettingStays, SamePeerSameLines DEF Turns, Basic
<1>a. /\ Pending => sPhase # "session" /\ ~Has(toServer, {"IAM"})
      /\ Before(toServer, Greetings, {"IAM"}) => sPhase = "asked"
      /\ ~Around(toServer, {"IAM"}, Greetings)
      /\ WhoIsDue => sPhase # "proposed" /\ (Has(toServer, Greetings) => sPhase = "asked")
  BY DEF Turns
<1>m. /\ WhoIsDue => due # "client"
      /\ due = "server" => toClient = <<>> /\ ~Has(toServer, {"IAM"})
  BY DEF Turns
<1> SUFFICES /\ Pending' => sPhase' # "session" /\ ~Has(toServer', {"IAM"})
             /\ Before(toServer', Greetings, {"IAM"}) => sPhase' = "asked"
             /\ ~Around(toServer', {"IAM"}, Greetings)
             /\ WhoIsDue' => sPhase' # "proposed" /\ (Has(toServer', Greetings) => sPhase' = "asked")
  BY <1>a, <1>m, SecondDeadline DEF Turns
<1>b. WhoIsDue => Pending
  BY AheadMeansThere DEF WhoIsDue, Pending
<1>c. /\ \A K : ~Has(<<>>, K) /\ \A L : ~Before(<<>>, K, L) /\ ~Around(<<>>, K, L)
  BY NothingUnderWay
<1>d. /\ sPhase # "listen" => identity = TRUE
      /\ sTerms \in Terms
  BY DEF HandshakeTypes, LineTypes, VariableTypes, Asks
\* A line that is neither a greeting nor IAM changes nothing here.
<1>e. ASSUME NEW k \in {"HRU", "GET"}, toServer' = Append(toServer, Word(k))
      PROVE  /\ Has(toServer', Greetings) <=> Has(toServer, Greetings)
             /\ Has(toServer', {"IAM"}) <=> Has(toServer, {"IAM"})
             /\ Before(toServer', Greetings, {"IAM"}) <=> Before(toServer, Greetings, {"IAM"})
             /\ Around(toServer', {"IAM"}, Greetings) => Around(toServer, {"IAM"}, Greetings)
  <2>1. Word(k) \in ClientLines /\ Word(k)[1] \notin Greetings /\ Word(k)[1] # "IAM"
    BY ClientLineFacts DEF Word, Greetings
  <2>2. QED  BY <1>e, <2>1, OrderOfServerInput
<1>f. ASSUME NEW l \in ClientLines, l[1] \in Greetings, toServer' = Append(toServer, l)
      PROVE  /\ Has(toServer', {"IAM"}) <=> Has(toServer, {"IAM"})
             /\ Before(toServer', Greetings, {"IAM"}) <=> Before(toServer, Greetings, {"IAM"})
             /\ Around(toServer', {"IAM"}, Greetings) => Around(toServer, {"IAM"}, Greetings)
  BY <1>f, OrderOfServerInput DEF Greetings
<1>g. Greeting("HELLO?") \in ClientLines /\ Greeting("HELLO?")[1] \in Greetings
  BY ClientLineFacts DEF Greeting, Greetings, Asks, HandshakeTypes, VariableTypes
\* What the client reads, or the server sends, while the rest stands still.
<1>h. ASSUME toClient # <<>>, toClient' = Tail(toClient), cPhase' = cPhase
      PROVE  (Pending' => Pending) /\ (WhoIsDue' => WhoIsDue)
  BY <1>h, OrderOfReplies DEF Pending, WhoIsDue
<1>i. ASSUME NEW k \in {"ERR", "FETCHING", "WHO?"}, cPhase' = cPhase, toClient' \in {toClient, Append(toClient, Word(k))}
      PROVE  (Pending' => Pending) /\ (k # "WHO?" => (WhoIsDue' => WhoIsDue))
  BY <1>i, OrderOfReplies DEF Pending, WhoIsDue
<1>j. ASSUME NEW p \in Proposals, NEW t \in Terms, cPhase' = cPhase,
             toClient' \in {toClient, Append(toClient, <<p, t, Asks>>), toClient \o <<<<p, t, Asks>>, Word("ERR")>>}
      PROVE  WhoIsDue' => WhoIsDue
  BY <1>j, OrderOfReplies DEF WhoIsDue
\* What is left to the server after it read a line.
<1>k. ASSUME toServer # <<>>, toServer' = Tail(toServer)
      PROVE  /\ Has(toServer', Greetings) => Has(toServer, Greetings)
             /\ Has(toServer', {"IAM"}) => Has(toServer, {"IAM"})
             /\ Before(toServer', Greetings, {"IAM"}) => Before(toServer, Greetings, {"IAM"})
             /\ Around(toServer', {"IAM"}, Greetings) => Around(toServer, {"IAM"}, Greetings)
  BY <1>k, OrderOfServerInput
<1>1. CASE Dial
  <2>1. toClient' = <<>> /\ cPhase' = "hello" /\ sPhase' = sPhase /\ toServer' = Append(toServer, Greeting("HELLO")')
    BY <1>1 DEF Dial, ClientSays, serverVars
  <2>2. Greeting("HELLO")' \in ClientLines /\ Greeting("HELLO")'[1] \in Greetings
    <3>1. Greeting("HELLO")' = <<"HELLO", offer', Asks>> /\ offer' \in Offers
      BY <1>1, PeerStays DEF Dial, Greeting, Asks
    <3>2. QED  BY <3>1, ClientLineFacts DEF Greetings
  <2>3. ~Pending' /\ ~WhoIsDue'
    BY <2>1, <1>c DEF Pending, WhoIsDue
  <2>4. QED  BY <1>a, <1>f, <2>1, <2>2, <2>3
<1>2. CASE Get
  <2>1. ~Pending' /\ ~WhoIsDue' /\ sPhase' = sPhase
    BY <1>2 DEF Get, Pending, WhoIsDue, OfClient, serverVars
  <2>2. QED  BY <1>2, <1>a, <1>e, <2>1 DEF Get, ClientSays
<1>3. CASE HelloTimeout
  <2>1. toClient' = toClient /\ sPhase' = sPhase /\ cPhase = "hello" /\ (due = "client" \/ toClient = <<>>)
    BY <1>3 DEF HelloTimeout, NoReply, ClientDeadline, OfClient, serverVars
  <2>2. CASE ClientFails
    BY <2>1, <2>2, <1>a DEF ClientFails, Pending, WhoIsDue
  <2>3. CASE HelloAgain
    <3>1. cPhase' = "hello" /\ toServer' = Append(toServer, Greeting("HELLO?"))
      BY <2>1, <2>3 DEF HelloAgain, ClientSays
    <3>2. (Pending' => Pending) /\ ~WhoIsDue'
      BY <1>b, <1>c, <1>m, <2>1, <3>1 DEF Pending, WhoIsDue
    <3>3. QED  BY <1>a, <1>f, <1>g, <2>1, <3>1, <3>2
  <2>4. QED  BY <1>3, <2>2, <2>3 DEF HelloTimeout
<1>4. CASE RecvAnswer
  <2>1. toClient # <<>> /\ toClient' = Tail(toClient) /\ sPhase' = sPhase /\ cPhase = "hello"
    BY <1>4 DEF RecvAnswer, TakeReply, OfClient, serverVars
  <2>2. CASE ClientFails
    BY <2>1, <2>2, <1>a DEF ClientFails, Pending, WhoIsDue
  <2>3. CASE HelloAgain /\ Basic /\ Reply[1] \notin Proposals
    <3>1. toClient' = <<>> \/ (sPhase = "proposed" /\ toServer = <<>>)
      BY <2>1, <2>3, RefusalRead DEF Exchange
    <3>2. cPhase' = "hello" /\ toServer' = Append(toServer, Greeting("HELLO?"))
      BY <2>1, <2>3 DEF HelloAgain, ClientSays
    <3>3. ~WhoIsDue'
      BY <1>a, <1>c, <2>1, <3>1, <3>2, OrderOfReplies DEF WhoIsDue
    <3>4. CASE toClient' = <<>>
      <4>1. ~Pending'
        BY <1>c, <3>2, <3>4 DEF Pending
      <4>2. QED  BY <1>a, <1>f, <1>g, <2>1, <3>2, <3>3, <4>1
    <3>5. CASE sPhase = "proposed" /\ toServer = <<>>
      BY <1>a, <1>c, <1>f, <1>g, <2>1, <3>2, <3>3, <3>5
    <3>6. QED  BY <3>1, <3>4, <3>5
  <2>4. CASE Reply[1] \in Proposals /\ cPhase' \in {"who", "connected"} /\ toServer' = Append(toServer, Word("HRU"))
    <3>1. Pending /\ (WhoIsDue' => WhoIsDue)
      BY <2>1, <2>4, OrderOfReplies DEF Pending, WhoIsDue
    <3>2. QED  BY <1>a, <1>e, <2>1, <2>4, <3>1
  <2>5. QED  BY <1>4, <2>2, <2>3, <2>4 DEF RecvAnswer, ClientSays
<1>5. CASE RecvWho
  <2>1. toClient # <<>> /\ toClient' = Tail(toClient) /\ sPhase' = sPhase /\ cPhase = "who" /\ Pending
    BY <1>5 DEF RecvWho, TakeReply, OfClient, serverVars, Pending
  <2>2. CASE ClientFails
    BY <2>1, <2>2, <1>a DEF ClientFails, Pending, WhoIsDue
  <2>3. CASE HruAgain
    <3>1. WhoIsDue' => WhoIsDue
      BY <2>1, <2>3, OrderOfReplies DEF WhoIsDue, HruAgain
    <3>2. QED  BY <1>a, <1>e, <2>1, <2>3, <3>1 DEF HruAgain, ClientSays
  <2>4. CASE Connected /\ toServer' = toServer
    BY <2>1, <2>4, <1>a DEF Connected, Pending, WhoIsDue
  <2>5. CASE Reply[1] = "WHO?" /\ Connected /\ toServer' = Append(toServer, Word("IAM"))
    <3>1. WhoIsDue /\ ~Pending' /\ ~WhoIsDue'
      BY <2>1, <2>5, OrderOfReplies DEF WhoIsDue, Pending, Connected
    <3>2. Word("IAM") \in ClientLines /\ Word("IAM")[1] = "IAM" /\ "IAM" \notin Greetings
      BY ClientLineFacts DEF Word, Greetings
    <3>3. /\ Before(toServer', Greetings, {"IAM"}) => Before(toServer, Greetings, {"IAM"}) \/ Has(toServer, Greetings)
          /\ Around(toServer', {"IAM"}, Greetings) => Around(toServer, {"IAM"}, Greetings) \/ Has(toServer, {"IAM"})
      BY <2>5, <3>2, OrderOfServerInput
    <3>4. QED  BY <1>a, <2>1, <3>1, <3>3
  <2>6. QED  BY <1>5, <2>2, <2>3, <2>4, <2>5 DEF RecvWho, ClientSays
<1>6. CASE WhoTimeout
  <2>1. toClient' = toClient /\ sPhase' = sPhase /\ cPhase = "who" /\ Pending
    BY <1>6 DEF WhoTimeout, NoReply, OfClient, serverVars, Pending
  <2>2. CASE ClientFails
    BY <2>1, <2>2, <1>a DEF ClientFails, Pending, WhoIsDue
  <2>3. CASE HruAgain
    <3>1. WhoIsDue' => WhoIsDue
      BY <2>1, <2>3 DEF WhoIsDue, HruAgain
    <3>2. QED  BY <1>a, <1>e, <2>1, <2>3, <3>1 DEF HruAgain, ClientSays
  <2>4. CASE Connected /\ toServer' = toServer
    BY <2>1, <2>4, <1>a DEF Connected, Pending, WhoIsDue
  <2>5. QED  BY <1>6, <2>2, <2>3, <2>4 DEF WhoTimeout
<1>7. CASE RecvAtPrompt
  BY <1>7, <1>a, <1>h DEF RecvAtPrompt, TakeReply, OfClient, clientVars, serverVars
<1>8. CASE RecvGetReply \/ GetTimeout
  <2>1. ~Pending' /\ ~WhoIsDue' /\ sPhase' = sPhase /\ toServer' = toServer
    BY <1>8 DEF RecvGetReply, GetTimeout, TakeReply, NoReply, OfClient, serverVars, ClientFails, Pending, WhoIsDue
  <2>2. QED  BY <2>1, <1>a
<1>9. CASE \/ RecvIam \/ IamTimeout \/ SilenceNoticed \/ RecvRequest \/ RecvGreeting
  <2>1. CASE sPhase' = "listen" /\ toServer' = <<>>
    BY <2>1, <1>c
  <2>2. CASE RecvGreeting /\ toServer' = Tail(toServer) /\ Propose
    <3>1. /\ toServer # <<>> /\ Input[1] \in Greetings /\ sPhase # "asked" /\ cPhase' = cPhase
          /\ Proposed(Input[2], ServerLimit) \in Terms /\ Input[3] = Asks /\ sPhase' = "proposed"
      BY <2>2, LinesInHand DEF RecvGreeting, OfServer, clientVars, Propose
    <3>2. \E p \in Proposals, t \in Terms : toClient' \in {toClient, Append(toClient, <<p, t, Asks>>)}
      BY <2>2, <3>1 DEF Propose, ServerSays, Proposals
    <3>3. WhoIsDue' => WhoIsDue
      BY <3>1, <3>2, <1>j
    <3>4. Has(toServer, Greetings) /\ ~Has(toServer', {"IAM"})
      BY <3>1, <2>2, <1>a, OrderOfServerInput
    <3>5. QED  BY <1>a, <1>k, <2>2, <3>1, <3>3, <3>4
  <2>3. CASE RecvRequest /\ Input[1] = "GET"
    <3>1. /\ toServer # <<>> /\ toServer' = Tail(toServer) /\ cPhase' = cPhase /\ sPhase = "session" /\ sPhase' = sPhase
          /\ toClient' \in {toClient, Append(toClient, Word("FETCHING"))}
      BY <2>3 DEF RecvRequest, OfServer, clientVars, serverVars, ServerSays
    <3>2. ~Pending' /\ ~WhoIsDue'
      BY <1>a, <1>b, <1>i, <3>1
    <3>3. QED  BY <1>a, <1>k, <3>1, <3>2
  <2>4. CASE RecvIam /\ Input[1] = "IAM"
    <3>1. /\ toServer # <<>> /\ toServer' = Tail(toServer) /\ cPhase' = cPhase /\ sPhase' = "session"
          /\ toClient' = toClient
      BY <2>4 DEF RecvIam, OfServer, clientVars, Dropped
    <3>2. ~Pending' /\ ~WhoIsDue'
      BY <1>a, <1>b, <2>4, <3>1, OrderOfServerInput DEF Pending, WhoIsDue
    <3>3. ~Before(toServer', Greetings, {"IAM"}) /\ ~Around(toServer', {"IAM"}, Greetings)
      BY <1>a, <2>4, <3>1, OrderOfServerInput
    <3>4. QED  BY <3>2, <3>3
  <2>5. CASE RecvIam /\ Input[1] = "HRU" /\ sPhase' # "listen"
    <3>1. /\ toServer # <<>> /\ toServer' = Tail(toServer) /\ cPhase' = cPhase
          /\ sPhase' = "asked" /\ sPhase = "asked"
          /\ toClient' \in {toClient, Append(toClient, Word("WHO?"))}
      BY <2>5 DEF RecvIam, OfServer, clientVars, ServerSays, Dropped
    <3>2. Pending' => Pending
      BY <1>i, <3>1
    <3>3. QED  BY <1>a, <1>k, <2>5, <3>1, <3>2
  <2>6. CASE IamTimeout /\ due = "server" /\ sPhase' = "listen" /\ toServer' = toServer
    <3>1. toClient' = <<>> /\ cPhase' = cPhase
      BY <1>m, <2>6 DEF IamTimeout, OfServer, clientVars
    <3>2. ~WhoIsDue' /\ ~Has(toServer', {"IAM"})
      BY <1>c, <1>m, <2>6, <3>1 DEF WhoIsDue
    <3>3. QED  BY <1>a, <2>6, <3>2, AheadMeansThere
  <2>7. QED
    BY <1>9, <2>1, <2>2, <2>3, <2>4, <2>5, <2>6
       DEF RecvIam, IamTimeout, SilenceNoticed, RecvRequest, RecvGreeting, Dropped
<1>10. CASE RecvNoGreeting
  <2>1. /\ toServer # <<>> /\ toServer' = Tail(toServer) /\ cPhase' = cPhase /\ sPhase = "listen" /\ sPhase' = "listen"
        /\ toClient' \in {toClient, Append(toClient, Word("ERR"))}
    BY <1>10 DEF RecvNoGreeting, TakeInput, OfServer, clientVars, Refuse, ServerSays
  <2>2. (Pending' => Pending) /\ (WhoIsDue' => WhoIsDue)
    BY <1>i, <2>1
  <2>3. QED  BY <1>a, <1>k, <2>1, <2>2
<1>11. CASE RecvGreetingAgain
  <2>1. /\ toServer # <<>> /\ toServer' = Tail(toServer) /\ cPhase' = cPhase /\ sPhase = "proposed"
        /\ sPhase' \in {"proposed", "listen"} /\ Input[1] \in Greetings
    BY <1>11 DEF RecvGreetingAgain, TakeInput, OfServer, clientVars
  <2>2. toClient' \in {toClient, Append(toClient, <<"OHRU", sTerms, Asks>>),
                       toClient \o <<<<"OHRU", sTerms, Asks>>, Word("ERR")>>}
    BY <1>11, <1>d, <2>1 DEF RecvGreetingAgain, ServerSays, RepeatedTerms
  <2>3. WhoIsDue' => WhoIsDue
    BY <1>d, <1>j, <2>1, <2>2 DEF Proposals
  <2>4. Has(toServer, Greetings) /\ ~Has(toServer', {"IAM"})
    BY <2>1, <1>a, OrderOfServerInput
  <2>5. QED  BY <1>a, <1>k, <2>1, <2>3, <2>4
<1>12. CASE ProposalTimeout
  <2>1. /\ toServer' = toServer /\ cPhase' = cPhase /\ sPhase = "proposed" /\ sPhase' \in {"proposed", "listen"}
        /\ due = "server" \/ toServer = <<>>
    BY <1>12 DEF ProposalTimeout, NoInput, ServerDeadline, Refuse, clientVars
  <2>2. ~Has(toServer, {"IAM"}) /\ ~WhoIsDue
    BY <1>a, <1>c, <1>m, <2>1
  <2>3. \/ toClient' \in {toClient, Append(toClient, <<"OHRU", sTerms, Asks>>)}
        \/ toClient' \in {toClient, Append(toClient, Word("ERR"))}
    BY <1>12, <1>d, <2>1 DEF ProposalTimeout, ServerSays, Refuse
  <2>4. ~WhoIsDue'
    BY <1>d, <1>i, <1>j, <2>1, <2>2, <2>3 DEF Proposals
  <2>5. QED  BY <1>a, <2>1, <2>2, <2>4
<1>13. CASE RecvHru
  <2>1. /\ toServer # <<>> /\ toServer' = Tail(toServer) /\ cPhase' = cPhase /\ sPhase = "proposed"
    BY <1>13 DEF RecvHru, TakeInput, OfServer, clientVars
  <2>2. CASE sPhase' = "asked" /\ toClient' \in {toClient, Append(toClient, Word("WHO?"))}
    <3>1. Pending' => Pending
      BY <1>i, <2>1, <2>2
    <3>2. QED  BY <1>a, <1>k, <2>1, <2>2, <3>1
  <2>3. CASE sPhase' = "listen" /\ toClient' \in {toClient, Append(toClient, Word("ERR"))}
    <3>1. (Pending' => Pending) /\ (WhoIsDue' => WhoIsDue)
      BY <1>i, <2>1, <2>3
    <3>2. QED  BY <1>a, <1>k, <2>1, <2>3, <3>1
  <2>4. QED  BY <1>13, <1>d, <2>1, <2>2, <2>3 DEF RecvHru, AfterHru, ImplicitHru, Refuse, ServerSays
<1>14. CASE LoseLine
  <2>1. UNCHANGED <<cPhase, sPhase>>
    BY <1>14 DEF LoseLine, clientVars, serverVars
  <2>2. CASE toServer # <<>> /\ toServer' = Tail(toServer) /\ toClient' = toClient
    <3>1. (Pending' <=> Pending) /\ (WhoIsDue' <=> WhoIsDue)
      BY <2>1, <2>2 DEF Pending, WhoIsDue
    <3>2. QED  BY <1>a, <1>k, <2>1, <2>2, <3>1
  <2>3. CASE toClient # <<>> /\ toClient' = Tail(toClient) /\ toServer' = toServer
    BY <1>a, <1>h, <2>1, <2>3
  <2>4. QED  BY <1>14, <2>2, <2>3 DEF LoseLine
<1>15. CASE UNCHANGED vars
  <2>1. UNCHANGED <<cPhase, sPhase, toServer, toClient>>
    BY <1>15 DEF vars, clientVars, serverVars
  <2>2. QED  BY <1>a, <2>1 DEF Pending, WhoIsDue
<1>16. QED
  BY <1>1, <1>2, <1>3, <1>4, <1>5, <1>6, <1>7, <1>8, <1>9, <1>10, <1>11, <1>12, <1>13, <1>14, <1>15
     DEF Next, ClientStep, ServerStep

\* The server starts a session only when the client no longer waits for WHO?,
\* with lines as late as they like and starts in any number.  Of PCUTP.BAS it
\* needs prompt replies: started four times while its lines are late, it
\* can be asked by a session that an earlier start of it has opened.
THEOREM SessionIsAnswered == Spec => []((Basic => setting.prompt) => SessionMeansAnswered)
<1>1. Init => Turns
  BY NothingUnderWay DEF Init, Turns, Pending, WhoIsDue
<1>2. HandshakeTypes /\ Turns => ((Basic => setting.prompt) => SessionMeansAnswered)
  BY DEF HandshakeTypes, LineTypes, Turns, Pending, SessionMeansAnswered
<1>3. QED  BY <1>1, <1>2, TurnsKept, TypesAreKept, ExchangeIsKept, PTL DEF Spec

-----------------------------------------------------------------------------
(* Getting through.  A client that is started once and loses no WHO? either *)
(* repeats its line as the server repeats its own, and the two cross, or    *)
(* waits for the line that is under way.  A lost line costs each loop one   *)
(* pass; what crosses costs one more of each, before it is read.            *)

OwnGreetings == {<<w, offer, Asks>> : w \in Greetings}
Hru          == Word("HRU")
Who          == Word("WHO?")

Cost(c, s) == cTries <= losses + c /\ sTries <= losses + s

Calling ==
  /\ sPhase \in {"listen", "proposed"}
  /\ sPhase = "proposed" => sTerms = Proposed(offer, ServerLimit)
  /\ \/ Silent /\ Cost(0, 0)
     \/ due # "client" /\ Cost(1, 0) /\ \E g \in OwnGreetings : Heard(g)
     \/ /\ sPhase = "proposed"
        /\ \E g \in OwnGreetings, p, q \in ItsProposals :
             \/ due # "server" /\ Told(p) /\ Cost(1, 1)
             \/ due = "none" /\ toServer = <<g>> /\ toClient = <<p>> /\ Cost(2, 1)
             \/ due = "none" /\ toServer = <<>> /\ toClient = <<p, q>> /\ Cost(2, 2)

Acknowledging ==
  \/ Silent /\ Cost(0, 0)
  \/ due # "client" /\ Heard(Hru) /\ Cost(1, 1)
  \/ /\ due # "server" /\ Cost(0, 1)
     /\ \E p \in ItsProposals : Told(p)
  \/ /\ due = "none" /\ toServer = <<Hru>> /\ Cost(1, 2)
     /\ \E p \in ItsProposals : toClient = <<p>>
  \/ /\ due = "none" /\ toClient = <<>> /\ Cost(1, 1)
     /\ \E g \in OwnGreetings : toServer = <<g, Hru>>
  \/ due = "none" /\ toServer = <<Hru, Hru>> /\ toClient = <<>> /\ Cost(2, 2)

BeingAsked ==
  /\ due = "none"
  /\ \/ toServer = <<>> /\ toClient \in {<<Who>>, <<Who, Who>>}
     \/ sTries = 1 /\ toServer = <<Hru>> /\ toClient = <<Who>>
     \/ sTries = 1 /\ toServer = <<>> /\ \E p \in ItsProposals : toClient = <<p, Who>>

Presenting ==
  \/ sPhase = "proposed" /\ Acknowledging
  \/ sPhase = "asked" /\ BeingAsked

Sparing == setting.prompt /\ "WHO?" \notin setting.lost /\ setting.losses + 1 < HelloRetries

Surviving ==
  /\ losses <= setting.losses
  /\ dials = 0 =>
       cPhase = "off" /\ sPhase = "listen" /\ sTries = 0 /\ Silent /\ due = "none" /\ losses = 0
  /\ Sparing /\ dials = 1 /\ HoldsFrame(offer) =>
       (cPhase = "hello" => Calling) /\ (cPhase = "who" => Presenting)

\* What the server makes of an offer with room for a frame, the client takes.
LEMMA RoomForAFrame ==
  ASSUME offer \in Offers, HoldsFrame(offer)
  PROVE  CanServe(offer, ServerLimit) /\ Acceptable(Proposed(offer, ServerLimit))
<1> DEFINE f == FrameSize(BlockLimit(offer, ServerLimit))
<1>1. offer \in Offer /\ ServerLimit \in Limit
  BY HandshakeAssumption
<1>2. offer.rxbuf \in Nat /\ offer.maxblk \in Nat
  BY <1>1 DEF Offer
<1>3. f \in Nat \ {0} /\ f <= offer.rxbuf
  BY <1>1, <1>2, ProposedTypes, NegotiationAssumption DEF HoldsFrame, FrameSize
<1>4. offer.rxbuf \div f >= 1
  <2>1. \A a \in Nat, b \in Nat \ {0} : b <= a => a \div b >= 1
    OBVIOUS
  <2>2. QED  BY <1>2, <1>3, <2>1
<1>5. CanServe(offer, ServerLimit)
  BY <1>4 DEF CanServe, Capacity
<1>6. QED  BY <1>1, <1>3, <1>5, ProposalsAreAccepted DEF Acceptable

\* The numbers of a behaviour that loses few lines.
FewLosses ==
  /\ losses \in Nat /\ cTries \in Nat /\ sTries \in Nat /\ HelloRetries \in Nat
  /\ losses + 1 < HelloRetries

LEMMA NumbersOfLosses ==
  ASSUME HandshakeTypes, Sparing, losses <= setting.losses
  PROVE  FewLosses
<1>1. setting.losses \in Nat
  BY HandshakeAssumption DEF HandshakeTypes, VariableTypes, Setting
<1>2. losses \in Nat /\ cTries \in Nat /\ sTries \in Nat /\ HelloRetries \in Nat
  BY HandshakeAssumption DEF HandshakeTypes, VariableTypes
<1>3. QED  BY <1>1, <1>2 DEF Sparing, FewLosses

\* Only Dial changes what the client offers.
LEMMA OfferStays == Next /\ ~Dial => offer' = offer /\ dials' = dials
  BY DEF Next, ClientStep, ServerStep, LoseLine, OfServer, OfClient, clientVars,
         Get, HelloTimeout, RecvAnswer, RecvWho, WhoTimeout, RecvAtPrompt, RecvGetReply, GetTimeout,
         TakeReply, NoReply, ClientFails, HelloAgain, HruAgain, Connected,
         RecvGreeting, RecvNoGreeting, RecvRequest, RecvGreetingAgain, ProposalTimeout,
         RecvHru, RecvIam, IamTimeout, SilenceNoticed, TakeInput, NoInput

\* What can happen in a greeting that goes through, whoever waits for what.
ClientRepeats(line) ==
  /\ toServer' = Append(toServer, line) /\ cTries' = cTries + 1
  /\ UNCHANGED <<toClient, cPhase, sPhase, sTries, sTerms, losses>>
  /\ (due = "client" /\ due' = "none") \/ (Silent /\ due' # "client")
ServerOffers ==
  /\ sPhase = "listen" /\ toServer # <<>> /\ toServer' = Tail(toServer)
  /\ sPhase' = "proposed" /\ sTries' = 1 /\ sTerms' = Proposed(offer, ServerLimit)
  /\ \E p \in ItsProposals' : toClient' = Append(toClient, p)
  /\ due' = "none" /\ UNCHANGED <<cPhase, cTries, losses>>
ServerOffersAgain ==
  /\ sPhase = "proposed" /\ toServer # <<>> /\ Input[1] \in Greetings /\ toServer' = Tail(toServer)
  /\ sTries' = sTries + 1 /\ \E p \in ItsProposals : toClient' = Append(toClient, p)
  /\ due' = "none" /\ UNCHANGED <<cPhase, cTries, sPhase, sTerms, losses>>
ServerInsists ==
  /\ sPhase = "proposed" /\ UNCHANGED toServer
  /\ sTries' = sTries + 1 /\ \E p \in ItsProposals : toClient' = Append(toClient, p)
  /\ (due = "server" /\ due' = "none") \/ (Silent /\ due' # "server")
  /\ UNCHANGED <<cPhase, cTries, sPhase, sTerms, losses>>
OneIsLost ==
  /\ losses' = losses + 1 /\ UNCHANGED <<cPhase, cTries, sPhase, sTries, sTerms, due>>
  /\ \/ toServer # <<>> /\ toServer' = Tail(toServer) /\ toClient' = toClient
     \/ toClient # <<>> /\ Reply[1] # "WHO?" /\ toClient' = Tail(toClient) /\ toServer' = toServer
ClientAccepts ==
  /\ toClient # <<>> /\ toClient' = Tail(toClient) /\ toServer' = Append(toServer, Hru)
  /\ cTries' = 1 /\ cPhase' \in {"who", "connected"} /\ due' = "none"
  /\ UNCHANGED <<sPhase, sTries, sTerms, losses>>

\* What is under way to a client that calls, and to the server; and whoever
\* waits in vain has an attempt left.
LEMMA CallingReads ==
  ASSUME FewLosses, Calling
  PROVE  /\ toServer # <<>> => Input \in OwnGreetings /\ sTries < HelloRetries
         /\ toClient # <<>> => Reply \in ItsProposals /\ sPhase = "proposed"
         /\ Silent \/ due = "client" => cTries < HelloRetries
         /\ Silent \/ due = "server" => sTries < HelloRetries
<1>1. /\ losses \in Nat /\ cTries \in Nat /\ sTries \in Nat /\ HelloRetries \in Nat
      /\ losses + 1 < HelloRetries
  BY DEF FewLosses
<1>2. CASE Silent /\ Cost(0, 0)
  BY <1>1, <1>2 DEF Silent, Cost
<1>3. CASE due # "client" /\ Cost(1, 0) /\ \E g \in OwnGreetings : Heard(g)
  <2>1. toServer # <<>> /\ Input \in OwnGreetings /\ toClient = <<>>
    BY <1>3, LinesSay
  <2>2. QED  BY <1>1, <1>3, <2>1 DEF Cost, Silent
<1>4. ASSUME sPhase = "proposed", NEW p \in ItsProposals, due # "server", Told(p), Cost(1, 1)
      PROVE  /\ toClient # <<>> /\ Reply \in ItsProposals /\ toServer = <<>> /\ ~Silent
             /\ cTries < HelloRetries /\ sTries < HelloRetries
  <2>1. toClient # <<>> /\ Reply = p /\ toServer = <<>>
    BY <1>4, LinesSay
  <2>2. QED  BY <1>1, <1>4, <2>1 DEF Cost, Silent
<1>5. ASSUME NEW g \in OwnGreetings, NEW p \in ItsProposals, toServer = <<g>>, toClient = <<p>>, Cost(2, 1)
      PROVE  Input \in OwnGreetings /\ Reply \in ItsProposals /\ ~Silent /\ sTries < HelloRetries
  <2>1. toServer # <<>> /\ Head(toServer) = g /\ Head(toClient) = p
    BY <1>5, ShortReads
  <2>2. QED  BY <1>1, <1>5, <2>1 DEF Cost, Silent, Input, Reply
<1>6. ASSUME NEW p \in ItsProposals, NEW q \in ItsProposals, toServer = <<>>, toClient = <<p, q>>
      PROVE  Reply \in ItsProposals /\ ~Silent
  <2>1. toClient # <<>> /\ Head(toClient) = p
    BY <1>6, ShortReads
  <2>2. QED  BY <2>1 DEF Silent, Reply
<1>7. CASE /\ sPhase = "proposed"
           /\ \E g \in OwnGreetings, p, q \in ItsProposals :
                \/ due # "server" /\ Told(p) /\ Cost(1, 1)
                \/ due = "none" /\ toServer = <<g>> /\ toClient = <<p>> /\ Cost(2, 1)
                \/ due = "none" /\ toServer = <<>> /\ toClient = <<p, q>> /\ Cost(2, 2)
  BY <1>4, <1>5, <1>6, <1>7
<1>8. QED  BY <1>2, <1>3, <1>7 DEF Calling

LEMMA WhileCalling ==
  ASSUME HandshakeTypes, Sparing, FewLosses, HoldsFrame(offer), cPhase = "hello", Calling, Next, ~Dial
  PROVE  \/ \E g \in OwnGreetings : ClientRepeats(g)
         \/ ClientAccepts \/ ServerOffers \/ ServerOffersAgain \/ ServerInsists \/ OneIsLost
<1>a. /\ Asks' = Asks /\ (sPhase # "listen" => identity = Asks)
      /\ setting.prompt /\ "WHO?" \notin setting.lost /\ sPhase \in {"listen", "proposed"}
      /\ sPhase = "proposed" => sTerms = Proposed(offer, ServerLimit)
  BY PeerStays, SamePeerSameLines DEF Sparing, Calling, HandshakeTypes, LineTypes
<1>b. /\ toServer # <<>> => /\ Input[1] \in Greetings /\ Input[2] = offer /\ Input[3] = Asks
                            /\ sTries < HelloRetries
      /\ toClient # <<>> => /\ Reply[1] \in Proposals /\ Reply[2] = sTerms
                            /\ sPhase = "proposed"
      /\ Silent \/ due = "client" => cTries < HelloRetries
      /\ Silent \/ due = "server" => sTries < HelloRetries
  BY CallingReads, LinesSay DEF OwnGreetings
<1>c. CanServe(offer, ServerLimit) /\ Acceptable(Proposed(offer, ServerLimit))
  BY RoomForAFrame DEF HandshakeTypes, VariableTypes
<1>d. \/ HelloTimeout \/ RecvAnswer \/ RecvGreeting \/ RecvNoGreeting
      \/ RecvGreetingAgain \/ ProposalTimeout \/ RecvHru \/ LoseLine
  BY <1>a DEF Next, ClientStep, ServerStep, Get, RecvWho, WhoTimeout, RecvAtPrompt, RecvGetReply, GetTimeout,
         RecvRequest, RecvIam, IamTimeout, IamDeadline, SilenceNoticed
<1>e. ~RecvNoGreeting /\ ~RecvHru
  BY <1>b DEF RecvNoGreeting, RecvHru, TakeInput
<1>o. sPhase = "proposed" => <<"OHRU", sTerms, identity>> \in ItsProposals
  BY <1>a DEF ItsProposals, Proposals
<1>1. CASE HelloTimeout
  <2>1. (due = "client" /\ due' = "none") \/ (Silent /\ due' # "client")
    BY <1>1, <1>a DEF HelloTimeout, NoReply, ClientDeadline, Silent
  <2>2. HelloAgain
    BY <1>1, <1>b, <2>1, FewLosses DEF HelloTimeout, FewLosses
  <2>3. ClientRepeats(Greeting("HELLO?"))
    BY <1>1, <2>1, <2>2 DEF HelloTimeout, NoReply, OfClient, serverVars, world, HelloAgain, ClientSays, ClientRepeats
  <2>4. QED  BY <2>3 DEF Greeting, OwnGreetings, Greetings, Asks
<1>2. CASE RecvAnswer
  <2>1. Reply[1] \in Proposals /\ Acceptable(Reply[2])
    BY <1>2, <1>a, <1>b, <1>c DEF RecvAnswer, TakeReply
  <2>2. QED  BY <1>2, <2>1 DEF RecvAnswer, TakeReply, OfClient, serverVars, world, ClientSays, ClientFails, ClientAccepts, Hru
<1>3. CASE RecvGreeting
  <2>1. /\ toServer # <<>> /\ sPhase = "listen" /\ due' = "none" /\ UNCHANGED <<cPhase, cTries, losses>>
        /\ toServer' = Tail(toServer) /\ Propose
    BY <1>3, <1>a, <1>b, <1>c DEF RecvGreeting, OfServer, clientVars, world
  <2>2. /\ sPhase' = "proposed" /\ sTries' = 1 /\ sTerms' = Proposed(offer, ServerLimit)
        /\ toClient' = Append(toClient, <<IF Input[1] = "HELLO" THEN "HRU?" ELSE "OHRU", sTerms', Asks>>)
    BY <1>b, <2>1 DEF Propose, ServerSays
  <2>3. <<IF Input[1] = "HELLO" THEN "HRU?" ELSE "OHRU", sTerms', Asks>> \in ItsProposals'
    BY <1>a DEF ItsProposals, Proposals
  <2>4. QED  BY <2>1, <2>2, <2>3 DEF ServerOffers
<1>4. CASE RecvGreetingAgain
  <2>1. /\ toServer # <<>> /\ sPhase = "proposed" /\ due' = "none" /\ UNCHANGED <<cPhase, cTries, losses>>
        /\ toServer' = Tail(toServer) /\ MorePasses
    BY <1>4, <1>b DEF RecvGreetingAgain, TakeInput, OfServer, clientVars, world, MorePasses
  <2>2. /\ sTries' = sTries + 1 /\ toClient' = Append(toClient, <<"OHRU", sTerms, identity>>)
        /\ UNCHANGED <<sPhase, sTerms>>
    BY <1>4, <2>1 DEF RecvGreetingAgain, ServerSays, RepeatedTerms
  <2>3. QED  BY <1>b, <1>o, <2>1, <2>2 DEF ServerOffersAgain
<1>5. CASE ProposalTimeout
  <2>1. (due = "server" /\ due' = "none") \/ (Silent /\ due' # "server")
    BY <1>5, <1>a DEF ProposalTimeout, NoInput, ServerDeadline, ClientReads, Silent
  <2>2. sPhase = "proposed" /\ UNCHANGED <<toServer, cPhase, cTries, losses>> /\ MorePasses
    BY <1>5, <1>b, <2>1 DEF ProposalTimeout, NoInput, clientVars, world, MorePasses
  <2>3. /\ sTries' = sTries + 1 /\ toClient' = Append(toClient, <<"OHRU", sTerms, identity>>)
        /\ UNCHANGED <<sPhase, sTerms>>
    BY <1>5, <2>2 DEF ProposalTimeout, ServerSays
  <2>4. QED  BY <1>o, <2>1, <2>2, <2>3 DEF ServerInsists
<1>6. CASE LoseLine
  BY <1>6, <1>a DEF LoseLine, clientVars, serverVars, OneIsLost
<1>7. QED  BY <1>d, <1>e, <1>1, <1>2, <1>3, <1>4, <1>5, <1>6

\* From each state of a client that calls to another, or to one that presents
\* itself.
LEMMA CallingGoesOn ==
  ASSUME HandshakeTypes, [Next]_vars, offer' = offer, FewLosses, cPhase = "hello", Calling,
         \/ \E g \in OwnGreetings : ClientRepeats(g)
         \/ ClientAccepts \/ ServerOffers \/ ServerOffersAgain \/ ServerInsists \/ OneIsLost
  PROVE  /\ cPhase' # "failed" /\ (cPhase' = "hello" => Calling')
         /\ cPhase' = "who" => Presenting'
<1>a. /\ OwnGreetings' = OwnGreetings /\ (sTerms' = sTerms => ItsProposals' = ItsProposals) /\ Hru' = Hru
  BY PeerStays, SamePeerSameLines DEF OwnGreetings, ItsProposals, Hru, Word, Asks
<1>n. losses \in Nat /\ cTries \in Nat /\ sTries \in Nat
  BY DEF FewLosses
<1>t. /\ sPhase \in {"listen", "proposed"}
      /\ sPhase = "proposed" => sTerms = Proposed(offer, ServerLimit)
  BY DEF Calling
<1>p. cPhase' # "failed"
  BY DEF ClientRepeats, ClientAccepts, ServerOffers, ServerOffersAgain, ServerInsists, OneIsLost
<1>r. PICK g0 \in OwnGreetings : TRUE
  BY DEF OwnGreetings, Greetings
\* The shapes a step may end in.
<1>s1. ASSUME Silent', Cost(0, 0)', sPhase' = sPhase, sTerms' = sTerms PROVE Calling'
  BY <1>a, <1>t, <1>s1 DEF Calling
<1>s2. ASSUME NEW g \in OwnGreetings, Heard(g)', due' # "client", Cost(1, 0)', sPhase' = sPhase, sTerms' = sTerms
       PROVE  Calling'
  BY <1>a, <1>t, <1>s2 DEF Calling, Heard
<1>s3. ASSUME NEW p \in ItsProposals', Told(p)', due' # "server", Cost(1, 1)', sPhase' = "proposed",
              sTerms' = Proposed(offer, ServerLimit)
       PROVE  Calling'
  <2>1. \E g \in OwnGreetings', q1, q \in ItsProposals' : due' # "server" /\ Told(q1)' /\ Cost(1, 1)'
    BY <1>a, <1>r, <1>s3 DEF Told
  <2>2. QED  BY <1>s3, <2>1 DEF Calling
<1>s4. ASSUME NEW g \in OwnGreetings, NEW p \in ItsProposals, due' = "none", toServer' = <<g>>, toClient' = <<p>>,
              Cost(2, 1)', sPhase' = "proposed", sPhase = "proposed", sTerms' = sTerms
       PROVE  Calling'
  BY <1>a, <1>t, <1>s4 DEF Calling
<1>s5. ASSUME NEW p \in ItsProposals, NEW q \in ItsProposals, due' = "none", toServer' = <<>>, toClient' = <<p, q>>,
              Cost(2, 2)', sPhase' = "proposed", sPhase = "proposed", sTerms' = sTerms
       PROVE  Calling'
  BY <1>a, <1>r, <1>t, <1>s5 DEF Calling
<1>1. CASE Silent /\ Cost(0, 0)
  <2>1. toServer = <<>> /\ toClient = <<>> /\ cTries <= losses /\ sTries <= losses
    BY <1>1, <1>n DEF Silent, Cost
  <2>2. CASE \E g \in OwnGreetings : ClientRepeats(g)
    <3>1. PICK g \in OwnGreetings : ClientRepeats(g)
      BY <2>2
    <3>2. toServer' = <<g>> /\ toClient' = <<>>
      BY <2>1, <3>1, ShortChannels, Zenon DEF ClientRepeats
    <3>3. due' # "client" /\ Cost(1, 0)' /\ sPhase' = sPhase /\ sTerms' = sTerms /\ cPhase' = "hello"
      BY <1>n, <2>1, <3>1 DEF ClientRepeats, Cost
    <3>4. QED  BY <1>p, <1>s2, <3>2, <3>3 DEF Heard
  <2>3. CASE ServerInsists
    <3>1. PICK p \in ItsProposals : toClient' = <<p>>
      BY <2>1, <2>3, ShortChannels, Zenon DEF ServerInsists
    <3>2. /\ toServer' = <<>> /\ due' # "server" /\ Cost(1, 1)' /\ sPhase' = "proposed" /\ sPhase = "proposed"
          /\ sTerms' = sTerms /\ cPhase' = "hello"
      BY <1>n, <2>1, <2>3 DEF ServerInsists, Cost
    <3>3. QED  BY <1>a, <1>p, <1>s3, <1>t, <3>1, <3>2 DEF Told
  <2>4. ~(ClientAccepts \/ ServerOffers \/ ServerOffersAgain \/ OneIsLost)
    BY <2>1 DEF ClientAccepts, ServerOffers, ServerOffersAgain, OneIsLost
  <2>5. QED  BY <2>2, <2>3, <2>4
<1>2. ASSUME NEW g \in OwnGreetings, Heard(g), due # "client", Cost(1, 0)
      PROVE  Calling' /\ cPhase' = "hello"
  <2>1. /\ toServer = <<g>> /\ toServer # <<>> /\ Tail(toServer) = <<>> /\ toClient = <<>> /\ ~Silent
        /\ cTries <= losses + 1 /\ sTries <= losses
    BY <1>2, <1>n, LinesSay DEF Silent, Cost, Heard
  <2>2. CASE ServerOffers
    <3>1. PICK p \in ItsProposals' : toClient' = <<p>>
      BY <2>1, <2>2, ShortChannels, Zenon DEF ServerOffers
    <3>2. /\ toServer' = <<>> /\ due' # "server" /\ Cost(1, 1)' /\ sPhase' = "proposed"
          /\ sTerms' = Proposed(offer, ServerLimit) /\ cPhase' = "hello"
      BY <1>n, <2>1, <2>2 DEF ServerOffers, Cost
    <3>3. QED  BY <1>s3, <3>1, <3>2 DEF Told
  <2>3. CASE ServerOffersAgain
    <3>1. PICK p \in ItsProposals : toClient' = <<p>>
      BY <2>1, <2>3, ShortChannels, Zenon DEF ServerOffersAgain
    <3>2. /\ toServer' = <<>> /\ due' # "server" /\ Cost(1, 1)' /\ sPhase' = "proposed" /\ sPhase = "proposed"
          /\ sTerms' = sTerms /\ cPhase' = "hello"
      BY <1>n, <2>1, <2>3 DEF ServerOffersAgain, Cost
    <3>3. QED  BY <1>a, <1>s3, <1>t, <3>1, <3>2 DEF Told
  <2>4. CASE ServerInsists
    <3>1. PICK p \in ItsProposals : toClient' = <<p>>
      BY <2>1, <2>4, ShortChannels, Zenon DEF ServerInsists
    <3>2. /\ toServer' = <<g>> /\ due' = "none" /\ Cost(2, 1)' /\ sPhase' = "proposed" /\ sPhase = "proposed"
          /\ sTerms' = sTerms /\ cPhase' = "hello"
      BY <1>n, <2>1, <2>4 DEF ServerInsists, Cost
    <3>3. QED  BY <1>s4, <3>1, <3>2
  <2>5. CASE OneIsLost
    <3>1. toServer' = <<>> /\ toClient' = <<>> /\ Cost(0, 0)' /\ sPhase' = sPhase /\ sTerms' = sTerms /\ cPhase' = "hello"
      BY <1>n, <2>1, <2>5 DEF OneIsLost, Cost
    <3>2. QED  BY <1>s1, <3>1 DEF Silent
  <2>6. ~(ClientAccepts \/ \E h \in OwnGreetings : ClientRepeats(h))
    BY <1>2, <2>1 DEF ClientAccepts, ClientRepeats
  <2>7. QED  BY <2>2, <2>3, <2>4, <2>5, <2>6
<1>3. ASSUME sPhase = "proposed", NEW p \in ItsProposals, due # "server", Told(p), Cost(1, 1)
      PROVE  (cPhase' = "hello" => Calling') /\ (cPhase' = "who" => Presenting')
  <2>1. /\ toClient = <<p>> /\ toClient # <<>> /\ Tail(toClient) = <<>> /\ toServer = <<>> /\ ~Silent
        /\ cTries <= losses + 1 /\ sTries <= losses + 1
    BY <1>3, <1>n, LinesSay DEF Silent, Cost, Told
  <2>2. CASE \E g \in OwnGreetings : ClientRepeats(g)
    <3>1. PICK g \in OwnGreetings : ClientRepeats(g)
      BY <2>2
    <3>2. toServer' = <<g>>
      BY <2>1, <3>1, ShortChannels, Zenon DEF ClientRepeats
    <3>3. /\ toClient' = <<p>> /\ due' = "none" /\ Cost(2, 1)' /\ sPhase' = "proposed" /\ sTerms' = sTerms
          /\ cPhase' = "hello"
      BY <1>3, <1>n, <2>1, <3>1 DEF ClientRepeats, Cost
    <3>4. QED  BY <1>3, <1>s4, <3>2, <3>3
  <2>3. CASE ClientAccepts
    <3>1. toServer' = <<Hru>>
      BY <2>1, <2>3, ShortChannels, Zenon DEF ClientAccepts
    <3>2. /\ toClient' = <<>> /\ due' = "none" /\ Cost(1, 1)' /\ sPhase' = "proposed"
          /\ cPhase' # "hello"
      BY <1>3, <1>n, <2>1, <2>3 DEF ClientAccepts, Cost
    <3>3. QED  BY <1>a, <3>1, <3>2 DEF Presenting, Acknowledging, Heard
  <2>4. CASE OneIsLost
    <3>1. toServer' = <<>> /\ toClient' = <<>> /\ Cost(0, 0)' /\ sPhase' = sPhase /\ sTerms' = sTerms /\ cPhase' = "hello"
      BY <1>n, <2>1, <2>4 DEF OneIsLost, Cost
    <3>2. QED  BY <1>s1, <3>1 DEF Silent
  <2>5. ~(ServerOffers \/ ServerOffersAgain \/ ServerInsists)
    BY <1>3, <2>1 DEF ServerOffers, ServerOffersAgain, ServerInsists
  <2>6. QED  BY <2>2, <2>3, <2>4, <2>5
<1>4. ASSUME sPhase = "proposed", NEW g \in OwnGreetings, NEW p \in ItsProposals, due = "none",
             toServer = <<g>>, toClient = <<p>>, Cost(2, 1)
      PROVE  (cPhase' = "hello" => Calling') /\ (cPhase' = "who" => Presenting')
  <2>1. /\ toServer # <<>> /\ Tail(toServer) = <<>> /\ toClient # <<>> /\ Tail(toClient) = <<>> /\ ~Silent
        /\ cTries <= losses + 2 /\ sTries <= losses + 1
    <3>1. toServer # <<>> /\ Tail(toServer) = <<>> /\ toClient # <<>> /\ Tail(toClient) = <<>>
      BY <1>4, ShortReads
    <3>2. QED  BY <1>4, <1>n, <3>1 DEF Silent, Cost
  <2>2. CASE ClientAccepts
    <3>1. toServer' = <<g, Hru>>
      BY <1>4, <2>2, ShortChannels, Zenon DEF ClientAccepts
    <3>2. /\ toClient' = <<>> /\ due' = "none" /\ Cost(1, 1)' /\ sPhase' = "proposed"
          /\ cPhase' # "hello"
      BY <1>4, <1>n, <2>1, <2>2 DEF ClientAccepts, Cost
    <3>3. QED  BY <1>a, <3>1, <3>2 DEF Presenting, Acknowledging
  <2>3. CASE ServerOffersAgain
    <3>1. PICK q \in ItsProposals : toClient' = <<p, q>>
      BY <1>4, <2>3, ShortChannels, Zenon DEF ServerOffersAgain
    <3>2. /\ toServer' = <<>> /\ due' = "none" /\ Cost(2, 2)' /\ sPhase' = "proposed"
          /\ sTerms' = sTerms /\ cPhase' = "hello"
      BY <1>4, <1>n, <2>1, <2>3 DEF ServerOffersAgain, Cost
    <3>3. QED  BY <1>4, <1>s5, <3>1, <3>2
  <2>4. CASE OneIsLost /\ toServer' = Tail(toServer) /\ toClient' = toClient
    <3>1. /\ toServer' = <<>> /\ toClient' = <<p>> /\ Cost(1, 1)' /\ sPhase' = "proposed" /\ due' = "none"
          /\ sTerms' = sTerms /\ cPhase' = "hello"
      BY <1>4, <1>n, <2>1, <2>4 DEF OneIsLost, Cost
    <3>2. QED  BY <1>a, <1>4, <1>s3, <1>t, <3>1 DEF Told
  <2>5. CASE OneIsLost /\ toServer' = toServer /\ toClient' = Tail(toClient)
    <3>1. /\ toServer' = <<g>> /\ toClient' = <<>> /\ Cost(1, 0)' /\ sPhase' = sPhase /\ due' # "client"
          /\ sTerms' = sTerms /\ cPhase' = "hello"
      BY <1>4, <1>n, <2>1, <2>5 DEF OneIsLost, Cost
    <3>2. QED  BY <1>s2, <3>1 DEF Heard
  <2>6. ~(ServerOffers \/ ServerInsists \/ \E h \in OwnGreetings : ClientRepeats(h))
    BY <1>4, <2>1 DEF ServerOffers, ServerInsists, ClientRepeats
  <2>7. QED  BY <2>2, <2>3, <2>4, <2>5, <2>6 DEF OneIsLost
<1>5. ASSUME sPhase = "proposed", NEW p \in ItsProposals, NEW q \in ItsProposals, due = "none",
             toServer = <<>>, toClient = <<p, q>>, Cost(2, 2)
      PROVE  (cPhase' = "hello" => Calling') /\ (cPhase' = "who" => Presenting')
  <2>1. /\ toClient # <<>> /\ Tail(toClient) = <<q>> /\ ~Silent /\ cTries <= losses + 2 /\ sTries <= losses + 2
    <3>1. toClient # <<>> /\ Tail(toClient) = <<q>>
      BY <1>5, ShortReads
    <3>2. QED  BY <1>5, <1>n, <3>1 DEF Silent, Cost
  <2>2. CASE ClientAccepts
    <3>1. toServer' = <<Hru>>
      BY <1>5, <2>2, ShortChannels, Zenon DEF ClientAccepts
    <3>2. /\ toClient' = <<q>> /\ due' = "none" /\ Cost(1, 2)' /\ sPhase' = "proposed" /\ sTerms' = sTerms
          /\ cPhase' # "hello"
      BY <1>5, <1>n, <2>1, <2>2 DEF ClientAccepts, Cost
    <3>3. QED  BY <1>a, <3>1, <3>2 DEF Presenting, Acknowledging
  <2>3. CASE OneIsLost
    <3>1. /\ toServer' = <<>> /\ toClient' = <<q>> /\ Cost(1, 1)' /\ sPhase' = "proposed" /\ due' = "none"
          /\ sTerms' = sTerms /\ cPhase' = "hello"
      BY <1>5, <1>n, <2>1, <2>3 DEF OneIsLost, Cost
    <3>2. QED  BY <1>a, <1>5, <1>s3, <1>t, <3>1 DEF Told
  <2>4. ~(ServerOffers \/ ServerOffersAgain \/ ServerInsists \/ \E h \in OwnGreetings : ClientRepeats(h))
    BY <1>5, <2>1 DEF ServerOffers, ServerOffersAgain, ServerInsists, ClientRepeats
  <2>5. QED  BY <2>2, <2>3, <2>4
<1>6. CASE /\ sPhase = "proposed"
           /\ \E g \in OwnGreetings, p, q \in ItsProposals :
                \/ due # "server" /\ Told(p) /\ Cost(1, 1)
                \/ due = "none" /\ toServer = <<g>> /\ toClient = <<p>> /\ Cost(2, 1)
                \/ due = "none" /\ toServer = <<>> /\ toClient = <<p, q>> /\ Cost(2, 2)
  <2>1. PICK g \in OwnGreetings, p \in ItsProposals, q \in ItsProposals :
                \/ due # "server" /\ Told(p) /\ Cost(1, 1)
                \/ due = "none" /\ toServer = <<g>> /\ toClient = <<p>> /\ Cost(2, 1)
                \/ due = "none" /\ toServer = <<>> /\ toClient = <<p, q>> /\ Cost(2, 2)
    BY <1>6
  <2>2. QED  BY <1>6, <1>p, <2>1, <1>3, <1>4, <1>5
<1>7. QED  BY <1>p, <1>1, <1>2, <1>6 DEF Calling

\* The client that waits for WHO? once its HRU is out.
ClientConnects == cPhase' = "connected"
ClientReadsOn ==
  /\ toClient # <<>> /\ Reply \in ItsProposals /\ toClient' = Tail(toClient)
  /\ toServer' = Append(toServer, Hru) /\ cTries' = cTries + 1 /\ cPhase' \in {"who", "connected"}
  /\ due' = "none" /\ UNCHANGED <<sPhase, sTries, sTerms, losses>>
ServerAsks ==
  /\ toServer # <<>> /\ Input[1] = "HRU" /\ toServer' = Tail(toServer)
  /\ toClient' = Append(toClient, Who) /\ sPhase' = "asked" /\ (sPhase = "proposed" => sTries' = 1)
  /\ due' = "none" /\ UNCHANGED <<cPhase, cTries, sTerms, losses>>

LEMMA PresentingReads ==
  ASSUME FewLosses, Presenting
  PROVE  /\ toServer # <<>> => Input = Hru \/ (Input \in OwnGreetings /\ sPhase = "proposed")
         /\ toServer # <<>> /\ (Input \in OwnGreetings \/ sPhase = "asked") => sTries < HelloRetries
         /\ toClient # <<>> => Reply \in ItsProposals \/ (Reply = Who /\ sPhase = "asked")
         /\ Silent \/ due = "client" => cTries < HelloRetries
         /\ Silent \/ due = "server" => sTries < HelloRetries
         /\ sPhase = "asked" => toClient # <<>> /\ due = "none"
<1>n. /\ losses \in Nat /\ cTries \in Nat /\ sTries \in Nat /\ HelloRetries \in Nat
      /\ losses + 1 < HelloRetries
  BY DEF FewLosses
<1>h. Hru \notin OwnGreetings
  BY LinesSay DEF OwnGreetings, Hru, Greetings
<1>s. ~(sPhase = "proposed" /\ sPhase = "asked")
  OBVIOUS
<1>1. CASE sPhase = "proposed" /\ Silent /\ Cost(0, 0)
  BY <1>1, <1>n DEF Silent, Cost
<1>2. CASE sPhase = "proposed" /\ due # "client" /\ Heard(Hru) /\ Cost(1, 1)
  <2>1. toServer # <<>> /\ Input = Hru /\ toClient = <<>>
    BY <1>2, LinesSay
  <2>2. QED  BY <1>2, <1>n, <1>h, <2>1 DEF Silent, Cost
<1>3. ASSUME sPhase = "proposed", due # "server", NEW p \in ItsProposals, Told(p), Cost(0, 1)
      PROVE  toServer = <<>> /\ Reply = p /\ ~Silent /\ cTries < HelloRetries
  <2>1. toClient # <<>> /\ Reply = p /\ toServer = <<>>
    BY <1>3, LinesSay
  <2>2. QED  BY <1>3, <1>n, <2>1 DEF Silent, Cost
<1>4. ASSUME NEW p \in ItsProposals, toServer = <<Hru>>, toClient = <<p>>
      PROVE  Input = Hru /\ Reply = p /\ ~Silent
  BY <1>4, ShortReads DEF Input, Reply, Silent
<1>5. ASSUME NEW g \in OwnGreetings, toServer = <<g, Hru>>, toClient = <<>>, Cost(1, 1)
      PROVE  Input = g /\ ~Silent /\ sTries < HelloRetries
  <2>1. Input = g /\ ~Silent
    BY <1>5, ShortReads DEF Input, Silent
  <2>2. QED  BY <1>5, <1>n, <2>1 DEF Cost
<1>6. ASSUME toServer = <<Hru, Hru>> PROVE Input = Hru /\ ~Silent
  BY <1>6, ShortReads DEF Input, Silent
<1>7. CASE sPhase = "proposed" /\ Acknowledging
  <2>1. CASE \E p \in ItsProposals : due # "server" /\ Cost(0, 1) /\ Told(p)
    BY <1>3, <1>7, <2>1
  <2>2. CASE \E p \in ItsProposals : due = "none" /\ toServer = <<Hru>> /\ toClient = <<p>>
    BY <1>4, <1>7, <1>h, <2>2
  <2>3. CASE \E g \in OwnGreetings : due = "none" /\ Cost(1, 1) /\ toClient = <<>> /\ toServer = <<g, Hru>>
    BY <1>5, <1>7, <2>3
  <2>4. CASE due = "none" /\ toServer = <<Hru, Hru>> /\ toClient = <<>>
    BY <1>6, <1>7, <1>h, <2>4
  <2>5. QED  BY <1>1, <1>2, <1>7, <2>1, <2>2, <2>3, <2>4 DEF Acknowledging
<1>8. CASE sPhase = "asked" /\ BeingAsked
  <2>1. CASE toServer = <<>> /\ toClient \in {<<Who>>, <<Who, Who>>}
    <3>1. toClient # <<>> /\ Reply = Who
      BY <2>1, ShortReads DEF Reply
    <3>2. QED  BY <1>8, <2>1, <3>1 DEF BeingAsked, Silent
  <2>2. CASE sTries = 1 /\ toServer = <<Hru>> /\ toClient = <<Who>>
    <3>1. toClient # <<>> /\ Reply = Who /\ Input = Hru
      BY <2>2, ShortReads DEF Reply, Input
    <3>2. sTries < HelloRetries
      BY <1>n, <2>2
    <3>3. QED  BY <1>8, <3>1, <3>2 DEF BeingAsked, Silent
  <2>3. CASE toServer = <<>> /\ \E p \in ItsProposals : toClient = <<p, Who>>
    <3>1. toClient # <<>> /\ Reply \in ItsProposals
      BY <2>3, ShortReads DEF Reply
    <3>2. QED  BY <1>8, <2>3, <3>1 DEF BeingAsked, Silent
  <2>4. QED  BY <1>8, <2>1, <2>2, <2>3 DEF BeingAsked
<1>9. QED  BY <1>7, <1>8 DEF Presenting

LEMMA WhilePresenting ==
  ASSUME HandshakeTypes, Sparing, FewLosses, cPhase = "who", Presenting, Next, ~Dial
  PROVE  \/ ClientConnects \/ ClientRepeats(Hru) \/ ClientReadsOn
         \/ ServerAsks \/ ServerOffersAgain \/ ServerInsists \/ OneIsLost
<1>a. /\ Asks' = Asks /\ Asks /\ (sPhase # "listen" => identity = Asks)
      /\ setting.prompt /\ "WHO?" \notin setting.lost /\ sPhase \in {"proposed", "asked"}
  BY PeerStays, SamePeerSameLines DEF Sparing, Presenting, HandshakeTypes, LineTypes
<1>h. /\ Hru[1] = "HRU" /\ Who[1] = "WHO?" /\ "HRU" \notin Greetings /\ "WHO?" \notin Proposals
      /\ \A g \in OwnGreetings : g[1] \in Greetings
      /\ \A p \in ItsProposals : p[1] \in Proposals
  BY LinesSay DEF Hru, Who, OwnGreetings, Greetings, Proposals
<1>b. /\ toServer # <<>> => Input = Hru \/ (Input \in OwnGreetings /\ sPhase = "proposed")
      /\ toServer # <<>> /\ (Input \in OwnGreetings \/ sPhase = "asked") => sTries < HelloRetries
      /\ toClient # <<>> => Reply \in ItsProposals \/ (Reply = Who /\ sPhase = "asked")
      /\ Silent \/ due = "client" => cTries < HelloRetries
      /\ Silent \/ due = "server" => sTries < HelloRetries
      /\ sPhase = "asked" => toClient # <<>> /\ due = "none"
  BY PresentingReads
<1>d. \/ RecvWho \/ WhoTimeout \/ RecvGreetingAgain \/ ProposalTimeout
      \/ RecvHru \/ RecvIam \/ IamTimeout \/ LoseLine
  BY <1>a DEF Next, ClientStep, ServerStep, Get, HelloTimeout, RecvAnswer, RecvAtPrompt, RecvGetReply, GetTimeout,
         RecvGreeting, RecvNoGreeting, RecvRequest, SilenceNoticed
<1>e. ~IamTimeout
  BY <1>a, <1>b DEF IamTimeout, IamDeadline, ServerDeadline, ClientReads
<1>o. sPhase = "proposed" => <<"OHRU", sTerms, identity>> \in ItsProposals
  BY <1>a DEF ItsProposals, Proposals
<1>1. CASE RecvWho
  <2>1. toClient # <<>> /\ (Reply = Who \/ Reply \in ItsProposals)
    BY <1>1, <1>b DEF RecvWho, TakeReply
  <2>2. CASE Connected
    BY <2>2 DEF Connected, ClientConnects
  <2>3. CASE ~Connected
    <3>1. HruAgain /\ Reply[1] \in Proposals
      BY <1>1, <1>h, <2>1, <2>3 DEF RecvWho
    <3>2. Reply \in ItsProposals
      BY <1>h, <2>1, <3>1
    <3>3. QED  BY <1>1, <2>1, <3>1, <3>2 DEF RecvWho, TakeReply, OfClient, serverVars, world, HruAgain, ClientSays, ClientReadsOn, Hru
  <2>4. QED  BY <2>2, <2>3
<1>2. CASE WhoTimeout
  <2>1. (due = "client" /\ due' = "none") \/ (Silent /\ due' # "client")
    BY <1>2, <1>a DEF WhoTimeout, NoReply, ClientDeadline, Silent
  <2>2. CASE Basic
    BY <1>2, <2>2 DEF WhoTimeout, RepeatsHru, Connected, ClientConnects
  <2>3. CASE ~Basic
    <3>1. HruAgain /\ cPhase' = "who"
      BY <1>2, <1>b, <2>1, <2>3 DEF WhoTimeout, RepeatsHru, HruAgain
    <3>2. QED  BY <1>2, <2>1, <3>1 DEF WhoTimeout, NoReply, OfClient, serverVars, world, HruAgain, ClientSays, ClientRepeats, Hru
  <2>4. QED  BY <2>2, <2>3
<1>3. CASE RecvGreetingAgain
  <2>1. /\ toServer # <<>> /\ sPhase = "proposed" /\ due' = "none" /\ UNCHANGED <<cPhase, cTries, losses>>
        /\ toServer' = Tail(toServer) /\ Input[1] \in Greetings
    BY <1>3 DEF RecvGreetingAgain, TakeInput, OfServer, clientVars, world
  <2>2. MorePasses
    BY <1>b, <1>h, <2>1 DEF MorePasses
  <2>3. /\ sTries' = sTries + 1 /\ toClient' = Append(toClient, <<"OHRU", sTerms, identity>>)
        /\ UNCHANGED <<sPhase, sTerms>>
    BY <1>3, <2>1, <2>2 DEF RecvGreetingAgain, ServerSays, RepeatedTerms
  <2>4. QED  BY <1>o, <2>1, <2>3 DEF ServerOffersAgain
<1>4. CASE ProposalTimeout
  <2>1. (due = "server" /\ due' = "none") \/ (Silent /\ due' # "server")
    BY <1>4, <1>a DEF ProposalTimeout, NoInput, ServerDeadline, ClientReads, Silent
  <2>2. sPhase = "proposed" /\ UNCHANGED <<toServer, cPhase, cTries, losses>> /\ MorePasses
    BY <1>4, <1>b, <2>1 DEF ProposalTimeout, NoInput, clientVars, world, MorePasses
  <2>3. /\ sTries' = sTries + 1 /\ toClient' = Append(toClient, <<"OHRU", sTerms, identity>>)
        /\ UNCHANGED <<sPhase, sTerms>>
    BY <1>4, <2>2 DEF ProposalTimeout, ServerSays
  <2>4. QED  BY <1>o, <2>1, <2>2, <2>3 DEF ServerInsists
<1>5. CASE RecvHru
  <2>1. /\ toServer # <<>> /\ toServer' = Tail(toServer) /\ sPhase = "proposed" /\ due' = "none"
        /\ UNCHANGED <<cPhase, cTries, losses>> /\ Input[1] = "HRU"
    BY <1>5, <1>b, <1>h DEF RecvHru, TakeInput, OfServer, clientVars, world
  <2>2. sPhase' = "asked" /\ sTries' = 1 /\ toClient' = Append(toClient, Who) /\ sTerms' = sTerms
    BY <1>5, <1>a, <2>1 DEF RecvHru, AfterHru, ImplicitHru, ServerSays, Who
  <2>3. QED  BY <2>1, <2>2 DEF ServerAsks
<1>6. CASE RecvIam
  <2>1. /\ toServer # <<>> /\ sPhase = "asked" /\ due' = "none" /\ UNCHANGED <<cPhase, cTries, losses>>
        /\ Input[1] = "HRU" /\ MorePasses
    BY <1>6, <1>b, <1>h DEF RecvIam, OfServer, clientVars, world, MorePasses
  <2>2. /\ sPhase' = "asked" /\ toServer' = Tail(toServer) /\ toClient' = Append(toClient, Who)
        /\ sTerms' = sTerms
    BY <1>6, <2>1 DEF RecvIam, ServerSays, Who
  <2>3. QED  BY <2>1, <2>2 DEF ServerAsks
<1>7. CASE LoseLine
  BY <1>7, <1>a DEF LoseLine, clientVars, serverVars, OneIsLost
<1>8. QED  BY <1>d, <1>e, <1>1, <1>2, <1>3, <1>4, <1>5, <1>6, <1>7

\* From each state of a client that presents itself to another.
LEMMA PresentingGoesOn ==
  ASSUME HandshakeTypes, [Next]_vars, offer' = offer, FewLosses, Presenting,
         \/ ClientRepeats(Hru) \/ ClientReadsOn
         \/ ServerAsks \/ ServerOffersAgain \/ ServerInsists \/ OneIsLost
  PROVE  Presenting'
<1>a. /\ OwnGreetings' = OwnGreetings /\ (sTerms' = sTerms => ItsProposals' = ItsProposals)
      /\ Hru' = Hru /\ Who' = Who /\ Hru # Who /\ Hru[1] = "HRU" /\ Who[1] = "WHO?"
      /\ \A p \in ItsProposals : p[1] \in Proposals /\ p # Who
      /\ \A g \in OwnGreetings : g[1] \in Greetings /\ g[1] # "HRU"
      /\ "HRU" \notin Greetings
  <2>1. /\ OwnGreetings' = OwnGreetings /\ (sTerms' = sTerms => ItsProposals' = ItsProposals)
        /\ Hru' = Hru /\ Who' = Who
    BY PeerStays, SamePeerSameLines DEF OwnGreetings, ItsProposals, Hru, Who, Word, Asks
  <2>2. /\ Hru[1] = "HRU" /\ Who[1] = "WHO?"
        /\ \A p \in ItsProposals : p[1] \in Proposals
        /\ \A g \in OwnGreetings : g[1] \in Greetings
    BY LinesSay DEF Hru, Who, OwnGreetings
  <2>3. "HRU" \notin Greetings /\ "WHO?" \notin Proposals
    BY DEF Greetings, Proposals
  <2>4. Hru # Who /\ \A p \in ItsProposals : p # Who
    BY <2>2, <2>3
  <2>5. \A g \in OwnGreetings : g[1] # "HRU"
    BY <2>2, <2>3
  <2>6. QED  BY <2>1, <2>2, <2>3, <2>4, <2>5
<1>n. losses \in Nat /\ cTries \in Nat /\ sTries \in Nat
  BY DEF FewLosses
<1>b. sTerms' = sTerms
  BY DEF ClientRepeats, ClientReadsOn, ServerAsks, ServerOffersAgain, ServerInsists, OneIsLost
\* The shapes a step may end in.
<1>s1. ASSUME sPhase' = "proposed", toServer' = <<>>, toClient' = <<>>, Cost(0, 0)' PROVE Presenting'
  BY <1>s1 DEF Presenting, Acknowledging, Silent
<1>s2. ASSUME sPhase' = "proposed", toServer' = <<Hru>>, toClient' = <<>>, due' # "client", Cost(1, 1)'
       PROVE  Presenting'
  BY <1>a, <1>s2 DEF Presenting, Acknowledging, Heard
<1>s3. ASSUME sPhase' = "proposed", NEW p \in ItsProposals, toServer' = <<>>, toClient' = <<p>>,
              due' # "server", Cost(0, 1)'
       PROVE  Presenting'
  BY <1>a, <1>b, <1>s3 DEF Presenting, Acknowledging, Told
<1>s4. ASSUME sPhase' = "proposed", NEW p \in ItsProposals, toServer' = <<Hru>>, toClient' = <<p>>,
              due' = "none", Cost(1, 2)'
       PROVE  Presenting'
  BY <1>a, <1>b, <1>s4 DEF Presenting, Acknowledging
<1>s6. ASSUME sPhase' = "proposed", toServer' = <<Hru, Hru>>, toClient' = <<>>, due' = "none", Cost(2, 2)'
       PROVE  Presenting'
  BY <1>a, <1>s6 DEF Presenting, Acknowledging
<1>s7. ASSUME sPhase' = "asked", due' = "none", toServer' = <<>>, toClient' \in {<<Who>>, <<Who, Who>>}
       PROVE  Presenting'
  BY <1>a, <1>s7 DEF Presenting, BeingAsked
<1>s8. ASSUME sPhase' = "asked", due' = "none", sTries' = 1, toServer' = <<Hru>>, toClient' = <<Who>>
       PROVE  Presenting'
  BY <1>a, <1>s8 DEF Presenting, BeingAsked
<1>s9. ASSUME sPhase' = "asked", due' = "none", sTries' = 1, NEW p \in ItsProposals,
              toServer' = <<>>, toClient' = <<p, Who>>
       PROVE  Presenting'
  BY <1>a, <1>b, <1>s9 DEF Presenting, BeingAsked
<1>1. CASE sPhase = "proposed" /\ Silent /\ Cost(0, 0)
  <2>1. toServer = <<>> /\ toClient = <<>> /\ cTries <= losses /\ sTries <= losses
    BY <1>1, <1>n DEF Silent, Cost
  <2>2. CASE ClientRepeats(Hru)
    <3>1. toServer' = <<Hru>> /\ toClient' = <<>>
      BY <2>1, <2>2, ShortChannels, Zenon DEF ClientRepeats
    <3>2. due' # "client" /\ Cost(1, 1)' /\ sPhase' = "proposed"
      BY <1>1, <1>n, <2>1, <2>2 DEF ClientRepeats, Cost
    <3>3. QED  BY <1>s2, <3>1, <3>2
  <2>3. CASE ServerInsists
    <3>1. PICK p \in ItsProposals : toClient' = <<p>>
      BY <2>1, <2>3, ShortChannels, Zenon DEF ServerInsists
    <3>2. toServer' = <<>> /\ due' # "server" /\ Cost(0, 1)' /\ sPhase' = "proposed"
      BY <1>1, <1>n, <2>1, <2>3 DEF ServerInsists, Cost
    <3>3. QED  BY <1>s3, <3>1, <3>2
  <2>4. ~(ClientReadsOn \/ ServerAsks \/ ServerOffersAgain \/ OneIsLost)
    BY <2>1 DEF ClientReadsOn, ServerAsks, ServerOffersAgain, OneIsLost
  <2>5. QED  BY <2>2, <2>3, <2>4
<1>2. CASE sPhase = "proposed" /\ due # "client" /\ Heard(Hru) /\ Cost(1, 1)
  <2>1. /\ toServer = <<Hru>> /\ toServer # <<>> /\ Input = Hru /\ Tail(toServer) = <<>> /\ toClient = <<>>
        /\ ~Silent /\ cTries <= losses + 1 /\ sTries <= losses + 1
    BY <1>2, <1>n, LinesSay DEF Silent, Cost, Heard
  <2>2. CASE ServerAsks
    <3>1. toClient' = <<Who>>
      BY <2>1, <2>2, ShortChannels, Zenon DEF ServerAsks
    <3>2. QED  BY <1>s7, <2>1, <2>2, <3>1 DEF ServerAsks
  <2>3. CASE ServerInsists
    <3>1. PICK p \in ItsProposals : toClient' = <<p>>
      BY <2>1, <2>3, ShortChannels, Zenon DEF ServerInsists
    <3>2. toServer' = <<Hru>> /\ due' = "none" /\ Cost(1, 2)' /\ sPhase' = "proposed"
      BY <1>2, <1>n, <2>1, <2>3 DEF ServerInsists, Cost
    <3>3. QED  BY <1>s4, <3>1, <3>2
  <2>4. CASE OneIsLost
    <3>1. toServer' = <<>> /\ toClient' = <<>> /\ Cost(0, 0)' /\ sPhase' = "proposed"
      BY <1>2, <1>n, <2>1, <2>4 DEF OneIsLost, Cost
    <3>2. QED  BY <1>s1, <3>1
  <2>5. ~(ClientRepeats(Hru) \/ ClientReadsOn \/ ServerOffersAgain)
    BY <1>2, <1>a, <2>1 DEF ClientRepeats, ClientReadsOn, ServerOffersAgain
  <2>6. QED  BY <2>2, <2>3, <2>4, <2>5
<1>3. ASSUME sPhase = "proposed", due # "server", NEW p \in ItsProposals, Told(p), Cost(0, 1)
      PROVE  Presenting'
  <2>1. /\ toClient = <<p>> /\ toClient # <<>> /\ Tail(toClient) = <<>> /\ toServer = <<>>
        /\ ~Silent /\ cTries <= losses /\ sTries <= losses + 1
    BY <1>3, <1>n, LinesSay DEF Silent, Cost, Told
  <2>2. CASE ClientRepeats(Hru)
    <3>1. toServer' = <<Hru>> /\ toClient' = <<p>>
      BY <2>1, <2>2, ShortChannels, Zenon DEF ClientRepeats
    <3>2. due' = "none" /\ Cost(1, 2)' /\ sPhase' = "proposed"
      BY <1>3, <1>n, <2>1, <2>2 DEF ClientRepeats, Cost
    <3>3. QED  BY <1>s4, <3>1, <3>2
  <2>3. CASE ClientReadsOn
    <3>1. toServer' = <<Hru>>
      BY <2>1, <2>3, ShortChannels, Zenon DEF ClientReadsOn
    <3>2. toClient' = <<>> /\ due' # "client" /\ Cost(1, 1)' /\ sPhase' = "proposed"
      BY <1>3, <1>n, <2>1, <2>3 DEF ClientReadsOn, Cost
    <3>3. QED  BY <1>s2, <3>1, <3>2
  <2>4. CASE OneIsLost
    <3>1. toServer' = <<>> /\ toClient' = <<>> /\ Cost(0, 0)' /\ sPhase' = "proposed"
      BY <1>3, <1>n, <2>1, <2>4 DEF OneIsLost, Cost
    <3>2. QED  BY <1>s1, <3>1
  <2>5. ~(ServerAsks \/ ServerOffersAgain \/ ServerInsists)
    BY <1>3, <2>1 DEF ServerAsks, ServerOffersAgain, ServerInsists
  <2>6. QED  BY <2>2, <2>3, <2>4, <2>5
<1>4. ASSUME sPhase = "proposed", due = "none", toServer = <<Hru>>, NEW p \in ItsProposals, toClient = <<p>>, Cost(1, 2)
      PROVE  Presenting'
  <2>1. /\ toServer # <<>> /\ Input = Hru /\ Tail(toServer) = <<>> /\ toClient # <<>> /\ Tail(toClient) = <<>> /\ ~Silent
        /\ cTries <= losses + 1 /\ sTries <= losses + 2
    <3>1. toServer # <<>> /\ Input = Hru /\ Tail(toServer) = <<>> /\ toClient # <<>> /\ Tail(toClient) = <<>>
      BY <1>4, ShortReads DEF Input
    <3>2. QED  BY <1>4, <1>n, <3>1 DEF Silent, Cost
  <2>2. CASE ClientReadsOn
    <3>1. toServer' = <<Hru, Hru>>
      BY <1>4, <2>2, ShortChannels, Zenon DEF ClientReadsOn
    <3>2. toClient' = <<>> /\ due' = "none" /\ Cost(2, 2)' /\ sPhase' = "proposed"
      BY <1>4, <1>n, <2>1, <2>2 DEF ClientReadsOn, Cost
    <3>3. QED  BY <1>s6, <3>1, <3>2
  <2>3. CASE ServerAsks
    <3>1. toClient' = <<p, Who>>
      BY <1>4, <2>3, ShortChannels, Zenon DEF ServerAsks
    <3>2. QED  BY <1>4, <1>s9, <2>1, <2>3, <3>1 DEF ServerAsks
  <2>4. CASE OneIsLost /\ toServer' = Tail(toServer) /\ toClient' = toClient
    <3>1. toServer' = <<>> /\ toClient' = <<p>> /\ due' # "server" /\ Cost(0, 1)' /\ sPhase' = "proposed"
      BY <1>4, <1>n, <2>1, <2>4 DEF OneIsLost, Cost
    <3>2. QED  BY <1>s3, <3>1
  <2>5. CASE OneIsLost /\ toServer' = toServer /\ toClient' = Tail(toClient)
    <3>1. toServer' = <<Hru>> /\ toClient' = <<>> /\ due' # "client" /\ Cost(1, 1)' /\ sPhase' = "proposed"
      BY <1>4, <1>n, <2>1, <2>5 DEF OneIsLost, Cost
    <3>2. QED  BY <1>s2, <3>1
  <2>6. ~(ClientRepeats(Hru) \/ ServerOffersAgain \/ ServerInsists)
    BY <1>4, <1>a, <2>1 DEF ClientRepeats, ServerOffersAgain, ServerInsists
  <2>7. QED  BY <2>2, <2>3, <2>4, <2>5, <2>6 DEF OneIsLost
<1>5. ASSUME sPhase = "proposed", due = "none", toClient = <<>>, Cost(1, 1), NEW g \in OwnGreetings, toServer = <<g, Hru>>
      PROVE  Presenting'
  <2>1. /\ toServer # <<>> /\ Input = g /\ Tail(toServer) = <<Hru>> /\ ~Silent
        /\ cTries <= losses + 1 /\ sTries <= losses + 1
    <3>1. toServer # <<>> /\ Input = g /\ Tail(toServer) = <<Hru>>
      BY <1>5, ShortReads DEF Input
    <3>2. QED  BY <1>5, <1>n, <3>1 DEF Silent, Cost
  <2>2. CASE ServerOffersAgain
    <3>1. PICK p \in ItsProposals : toClient' = <<p>>
      BY <1>5, <2>2, ShortChannels, Zenon DEF ServerOffersAgain
    <3>2. toServer' = <<Hru>> /\ due' = "none" /\ Cost(1, 2)' /\ sPhase' = "proposed"
      BY <1>5, <1>n, <2>1, <2>2 DEF ServerOffersAgain, Cost
    <3>3. QED  BY <1>s4, <3>1, <3>2
  <2>3. CASE OneIsLost
    <3>1. toServer' = <<Hru>> /\ toClient' = <<>> /\ due' # "client" /\ Cost(1, 1)' /\ sPhase' = "proposed"
      BY <1>5, <1>n, <2>1, <2>3 DEF OneIsLost, Cost
    <3>2. QED  BY <1>s2, <3>1
  <2>4. ~(ClientRepeats(Hru) \/ ClientReadsOn \/ ServerAsks \/ ServerInsists)
    BY <1>5, <1>a, <2>1 DEF ClientRepeats, ClientReadsOn, ServerAsks, ServerInsists
  <2>5. QED  BY <2>2, <2>3, <2>4
<1>6. CASE sPhase = "proposed" /\ due = "none" /\ toServer = <<Hru, Hru>> /\ toClient = <<>> /\ Cost(2, 2)
  <2>1. /\ toServer # <<>> /\ Input = Hru /\ Tail(toServer) = <<Hru>> /\ ~Silent
        /\ cTries <= losses + 2 /\ sTries <= losses + 2
    <3>1. toServer # <<>> /\ Input = Hru /\ Tail(toServer) = <<Hru>>
      BY <1>6, ShortReads DEF Input
    <3>2. QED  BY <1>6, <1>n, <3>1 DEF Silent, Cost
  <2>2. CASE ServerAsks
    <3>1. toClient' = <<Who>>
      BY <1>6, <2>2, ShortChannels, Zenon DEF ServerAsks
    <3>2. QED  BY <1>6, <1>s8, <2>1, <2>2, <3>1 DEF ServerAsks
  <2>3. CASE OneIsLost
    <3>1. toServer' = <<Hru>> /\ toClient' = <<>> /\ due' # "client" /\ Cost(1, 1)' /\ sPhase' = "proposed"
      BY <1>6, <1>n, <2>1, <2>3 DEF OneIsLost, Cost
    <3>2. QED  BY <1>s2, <3>1
  <2>4. ~(ClientRepeats(Hru) \/ ClientReadsOn \/ ServerOffersAgain \/ ServerInsists)
    BY <1>6, <1>a, <2>1 DEF ClientRepeats, ClientReadsOn, ServerOffersAgain, ServerInsists
  <2>5. QED  BY <2>2, <2>3, <2>4
<1>7. CASE sPhase = "proposed" /\ Acknowledging
  <2>1. CASE \E p \in ItsProposals : due # "server" /\ Cost(0, 1) /\ Told(p)
    BY <1>3, <1>7, <2>1
  <2>2. CASE \E p \in ItsProposals : due = "none" /\ toServer = <<Hru>> /\ Cost(1, 2) /\ toClient = <<p>>
    BY <1>4, <1>7, <2>2
  <2>3. CASE \E g \in OwnGreetings : due = "none" /\ toClient = <<>> /\ Cost(1, 1) /\ toServer = <<g, Hru>>
    BY <1>5, <1>7, <2>3
  <2>4. QED  BY <1>1, <1>2, <1>6, <1>7, <2>1, <2>2, <2>3 DEF Acknowledging
<1>8. CASE sPhase = "asked" /\ BeingAsked
  <2>a. due = "none" /\ toClient # <<>> /\ ~Silent
    BY <1>8, PresentingReads DEF Presenting, Silent
  <2>b. ~(ClientRepeats(Hru) \/ ServerOffersAgain \/ ServerInsists)
    BY <1>8, <2>a DEF ClientRepeats, ServerOffersAgain, ServerInsists
  <2>1. CASE toServer = <<>> /\ toClient \in {<<Who>>, <<Who, Who>>}
    <3>1. Reply = Who
      BY <2>1, ShortReads DEF Reply
    <3>2. ~(ClientReadsOn \/ ServerAsks \/ OneIsLost)
      BY <1>a, <2>1, <3>1 DEF ClientReadsOn, ServerAsks, OneIsLost
    <3>3. QED  BY <2>b, <3>2
  <2>2. CASE sTries = 1 /\ toServer = <<Hru>> /\ toClient = <<Who>>
    <3>1. Reply = Who /\ Tail(toServer) = <<>>
      BY <2>2, ShortReads DEF Reply
    <3>2. CASE ServerAsks
      <4>1. toClient' = <<Who, Who>>
        BY <2>2, <3>2, ShortChannels, Zenon DEF ServerAsks
      <4>2. QED  BY <1>s7, <3>1, <3>2, <4>1 DEF ServerAsks
    <3>3. CASE OneIsLost
      <4>1. toServer' = <<>> /\ toClient' = <<Who>> /\ due' = "none" /\ sPhase' = "asked"
        BY <1>8, <1>a, <2>a, <2>2, <3>1, <3>3 DEF OneIsLost
      <4>2. QED  BY <1>s7, <4>1
    <3>4. ~ClientReadsOn
      BY <1>a, <3>1 DEF ClientReadsOn
    <3>5. QED  BY <2>b, <3>2, <3>3, <3>4
  <2>3. ASSUME sTries = 1, toServer = <<>>, NEW p \in ItsProposals, toClient = <<p, Who>>
        PROVE  Presenting'
    <3>1. Tail(toClient) = <<Who>>
      BY <2>3, ShortReads
    <3>2. CASE ClientReadsOn
      <4>1. toServer' = <<Hru>>
        BY <2>3, <3>2, ShortChannels, Zenon DEF ClientReadsOn
      <4>2. QED  BY <1>8, <1>s8, <2>3, <3>1, <3>2, <4>1 DEF ClientReadsOn
    <3>3. CASE OneIsLost
      <4>1. toServer' = <<>> /\ toClient' = <<Who>> /\ due' = "none" /\ sPhase' = "asked"
        BY <1>8, <2>a, <2>3, <3>1, <3>3 DEF OneIsLost
      <4>2. QED  BY <1>s7, <4>1
    <3>4. ~ServerAsks
      BY <2>3 DEF ServerAsks
    <3>5. QED  BY <2>b, <3>2, <3>3, <3>4
  <2>4. QED  BY <1>8, <2>1, <2>2, <2>3 DEF BeingAsked
<1>9. QED  BY <1>7, <1>8 DEF Presenting

LEMMA GoesOn ==
  ASSUME HandshakeTypes, Surviving, Sparing, dials = 1, HoldsFrame(offer), ClientWaits, Next, ~Dial
  PROVE  /\ cPhase' # "failed" /\ (cPhase' = "hello" => Calling')
         /\ cPhase' = "who" => Presenting'
<1>1. FewLosses /\ offer' = offer
  BY NumbersOfLosses, OfferStays DEF Surviving
<1>2. CASE cPhase = "hello"
  BY <1>1, <1>2, WhileCalling, CallingGoesOn DEF Surviving
<1>3. CASE cPhase = "who"
  <2>1. Presenting
    BY <1>3 DEF Surviving
  <2>2. CASE ClientConnects
    BY <2>2 DEF ClientConnects
  <2>3. CASE ~ClientConnects
    <3>1. \/ ClientRepeats(Hru) \/ ClientReadsOn
          \/ ServerAsks \/ ServerOffersAgain \/ ServerInsists \/ OneIsLost
      BY <1>1, <1>3, <2>1, <2>3, WhilePresenting
    <3>2. Presenting'
      BY <1>1, <2>1, <3>1, PresentingGoesOn
    <3>3. cPhase' \in {"who", "connected"}
      BY <1>3, <3>1 DEF ClientRepeats, ClientReadsOn, ServerAsks, ServerOffersAgain, ServerInsists, OneIsLost
    <3>4. QED  BY <3>2, <3>3
  <2>4. QED  BY <2>2, <2>3
<1>4. QED  BY <1>2, <1>3 DEF ClientWaits

\* A client that no longer waits does so only after it is started again.
LEMMA WaitsNoMore ==
  ASSUME Next, ~Dial, ~ClientWaits
  PROVE  ~ClientWaits'
  BY DEF ClientWaits, Next, ClientStep, ServerStep, Get, HelloTimeout, RecvAnswer, RecvWho, WhoTimeout, RecvAtPrompt,
         RecvGetReply, GetTimeout, ClientFails, RecvGreeting, RecvNoGreeting, RecvRequest, RecvGreetingAgain,
         ProposalTimeout, RecvHru, RecvIam, IamTimeout, SilenceNoticed, LoseLine, TakeInput, NoInput, OfServer, clientVars

LEMMA SurvivingKept == HandshakeTypes /\ Surviving /\ [Next]_vars => Surviving'
<1> SUFFICES ASSUME HandshakeTypes, Surviving, [Next]_vars PROVE Surviving'
  OBVIOUS
<1>a. setting' = setting /\ (Sparing' <=> Sparing)
  BY SettingStays DEF Sparing
<1>b. dials \in Nat /\ losses \in Nat /\ setting.losses \in Nat /\ losses <= setting.losses
  BY HandshakeAssumption DEF HandshakeTypes, VariableTypes, Setting, Surviving
<1>1. CASE UNCHANGED vars
  <2>1. UNCHANGED <<clientVars, serverVars, toServer, toClient, due, world, dials>>
    BY <1>1 DEF vars
  <2>2. (Calling' <=> Calling) /\ (Presenting' <=> Presenting)
    BY <2>1 DEF clientVars, serverVars, world, Calling, Presenting, Acknowledging, BeingAsked, Silent, Heard, Told,
         Cost, OwnGreetings, ItsProposals, Hru, Who, Word, Asks
  <2>3. QED  BY <1>a, <2>1, <2>2 DEF clientVars, serverVars, world, Surviving, Silent
<1>2. CASE Dial
  <2>1. dials' = dials + 1 /\ losses' = losses
    BY <1>2 DEF Dial, world
  <2>2. ASSUME dials' = 1
        PROVE  cPhase' = "hello" /\ Calling'
    <3>1. dials = 0 /\ sPhase = "listen" /\ sTries = 0 /\ toServer = <<>> /\ losses = 0
      BY <1>b, <2>1, <2>2 DEF Surviving, Silent
    <3>2. /\ toServer' = <<Greeting("HELLO")'>> /\ toClient' = <<>> /\ cPhase' = "hello" /\ cTries' = 1
          /\ sPhase' = "listen" /\ sTries' = 0 /\ due' = "none" /\ losses' = 0
      BY <1>2, <3>1, ShortChannels DEF Dial, ClientSays, serverVars, world
    <3>3. Greeting("HELLO")' \in OwnGreetings'
      BY DEF Greeting, OwnGreetings, Greetings, Asks
    <3>4. Cost(1, 0)'
      BY <3>2 DEF Cost
    <3>5. QED  BY <3>2, <3>3, <3>4 DEF Calling, Heard
  <2>3. QED  BY <1>a, <1>b, <2>1, <2>2 DEF Surviving
<1>3. CASE Next /\ ~Dial
  <2>1. dials' = dials /\ offer' = offer /\ (losses' = losses \/ LoseLine)
    BY <1>3, OfferStays DEF Next, ClientStep, ServerStep, world, OfServer, OfClient, LoseLine,
         Get, HelloTimeout, RecvAnswer, RecvWho, WhoTimeout, RecvAtPrompt, RecvGetReply, GetTimeout,
         TakeReply, NoReply, RecvGreeting, RecvNoGreeting, RecvRequest, RecvGreetingAgain, ProposalTimeout,
         RecvHru, RecvIam, IamTimeout, SilenceNoticed, TakeInput, NoInput
  <2>2. losses' <= setting.losses
    BY <1>b, <2>1 DEF LoseLine
  <2>3. dials # 0
    <3> SUFFICES ASSUME dials = 0 PROVE FALSE
      OBVIOUS
    <3>1. cPhase = "off" /\ sPhase = "listen" /\ toServer = <<>> /\ toClient = <<>> /\ due = "none"
      BY DEF Surviving, Silent
    <3>2. ~(Get \/ ClientStep)
      BY <3>1 DEF ClientStep, Get, HelloTimeout, RecvAnswer, RecvWho, WhoTimeout, RecvAtPrompt, RecvGetReply, GetTimeout
    <3>3. QED
      BY <1>3, <3>1, <3>2 DEF Next, ServerStep, LoseLine,
         RecvGreeting, RecvNoGreeting, RecvRequest, RecvGreetingAgain, ProposalTimeout,
         RecvHru, RecvIam, IamTimeout, IamDeadline, SilenceNoticed, TakeInput
  <2>4. ASSUME Sparing, dials = 1, HoldsFrame(offer)
        PROVE  (cPhase' = "hello" => Calling') /\ (cPhase' = "who" => Presenting')
    <3>1. CASE ClientWaits
      BY <1>3, <2>4, <3>1, GoesOn
    <3>2. CASE ~ClientWaits
      BY <1>3, <3>2, WaitsNoMore DEF ClientWaits
    <3>3. QED  BY <3>1, <3>2
  <2>5. QED  BY <1>a, <2>1, <2>2, <2>3, <2>4 DEF Surviving
<1>4. QED  BY <1>1, <1>2, <1>3

\* No lost line but WHO? makes the greeting itself fail: with prompt replies
\* both programs get as far as the first request although fewer lines are lost
\* than a loop has attempts, less one, and both ends may repeat their lines at
\* the same moment and cross.  Of two passes that cross, one was paid for by
\* no loss: hence the attempt that must be left.
THEOREM GreetingGetsThrough == Spec => GreetingSurvives
<1>1. Init => Surviving
  <2> SUFFICES ASSUME Init PROVE Surviving
    OBVIOUS
  <2>1. setting.losses \in Nat
    BY HandshakeAssumption DEF Init, Setting
  <2>2. QED  BY <2>1 DEF Init, Surviving, Silent
<1>2. HandshakeTypes /\ Surviving /\ [Next]_vars =>
        [/\ setting.prompt /\ "WHO?" \notin setting.lost /\ setting.losses + 1 < HelloRetries
         /\ dials = 1 /\ HoldsFrame(offer) /\ ClientWaits
         => cPhase' # "failed"]_vars
  <2> SUFFICES ASSUME HandshakeTypes, Surviving, Next, Sparing, dials = 1, HoldsFrame(offer), ClientWaits
               PROVE  cPhase' # "failed"
    BY DEF Sparing
  <2>1. CASE Dial
    BY <2>1 DEF Dial
  <2>2. CASE ~Dial
    BY <2>2, GoesOn
  <2>3. QED  BY <2>1, <2>2
<1>3. QED
  BY <1>1, <1>2, SurvivingKept, TypesAreKept, PTL DEF Spec, GreetingSurvives

=============================================================================
