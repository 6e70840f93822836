----------------------------- MODULE Handshake ------------------------------
(***************************************************************************)
(* The greeting: PcutpServer._handle_hello as serve_once calls it, and the *)
(* two clients that dial it, PcutpClient.hello and the dial-up part of     *)
(* PCUTP.BAS, up to the answer to the client's first GET.                  *)
(* What is negotiated is computed by the operators of Negotiation.         *)
(***************************************************************************)
EXTENDS Negotiation, Sequences

CONSTANTS
  HelloRetries,  \* HELLO_RETRIES
  Offers,        \* what a client may offer
  ServerLimit,   \* what the server was configured with
  FileSizes,     \* sizes of files it may be asked for
  Settings       \* what a behaviour may meet, as records of Setting

Kinds == {"HELLO", "HELLO?", "HRU", "IAM", "GET",
          "HRU?", "OHRU", "WHO?", "ERR", "FETCHING"}

(* client.py and PCUTP.BAS offer FLOW=1, IDENTITY=1 and a buffer for at     *)
(* least one of their blocks; "plain" is a peer like client.py that need    *)
(* not, which the server and the tests provide for.                         *)
Clients == {"python", "basic", "plain"}

(* Which clients dial, which lines the serial line may lose, bounds on how  *)
(* many it loses and how often a client is started, and whether every reply *)
(* that will come beats the deadline.                                       *)
Setting == [peers : SUBSET Clients, lost : SUBSET Kinds, losses : Nat, dials : Nat,
            prompt : BOOLEAN]

ASSUME HandshakeAssumption ==
  /\ HelloRetries \in Nat \ {0}
  /\ Offers \subseteq Offer /\ ServerLimit \in Limit /\ FileSizes \subseteq Nat
  /\ Settings \subseteq Setting

CPhases == {"off", "hello", "who", "connected", "asked", "served", "failed"}
SPhases == {"listen", "proposed", "asked", "session"}

VARIABLES
  cPhase,   \* the recv_line call the client is blocked in, or where it is
  cTries,   \* passes of its current loop
  peer,     \* which client it is: one device at the end of the line
  offer,    \* what it offers
  cTerms,   \* what it accepted
  sPhase,   \* the recv_line call the server is blocked in
  sTries,   \* passes of its current loop
  sTerms,   \* what it proposed
  identity, \* the peer offered IDENTITY=1
  toServer, toClient,  \* lines, as <<kind, options, with IDENTITY=1>>
  due,      \* whose deadline passes as well, as the other's just did, or "none"
  setting, losses, dials

clientVars == <<cPhase, cTries, peer, offer, cTerms>>
serverVars == <<sPhase, sTries, sTerms, identity>>
world      == <<setting, losses>>
vars       == <<clientVars, serverVars, toServer, toClient, due, world, dials>>

Word(kind)    == <<kind, NoTerms, FALSE>>
Greetings     == {"HELLO", "HELLO?"}
Proposals     == {"HRU?", "OHRU"}

Basic == peer = "basic"

Input == Head(toServer)
Reply == Head(toClient)

ClientReads == cPhase \in {"hello", "who", "asked"} \/ (Basic /\ cPhase = "connected")

-----------------------------------------------------------------------------
(* Deadlines.  All of them are HANDSHAKE_TIMEOUT.  With prompt replies one  *)
(* passes when nothing is under way; and client.py asks for its first file  *)
(* as soon as it is connected.  Two ends that wait began to when the same   *)
(* line went from one to the other: their deadlines are one latency apart,  *)
(* and the second may pass before what the first one sent is there.         *)

ClientWaits == cPhase \in {"hello", "who"}
ServerWaits == sPhase \in {"proposed", "asked"}

ClientDeadline == due = "client" \/ (toClient = <<>> /\ (setting.prompt => toServer = <<>>))
ServerDeadline ==
  \/ due = "server"
  \/ /\ toServer = <<>>
     /\ setting.prompt => /\ ClientReads => toClient = <<>>
                          /\ cPhase = "connected" => Basic

-----------------------------------------------------------------------------
(* The client. *)

OfClient     == UNCHANGED <<serverVars, world, dials>>
ClientSays(line) == toServer' = Append(toServer, line)
TakeReply    == toClient # <<>> /\ toClient' = Tail(toClient) /\ due' = "none" /\ OfClient
NoReply ==
  /\ ClientDeadline /\ UNCHANGED toClient /\ OfClient
  /\ due' = IF ServerWaits /\ toServer = <<>> /\ due # "client" THEN "server" ELSE "none"

ClientFails ==
  /\ cPhase' = "failed"
  /\ UNCHANGED <<cTries, peer, offer, cTerms, toServer>>

HoldsFrame(o) == FrameSize(o.maxblk) <= o.rxbuf
ShippedOffer(o) == o.flow /\ HoldsFrame(o)

Greeting(word) == <<word, offer, peer # "plain">>

(* The program is started: first, or again after it failed or was stopped. *)
(* Opening the port drops what had arrived.  A start takes seconds: with    *)
(* prompt replies the server has read what the last client said.            *)
Dial ==
  /\ dials < setting.dials /\ dials' = dials + 1
  /\ setting.prompt => toServer = <<>>
  /\ offer' \in {o \in Offers : peer # "plain" => ShippedOffer(o)} /\ UNCHANGED peer
  /\ ClientSays(Greeting("HELLO")')
  /\ cPhase' = "hello" /\ cTries' = 1 /\ cTerms' = NoTerms
  /\ toClient' = <<>> /\ due' = "none"
  /\ UNCHANGED <<serverVars, world>>

HelloAgain ==
  /\ cTries' = cTries + 1
  /\ ClientSays(Greeting("HELLO?"))
  /\ UNCHANGED <<cPhase, peer, offer, cTerms>>

HelloTimeout ==
  /\ cPhase = "hello" /\ NoReply
  /\ \/ cTries < HelloRetries /\ HelloAgain
     \/ cTries >= HelloRetries /\ ClientFails

Acceptable(t) == Accepts(offer, t)

(* client.py gives up on any other answer; PCUTP.BAS greets again. *)
RecvAnswer ==
  /\ cPhase = "hello" /\ TakeReply
  /\ LET t == Reply[2]
     IN  \/ /\ Reply[1] \in Proposals /\ Acceptable(t)
            /\ cPhase' = (IF Reply[3] THEN "who" ELSE "connected")
            /\ cTries' = 1 /\ cTerms' = t
            /\ ClientSays(Word("HRU"))
            /\ UNCHANGED <<peer, offer>>
         \/ /\ Reply[1] \in Proposals => ~Acceptable(t)
            /\ Reply[1] \in Proposals \/ ~Basic \/ cTries >= HelloRetries
            /\ ClientFails
         \/ /\ Reply[1] \notin Proposals /\ Basic /\ cTries < HelloRetries
            /\ HelloAgain

Connected == cPhase' = "connected" /\ UNCHANGED <<peer, offer, cTerms>>

(* The loop of client.py around WHO?: a proposal that is repeated asks for  *)
(* HRU once more, and its last pass ends the loop like IAM does.            *)
HruAgain ==
  /\ ClientSays(Word("HRU"))
  /\ cTries' = cTries + 1
  /\ cPhase' = (IF cTries < HelloRetries THEN "who" ELSE "connected")
  /\ UNCHANGED <<peer, offer, cTerms>>

RecvWho ==
  /\ cPhase = "who" /\ TakeReply
  /\ \/ /\ Reply[1] = "WHO?"
        /\ Connected
        /\ ClientSays(Word("IAM"))
        /\ UNCHANGED cTries
     \/ ~Basic /\ Reply[1] \in Proposals /\ HruAgain
     \/ ~Basic /\ Reply[1] \notin Proposals \cup {"WHO?"} /\ ClientFails
     \/ Basic /\ Reply[1] # "WHO?" /\ Connected /\ UNCHANGED <<cTries, toServer>>

GivesUpHru == FALSE   \* mutant of RepeatsHru: a lost HRU is not sent again
RepeatsHru == ~Basic /\ cTries < HelloRetries

WhoTimeout ==
  /\ cPhase = "who" /\ NoReply
  /\ \/ RepeatsHru /\ HruAgain
     \/ ~Basic /\ ~RepeatsHru /\ ClientFails
     \/ Basic /\ Connected /\ UNCHANGED <<cTries, toServer>>

(* The prompt of PCUTP.BAS reads and drops every line. *)
RecvAtPrompt ==
  /\ cPhase = "connected" /\ Basic /\ TakeReply
  /\ UNCHANGED <<clientVars, toServer>>

(* The prompt of PCUTP.BAS has read what came before the user asks. *)
Get ==
  /\ cPhase = "connected"
  /\ setting.prompt /\ Basic => toClient = <<>>
  /\ cPhase' = "asked"
  /\ ClientSays(Word("GET"))
  /\ UNCHANGED <<cTries, peer, offer, cTerms, toClient, due>> /\ OfClient

RecvGetReply ==
  /\ cPhase = "asked" /\ TakeReply
  /\ \/ /\ Reply[1] = "FETCHING"
        /\ cPhase' = "served" /\ UNCHANGED <<cTries, peer, offer, cTerms, toServer>>
     \/ Reply[1] # "FETCHING" /\ ClientFails

GetTimeout == cPhase = "asked" /\ NoReply /\ ClientFails

ClientStep ==
  \/ HelloTimeout \/ RecvAnswer \/ RecvWho \/ WhoTimeout
  \/ RecvAtPrompt \/ RecvGetReply \/ GetTimeout

-----------------------------------------------------------------------------
(* The server. *)

OfServer  == UNCHANGED <<clientVars, world, dials>> /\ due' = "none"
ServerSays(line) == toClient' = IF cPhase = "off" THEN toClient ELSE Append(toClient, line)
TakeInput == toServer # <<>> /\ toServer' = Tail(toServer) /\ OfServer
NoInput ==
  /\ ServerDeadline /\ UNCHANGED <<toServer, clientVars, world, dials>>
  /\ due' = IF ClientWaits /\ toClient = <<>> /\ due # "server" THEN "client" ELSE "none"

(* _fail, and serve_once returns. *)
Refuse ==
  /\ sPhase' = "listen" /\ sTries' = 0
  /\ ServerSays(Word("ERR"))
  /\ UNCHANGED <<sTerms, identity>>

(* An exception leaves serve_once: the daemon discards its input.          *)
Dropped ==
  /\ sPhase' = "listen" /\ sTries' = 0
  /\ toServer' = <<>>
  /\ UNCHANGED <<sTerms, identity>>

OnePassMore == sTries <= HelloRetries   \* mutant of MorePasses
MorePasses  == sTries < HelloRetries

Propose ==
  /\ sPhase' = "proposed" /\ sTries' = 1
  /\ sTerms' = Proposed(Input[2], ServerLimit) /\ identity' = Input[3]
  /\ ServerSays(<<IF Input[1] = "HELLO" THEN "HRU?" ELSE "OHRU", sTerms', identity'>>)

(* The first line of serve_once, and in a session a peer that restarted.    *)
(* A buffer that cannot hold a frame is an exception, and nobody is told.   *)
RecvGreeting ==
  /\ sPhase \in {"listen", "session"} /\ OfServer
  /\ toServer # <<>> /\ Input[1] \in Greetings
  /\ IF CanServe(Input[2], ServerLimit)
       THEN toServer' = Tail(toServer) /\ Propose
       ELSE Dropped /\ UNCHANGED toClient

RecvNoGreeting ==
  /\ sPhase = "listen" /\ TakeInput
  /\ Input[1] \notin Greetings
  /\ Refuse

(* _handle_get. *)
RecvRequest ==
  /\ sPhase = "session" /\ OfServer
  /\ toServer # <<>> /\ Input[1] \notin Greetings
  /\ IF Input[1] = "GET"
       THEN /\ toServer' = Tail(toServer)
            /\ ServerSays(Word("FETCHING"))
            /\ UNCHANGED serverVars
       ELSE ServerSays(Word("ERR")) /\ Dropped

(* Mutant of RepeatedTerms: a repeated greeting is negotiated afresh, but   *)
(* only the line says so.                                                   *)
FreshTerms    == Proposed(Input[2], ServerLimit)
RepeatedTerms == sTerms

(* The proposal is repeated for a greeting; each pass counts. *)
RecvGreetingAgain ==
  /\ sPhase = "proposed" /\ TakeInput
  /\ Input[1] \in Greetings
  /\ \/ /\ MorePasses
        /\ sTries' = sTries + 1
        /\ ServerSays(<<"OHRU", RepeatedTerms, identity>>)
        /\ UNCHANGED <<sPhase, sTerms, identity>>
     \/ /\ ~MorePasses
        /\ sPhase' = "listen" /\ sTries' = 0
        /\ toClient' = toClient \o <<<<"OHRU", RepeatedTerms, identity>>, Word("ERR")>>
        /\ UNCHANGED <<sTerms, identity>>

ProposalTimeout ==
  /\ sPhase = "proposed" /\ NoInput
  /\ \/ /\ MorePasses
        /\ sTries' = sTries + 1
        /\ ServerSays(<<"OHRU", sTerms, identity>>)
        /\ UNCHANGED <<sPhase, sTerms, identity>>
     \/ ~MorePasses /\ Refuse

(* The first GET of a peer that is not asked who it is acknowledges too. *)
ImplicitHru == Input[1] = "GET" /\ ~identity

(* Mutant of AfterHru: the session starts before the client was asked. *)
SessionAfterHru == "session"
AfterHru        == "asked"

RecvHru ==
  /\ sPhase = "proposed" /\ TakeInput
  /\ Input[1] \notin Greetings
  /\ UNCHANGED <<sTerms, identity>>
  /\ \/ /\ Input[1] = "HRU" /\ identity
        /\ sPhase' = AfterHru /\ sTries' = 1
        /\ ServerSays(Word("WHO?"))
     \/ /\ Input[1] = "HRU" /\ ~identity
        /\ sPhase' = "session" /\ sTries' = 0
        /\ UNCHANGED toClient
     \/ /\ ImplicitHru
        /\ sPhase' = "session" /\ sTries' = 0
        /\ ServerSays(Word("FETCHING"))
     \/ /\ Input[1] # "HRU" /\ ~ImplicitHru
        /\ Refuse

RecvIam ==
  /\ sPhase = "asked" /\ toServer # <<>> /\ OfServer
  /\ \/ /\ Input[1] = "IAM"
        /\ toServer' = Tail(toServer)
        /\ sPhase' = "session" /\ sTries' = 0
        /\ UNCHANGED <<sTerms, identity, toClient>>
     \/ /\ Input[1] = "HRU" /\ MorePasses
        /\ toServer' = Tail(toServer)
        /\ sTries' = sTries + 1
        /\ ServerSays(Word("WHO?"))
        /\ UNCHANGED <<sPhase, sTerms, identity>>
     \/ /\ Input[1] # "IAM" /\ (Input[1] = "HRU" => ~MorePasses)
        /\ Dropped
        /\ UNCHANGED toClient

NeverAsks    == FALSE   \* mutant of IamDeadline: the server waits for ever
IamDeadline  == sPhase = "asked"

(* A line that is under way as the deadline passes may come after the       *)
(* input was discarded.                                                     *)
IamTimeout ==
  /\ IamDeadline /\ ServerDeadline
  /\ \/ Dropped
     \/ /\ due = "server"
        /\ sPhase' = "listen" /\ sTries' = 0
        /\ UNCHANGED <<toServer, sTerms, identity>>
  /\ UNCHANGED toClient /\ OfServer

(* The keepalive of a session nobody is left in. *)
SilenceNoticed ==
  /\ sPhase = "session" /\ toServer = <<>> /\ cPhase \in {"off", "failed"}
  /\ Dropped
  /\ UNCHANGED toClient /\ OfServer

ServerStep ==
  \/ RecvGreeting \/ RecvNoGreeting \/ RecvRequest
  \/ RecvGreetingAgain \/ ProposalTimeout \/ RecvHru \/ RecvIam \/ IamTimeout
  \/ SilenceNoticed

LoseLine ==
  /\ losses < setting.losses /\ losses' = losses + 1
  /\ UNCHANGED <<clientVars, serverVars, due, setting, dials>>
  /\ \/ /\ toServer # <<>> /\ Input[1] \in setting.lost
        /\ toServer' = Tail(toServer) /\ UNCHANGED toClient
     \/ /\ toClient # <<>> /\ Reply[1] \in setting.lost
        /\ toClient' = Tail(toClient) /\ UNCHANGED toServer

Init ==
  /\ cPhase = "off" /\ cTries = 0 /\ cTerms = NoTerms
  /\ setting \in Settings /\ peer \in setting.peers /\ offer \in Offers
  /\ sPhase = "listen" /\ sTries = 0 /\ sTerms = NoTerms /\ identity = FALSE
  /\ toServer = <<>> /\ toClient = <<>> /\ due = "none"
  /\ losses = 0 /\ dials = 0

Next == Dial \/ Get \/ ClientStep \/ ServerStep \/ LoseLine

Spec == Init /\ [][Next]_vars

(* Both programs run, and client.py asks for its file once it is connected. *)
(* Nobody is obliged to dial, nor to type GET at the prompt of PCUTP.BAS.   *)
FairSpec ==
  /\ Spec
  /\ WF_vars(ClientStep) /\ WF_vars(ServerStep) /\ WF_vars(~Basic /\ Get)

-----------------------------------------------------------------------------
(* Properties. *)

(* Every variable has its type; no loop makes more than HELLO_RETRIES       *)
(* passes, and one more for the HRU that ends the client's loop.            *)
LineType == Kinds \X (Offer \union Terms) \X BOOLEAN
TypeOK ==
  /\ cPhase \in CPhases /\ cTries \in 0 .. HelloRetries + 1
  /\ peer \in Clients /\ offer \in Offers /\ cTerms \in Terms
  /\ sPhase \in SPhases /\ sTries \in 0 .. HelloRetries /\ sTerms \in Terms
  /\ identity \in BOOLEAN
  /\ toServer \in Seq(LineType) /\ toClient \in Seq(LineType)
  /\ setting \in Settings /\ losses \in Nat /\ dials \in Nat
  /\ due \in {"none", "client", "server"}

Repeated    == {"HELLO", "HELLO?", "HRU", "HRU?", "OHRU", "WHO?"}
Recoverable == setting.prompt /\ setting.lost \subseteq Repeated /\ setting.losses < HelloRetries

(* A connected client and a server in session have the same terms, whatever *)
(* was lost or repeated and although the client was started again in the    *)
(* middle of it with another offer.  When replies may be late it does not   *)
(* hold: a client waiting for WHO? takes the proposal of a server that gave *)
(* up and began anew for a repeated one, and does not read it.              *)
Agreement ==
  Recoverable /\ cPhase \in {"connected", "asked", "served"} /\ sPhase = "session" => sTerms = cTerms

(* What the server keeps under way in a session fits into the buffer of the *)
(* client at the other end, for every file and block size: the window was   *)
(* computed for the largest block, choose_block takes another, and the      *)
(* client may have been started again with a smaller buffer in between.     *)
FlightFits ==
  Recoverable /\ cPhase \in {"connected", "asked", "served"} /\ sPhase = "session" =>
    \A size \in FileSizes : \A block \in BlocksFor(size, sTerms) :
      sTerms.window * (block + FrameOverhead) <= offer.rxbuf

(* The server starts a session only when the client no longer waits for     *)
(* WHO?: it does not take requests from a peer that is still shaking hands. *)
(* PCUTP.BAS, which greets again at a reply that is no proposal, can be     *)
(* started four times with late lines so that it does not hold.             *)
SessionMeansAnswered == sPhase = "session" => cPhase # "who"

(* Every wait of the handshake ends. *)
HandshakeEnds ==
  /\ cPhase \in {"hello", "who", "asked"} ~> cPhase \notin {"hello", "who", "asked"}
  /\ sPhase \in {"proposed", "asked"} ~> sPhase \notin {"proposed", "asked"}

(* No lost line but WHO? makes the greeting itself fail, although both ends *)
(* may repeat their lines at the same moment and cross: a client that is    *)
(* not stopped and started again gets as far as its first request.  What    *)
(* was repeated once too often can then be read in place of the answer.     *)
GreetingSurvives ==
  [][/\ setting.prompt /\ "WHO?" \notin setting.lost /\ setting.losses + 1 < HelloRetries
     /\ dials = 1 /\ HoldsFrame(offer) /\ ClientWaits
     => cPhase' # "failed"]_vars

(* What the comments at both loops for HRU promise: a lost line of the      *)
(* greeting is sent again, so a client that is not stopped and started again *)
(* never fails.  Neither client keeps to it: see README.md.                 *)
LostLineIsRecovered == Recoverable /\ dials = 1 /\ HoldsFrame(offer) => cPhase # "failed"

=============================================================================
