----------------------- MODULE CommandManager_proofs ------------------------
(***************************************************************************)
(* Theorems about CommandManager, for every set of clients, commands and   *)
(* messages and every bound.                                               *)
(***************************************************************************)
EXTENDS CommandManager, SequenceTheorems, WellFoundedInduction, TLAPS

-----------------------------------------------------------------------------
(***************************************************************************)
(* Numbers and sequences.                                                  *)
(***************************************************************************)
\* The order of the natural numbers, as a relation.
Below == {ss \in Nat \X Nat : ss[1] < ss[2]}

\* A nonempty set of natural numbers has a least element.
LEMMA LeastNatural ==
  ASSUME NEW T \in SUBSET Nat, T # {}
  PROVE  \E m \in T : \A n \in T : m <= n
<1>1. IsWellFoundedOn(Below, Nat)
  BY NatLessThanWellFounded DEF OpToRel, Below
<1>2. PICK m \in T : \A n \in T : ~(<<n, m>> \in Below)
  BY <1>1, WFMin
<1>3. ASSUME NEW n \in T PROVE m <= n
  <2>1. n \in Nat /\ m \in Nat
    OBVIOUS
  <2>2. ~(<<n, m>> \in Nat \X Nat /\ <<n, m>>[1] < <<n, m>>[2])
    BY <1>2 DEF Below
  <2>3. ~(n < m)
    BY <2>1, <2>2
  <2>. QED  BY <2>1, <2>3
<1>. QED  BY <1>3

\* A nonempty set of natural numbers up to N has a greatest element.
LEMMA GreatestNatural ==
  ASSUME NEW N \in Nat, NEW T \in SUBSET (0 .. N), T # {}
  PROVE  \E m \in T : \A n \in T : n <= m
<1> DEFINE U == {N - t : t \in T}
<1>1. U \in SUBSET Nat /\ U # {}
  <2>1. \A t \in T : N - t \in Nat
    OBVIOUS
  <2>. QED  BY <2>1
<1>2. PICK u \in U : \A w \in U : u <= w
  <2>. HIDE DEF U
  <2>. QED  BY <1>1, LeastNatural
<1>3. PICK m \in T : u = N - m
  BY <1>2
<1>4. ASSUME NEW n \in T PROVE n <= m
  <2>1. N - n \in U
    OBVIOUS
  <2>2. u <= N - n
    BY <2>1, <1>2
  <2>3. n \in Int /\ m \in Int
    OBVIOUS
  <2>. HIDE DEF U
  <2>. QED  BY <2>2, <2>3, <1>3
<1>. QED  BY <1>4

\* A sequence of one element.
LEMMA Singleton ==
  ASSUME NEW S, NEW x \in S
  PROVE  <<x>> \in Seq(S) /\ Len(<<x>>) = 1 /\ <<x>>[1] = x
OBVIOUS

\* A sequence is its head followed by its tail.
LEMMA HeadThenTail ==
  ASSUME NEW S, NEW s \in Seq(S), s # <<>>
  PROVE  <<Head(s)>> \o Tail(s) = s
<1>1. /\ Head(s) \in S /\ Tail(s) \in Seq(S) /\ Len(Tail(s)) = Len(s) - 1
      /\ \A i \in 1 .. Len(Tail(s)) : Tail(s)[i] = s[i + 1]
  BY HeadTailProperties
<1>2. Len(s) \in Nat \ {0} /\ Head(s) = s[1]
  BY EmptySeq
<1>3. <<Head(s)>> \in Seq(S) /\ Len(<<Head(s)>>) = 1 /\ <<Head(s)>>[1] = Head(s)
  BY <1>1, Singleton
<1>4. /\ <<Head(s)>> \o Tail(s) \in Seq(S)
      /\ Len(<<Head(s)>> \o Tail(s)) = Len(s)
      /\ \A i \in 1 .. Len(s) :
           (<<Head(s)>> \o Tail(s))[i]
             = IF i <= 1 THEN <<Head(s)>>[i] ELSE Tail(s)[i - 1]
  BY <1>1, <1>2, <1>3, ConcatProperties
<1>5. \A i \in 1 .. Len(s) : (<<Head(s)>> \o Tail(s))[i] = s[i]
  BY <1>1, <1>2, <1>3, <1>4
<1>. QED  BY <1>4, <1>5, SeqEqual

\* Head and tail of a sequence made of a first element and the rest.
LEMMA HeadTailOfCons ==
  ASSUME NEW S, NEW x \in S, NEW s \in Seq(S)
  PROVE  /\ <<x>> \o s # <<>>
         /\ Head(<<x>> \o s) = x
         /\ Tail(<<x>> \o s) = s
<1>1. <<x>> \in Seq(S) /\ Len(<<x>>) = 1 /\ <<x>>[1] = x
  BY Singleton
<1>2. /\ <<x>> \o s \in Seq(S)
      /\ Len(<<x>> \o s) = 1 + Len(s)
      /\ \A i \in 1 .. 1 + Len(s) :
           (<<x>> \o s)[i] = IF i <= 1 THEN <<x>>[i] ELSE s[i - 1]
  BY <1>1, ConcatProperties
<1>3. Len(s) \in Nat
  BY LenProperties
<1>4. <<x>> \o s # <<>>
  BY <1>2, <1>3, EmptySeq
<1>5. /\ Tail(<<x>> \o s) \in Seq(S) /\ Len(Tail(<<x>> \o s)) = Len(s)
      /\ \A i \in 1 .. Len(s) : Tail(<<x>> \o s)[i] = (<<x>> \o s)[i + 1]
  BY <1>2, <1>3, <1>4, HeadTailProperties
<1>6. \A i \in 1 .. Len(s) : Tail(<<x>> \o s)[i] = s[i]
  BY <1>2, <1>3, <1>5
<1>7. Head(<<x>> \o s) = x
  BY <1>1, <1>2, <1>3
<1>. QED  BY <1>4, <1>5, <1>6, <1>7, SeqEqual

\* Appending after a first element.
LEMMA AppendToCons ==
  ASSUME NEW S, NEW x \in S, NEW s \in Seq(S), NEW y \in S
  PROVE  Append(<<x>> \o s, y) = <<x>> \o Append(s, y)
<1>1. <<x>> \in Seq(S) /\ <<y>> \in Seq(S)
  BY Singleton
<1>2. <<x>> \o s \in Seq(S)
  BY <1>1, ConcatProperties
<1>3. /\ Append(<<x>> \o s, y) = (<<x>> \o s) \o <<y>>
      /\ Append(s, y) = s \o <<y>>
  BY <1>2, AppendIsConcat
<1>. QED  BY <1>1, <1>3, ConcatAssociative

-----------------------------------------------------------------------------
(***************************************************************************)
(* The stream operators return sequences of fragments.                     *)
(***************************************************************************)

\* Changing which part of a line a fragment is leaves a fragment.
LEMMA PartTyping ==
  ASSUME NEW f \in Fragments, NEW p \in {"whole", "head", "tail"}
  PROVE  [f EXCEPT !.part = p] \in Fragments
BY DEF Fragments

\* What a read takes from a stream, and what it leaves there.
LEMMA ChunkTyping ==
  ASSUME NEW s \in Seq(Fragments), NEW n, NEW split \in BOOLEAN,
         CanRead(s, n, split)
  PROVE  /\ ChunkRead(s, n, split) \in Seq(Fragments)
         /\ LeftUnread(s, n, split) \in Seq(Fragments)
<1>1. n \in 0 .. Len(s) /\ Len(s) \in Nat /\ (split => n + 1 \in 1 .. Len(s))
  BY DEF CanRead
<1>2. /\ SubSeq(s, 1, n) \in Seq(Fragments)
      /\ SubSeq(s, n + 1, Len(s)) \in Seq(Fragments)
      /\ SubSeq(s, n + 2, Len(s)) \in Seq(Fragments)
  <2>1. \A i \in 1 .. Len(s) : s[i] \in Fragments
    BY ElementOfSeq
  <2>2. \A i \in 1 .. n : s[i] \in Fragments
    BY <1>1, <2>1
  <2>3. \A i \in n + 1 .. Len(s) : s[i] \in Fragments
    BY <1>1, <2>1
  <2>4. \A i \in n + 2 .. Len(s) : s[i] \in Fragments
    BY <1>1, <2>1
  <2>. QED  BY <1>1, <2>2, <2>3, <2>4, SubSeqProperties
<1>3. CASE split
  <2>1. s[n + 1] \in Fragments
    BY <1>1, <1>3, ElementOfSeq
  <2>2. /\ [s[n + 1] EXCEPT !.part = "head"] \in Fragments
        /\ [s[n + 1] EXCEPT !.part = "tail"] \in Fragments
    BY <2>1, PartTyping
  <2>3. /\ <<[s[n + 1] EXCEPT !.part = "head"]>> \in Seq(Fragments)
        /\ <<[s[n + 1] EXCEPT !.part = "tail"]>> \in Seq(Fragments)
    BY <2>2, Singleton
  <2>. QED  BY <1>2, <1>3, <2>3, ConcatProperties DEF ChunkRead, LeftUnread
<1>4. CASE ~ split
  <2>1. <<>> \in Seq(Fragments)
    OBVIOUS
  <2>. QED  BY <1>2, <1>4, <2>1, ConcatProperties DEF ChunkRead, LeftUnread
<1>. QED  BY <1>3, <1>4

\* Appending what was read to what is buffered.
LEMMA JoinTyping ==
  ASSUME NEW b \in Seq(Fragments), NEW chunk \in Seq(Fragments)
  PROVE  Join(b, chunk) \in Seq(Fragments)
<1>1. CASE /\ b # <<>> /\ chunk # <<>>
           /\ b[Len(b)].part = "head" /\ chunk[1].part = "tail"
  <2>1. Len(b) \in Nat \ {0} /\ Len(chunk) \in Nat \ {0}
    BY <1>1, EmptySeq
  <2>2. \A i \in 1 .. Len(b) - 1 : b[i] \in Fragments
    BY <2>1, ElementOfSeq
  <2>3. \A i \in 2 .. Len(chunk) : chunk[i] \in Fragments
    BY <2>1, ElementOfSeq
  <2>4. /\ SubSeq(b, 1, Len(b) - 1) \in Seq(Fragments)
        /\ SubSeq(chunk, 2, Len(chunk)) \in Seq(Fragments)
    BY <2>1, <2>2, <2>3, SubSeqProperties
  <2>5. b[Len(b)] \in Fragments
    BY <2>1, ElementOfSeq
  <2>6. [b[Len(b)] EXCEPT !.part = "whole"] \in Fragments
    BY <2>5, PartTyping
  <2>7. <<[b[Len(b)] EXCEPT !.part = "whole"]>> \in Seq(Fragments)
    BY <2>6, Singleton
  <2>. QED  BY <1>1, <2>4, <2>7, ConcatProperties DEF Join
<1>2. CASE ~ (/\ b # <<>> /\ chunk # <<>>
              /\ b[Len(b)].part = "head" /\ chunk[1].part = "tail")
  BY <1>2, ConcatProperties DEF Join
<1>. QED  BY <1>1, <1>2

\* What the notification engine leaves in the buffer.
LEMMA RemainderTyping ==
  ASSUME NEW b \in Seq(Fragments)
  PROVE  Remainder(b) \in Seq(Fragments) /\ CompleteLines(b) \in Seq(Fragments)
<1>1. CASE b # <<>> /\ b[Len(b)].part = "head"
  <2>1. Len(b) \in Nat \ {0}
    BY <1>1, EmptySeq
  <2>2. b[Len(b)] \in Fragments /\ \A i \in 1 .. Len(b) - 1 : b[i] \in Fragments
    BY <2>1, ElementOfSeq
  <2>3. SubSeq(b, 1, Len(b) - 1) \in Seq(Fragments)
    BY <2>1, <2>2, SubSeqProperties
  <2>. QED  BY <1>1, <2>2, <2>3, Singleton DEF Remainder, CompleteLines
<1>2. CASE ~ (b # <<>> /\ b[Len(b)].part = "head")
  BY <1>2 DEF Remainder, CompleteLines
<1>. QED  BY <1>1, <1>2

\* Where an answer or an error is found there is a last line.
LEMMA LastTyping ==
  ASSUME NEW b \in Seq(Fragments), b # <<>>
  PROVE  /\ Len(b) \in Nat \ {0}
         /\ b[Len(b)] \in Fragments
<1>1. Len(b) \in Nat \ {0}
  BY EmptySeq
<1>. QED  BY <1>1, ElementOfSeq

\* The application's copy of the state stays one message per pattern.
LEMMA DispatchTyping ==
  ASSUME NEW v \in [Patterns -> Messages \cup {NoMessage}],
         NEW b \in Seq(Fragments)
  PROVE  DispatchNotifications(v, b) \in [Patterns -> Messages \cup {NoMessage}]
<1>1. ASSUME NEW p \in Patterns, NotificationsOf(b, p) # {}
      PROVE  b[CHOOSE i \in NotificationsOf(b, p) :
                 \A j \in NotificationsOf(b, p) : j <= i].line \in Messages
  <2>1. Len(b) \in Nat
    BY LenProperties
  <2>2. NotificationsOf(b, p) \in SUBSET (0 .. Len(b))
    BY <2>1 DEF NotificationsOf
  <2>3. \E i \in NotificationsOf(b, p) : \A j \in NotificationsOf(b, p) : j <= i
    BY <1>1, <2>1, <2>2, GreatestNatural
  <2>. QED  BY <2>3 DEF NotificationsOf
<1>. QED  BY <1>1 DEF DispatchNotifications

\* The first n elements of a sequence of fragments.
LEMMA PrefixTyping ==
  ASSUME NEW b \in Seq(Fragments), NEW n \in 0 .. Len(b)
  PROVE  SubSeq(b, 1, n) \in Seq(Fragments)
<1>1. Len(b) \in Nat
  BY LenProperties
<1>2. \A i \in 1 .. n : b[i] \in Fragments
  BY <1>1, ElementOfSeq
<1>. QED  BY <1>1, <1>2, SubSeqProperties

-----------------------------------------------------------------------------
(***************************************************************************)
(* Type correctness.                                                       *)
(***************************************************************************)

\* What a callback finds in the receive buffer and leaves in the stream.
LEMMA ReadTyping ==
  ASSUME TypeOK, NEW k \in Clients, NEW n, NEW split \in BOOLEAN,
         Reads(k, n, split)
  PROVE  /\ Buffered(k, n, split) \in Seq(Fragments)
         /\ LeftUnread(toClient[k], n, split) \in Seq(Fragments)
<1>1. toClient[k] \in Seq(Fragments) /\ mReceiveBuffer[k] \in Seq(Fragments)
  BY DEF TypeOK
<1>2. CanRead(toClient[k], n, split)
  BY DEF Reads
<1>. QED  BY <1>1, <1>2, ChunkTyping, JoinTyping DEF Buffered

\* The invocations recorded when fragment f ends the active exchange.
LEMMA CallsTyping ==
  ASSUME TypeOK, NEW k \in Clients, NEW r \in {"complete", "error"},
         NEW f \in Fragments
  PROVE  Calls(k, r, f) \in [Commands -> Seq(Results)]
<1>1. [result |-> r, for |-> f.for] \in Results
  BY DEF Results, Fragments
<1>2. ASSUME NEW c \in Commands
      PROVE  Append(calls[c], [result |-> r, for |-> f.for]) \in Seq(Results)
  BY <1>1, AppendProperties DEF TypeOK
<1>. QED  BY <1>2 DEF Calls, TypeOK

\* Both ways a callback leaves the connection keep the types.
LEMMA HangupTyping ==
  ASSUME TypeOK, NEW k \in Clients,
         \/ Hangup(k)
         \/ \E left \in Seq(Fragments) : ReadOn(k, left)
  PROVE  /\ connected' \in [Clients -> BOOLEAN]
         /\ mCommandQueue' \in [Clients -> Seq(Commands)]
         /\ toServer' \in [Clients -> Seq(Commands)]
         /\ toClient' \in [Clients -> Seq(Fragments)]
         /\ sent' \in [Clients -> [Patterns -> Messages \cup {NoMessage}]]
<1>1. CASE Hangup(k)
  <2>1. <<>> \in Seq(Commands) /\ <<>> \in Seq(Fragments)
    OBVIOUS
  <2>2. NoMessages \in [Patterns -> Messages \cup {NoMessage}]
    BY DEF NoMessages
  <2>. QED  BY <1>1, <2>1, <2>2 DEF Hangup, TypeOK
<1>2. CASE \E left \in Seq(Fragments) : ReadOn(k, left)
  BY <1>2 DEF ReadOn, TypeOK
<1>. QED  BY <1>1, <1>2

\* An answer, and what is sent behind it, are lines.
LEMMA AnswerTyping ==
  ASSUME NEW c \in Commands, NEW answer \in Answers(c), NEW surplus \in Surplus[c]
  PROVE  answer \in Seq(Lines) /\ answer \o surplus \in Seq(Lines)
<1>1. Leading[c] \subseteq Seq(Messages) /\ Surplus[c] \subseteq Seq(Lines)
  BY CommandManagerAssumption DEF CommandManagerAssumption, Lines
<1>2. Seq(Messages) \subseteq Seq(Lines)
  BY DEF Lines
<1>3. answer \in Seq(Lines)
  <2>1. CASE answer = <<Error>>
    <3>1. <<Error>> \in Seq(Lines)
      BY Singleton DEF Lines
    <3>. QED  BY <2>1, <3>1
  <2>2. CASE answer # <<Error>>
    <3>1. PICK lines \in Leading[c], m \in Responses(c) : answer = lines \o <<m>>
      <4>1. answer \in UNION {{lines \o <<m>> : m \in Responses(c)} : lines \in Leading[c]}
        BY <2>2 DEF Answers
      <4>2. PICK lines \in Leading[c] : answer \in {lines \o <<m>> : m \in Responses(c)}
        BY <4>1
      <4>. QED  BY <4>2
    <3>m. m \in Messages
      BY DEF Responses
    <3>2. lines \in Seq(Lines) /\ <<m>> \in Seq(Lines)
      BY <1>1, <1>2, <3>m, Singleton DEF Lines
    <3>. QED  BY <3>1, <3>2, ConcatProperties
  <2>. QED  BY <2>1, <2>2
<1>. QED  BY <1>1, <1>3, ConcatProperties

\* The lines sent together, each a fragment of the stream.
LEMMA SentLines ==
  ASSUME NEW lines \in Seq(Lines), NEW c \in Commands \cup {NoCommand},
         NEW s, s = [i \in 1 .. Len(lines) |->
                      [line |-> lines[i], for |-> c, part |-> "whole"]]
  PROVE  /\ s \in Seq(Fragments) /\ Len(s) = Len(lines)
         /\ \A i \in 1 .. Len(s) : s[i].line = lines[i] /\ s[i].for = c
<1>1. Len(lines) \in Nat /\ \A i \in 1 .. Len(lines) : lines[i] \in Lines
  BY ElementOfSeq, LenProperties
<1>2. \A i \in 1 .. Len(lines) :
        [line |-> lines[i], for |-> c, part |-> "whole"] \in Fragments
  BY <1>1 DEF Fragments
<1>3. s \in [1 .. Len(lines) -> Fragments]
  BY <1>2
<1>4. s \in Seq(Fragments)
  BY <1>1, <1>3, SeqDef
<1>5. Len(s) = Len(lines)
  <2>1. DOMAIN s = 1 .. Len(s) /\ Len(s) \in Nat
    BY <1>4, LenProperties
  <2>2. DOMAIN s = 1 .. Len(lines)
    OBVIOUS
  <2>. QED  BY <1>1, <2>1, <2>2
<1>. QED  BY <1>4, <1>5

\* What is known to have been sent stays one message per pattern.
LEMMA SentAfterAllTyping ==
  ASSUME TypeOK, NEW k \in Clients, NEW lines \in Seq(Lines)
  PROVE  SentAfterAll(k, lines) \in [Patterns -> Messages \cup {NoMessage}]
<1>1. ASSUME NEW p \in Patterns, PositionsOf(lines, p) # {}
      PROVE  lines[CHOOSE i \in PositionsOf(lines, p) :
                      \A j \in PositionsOf(lines, p) : j <= i] \in Messages
  <2>1. Len(lines) \in Nat
    BY LenProperties
  <2>2. PositionsOf(lines, p) \in SUBSET (0 .. Len(lines))
    BY <2>1 DEF PositionsOf
  <2>3. \E i \in PositionsOf(lines, p) : \A j \in PositionsOf(lines, p) : j <= i
    BY <1>1, <2>1, <2>2, GreatestNatural
  <2>. QED  BY <2>3 DEF PositionsOf
<1>2. \A p \in Patterns : sent[k][p] \in Messages \cup {NoMessage}
  BY DEF TypeOK
<1>3. \A p \in Patterns :
        (IF PositionsOf(lines, p) = {}
         THEN sent[k][p]
         ELSE lines[CHOOSE i \in PositionsOf(lines, p) :
                      \A j \in PositionsOf(lines, p) : j <= i])
          \in Messages \cup {NoMessage}
  BY <1>1, <1>2
<1>. QED  BY <1>3 DEF SentAfterAll

LEMMA TypeInit == Init => TypeOK
BY CommandManagerAssumption
   DEF Init, TypeOK, NoMessages, CommandManagerAssumption

LEMMA TypeNext == TypeOK /\ [Next]_vars => TypeOK'
<1> SUFFICES ASSUME TypeOK, [Next]_vars PROVE TypeOK'
  OBVIOUS
<1>u. CASE UNCHANGED vars
  BY <1>u DEF vars, managerVars, signalVars, wireVars, boundVars, TypeOK
<1> SUFFICES ASSUME NEW k \in Clients, Client(k) \/ Server(k) PROVE TypeOK'
  BY <1>u DEF Next
<1>1. ASSUME NEW c \in Commands, SendCommand(k, c) PROVE TypeOK'
  <2>1. Append(mCommandQueue[k], c) \in Seq(Commands)
    BY AppendProperties DEF TypeOK
  <2>. QED  BY <1>1, <2>1 DEF SendCommand, wireVars, boundVars, TypeOK
<1>2. CASE QueuePerform(k)
  BY <1>2 DEF QueuePerform, managerVars, wireVars, boundVars, TypeOK
<1>3. CASE PerformSend(k)
  <2>1. mCommandQueue[k] \in Seq(Commands) /\ mCommandQueue[k] # <<>>
    BY <1>3 DEF PerformSend, CanSend, TypeOK
  <2>2. Head(mCommandQueue[k]) \in Commands /\ Tail(mCommandQueue[k]) \in Seq(Commands)
    BY <2>1, HeadTailProperties
  <2>3. Append(toServer[k], Head(mCommandQueue[k])) \in Seq(Commands)
    BY <2>2, AppendProperties DEF TypeOK
  <2>4. drops' \in 0 .. MaxDrops /\ toServer' \in [Clients -> Seq(Commands)]
    <3>1. CASE Written(k, Head(mCommandQueue[k]))
      BY <3>1, <2>3 DEF Written, TypeOK
    <3>2. CASE Dropped
      BY <3>2, CommandManagerAssumption DEF Dropped, TypeOK, CommandManagerAssumption
    <3>3. CASE UNCHANGED <<toServer, drops>>
      BY <3>3 DEF TypeOK
    <3>. QED  BY <1>3, <3>1, <3>2, <3>3 DEF PerformSend
  <2>5. mCurrentSendContext' \in [Clients -> Commands \cup {NoCommand}]
    <3>1. \/ UNCHANGED mCurrentSendContext
          \/ mCurrentSendContext' =
               [mCurrentSendContext EXCEPT ![k] = Head(mCommandQueue[k])]
      BY <1>3 DEF PerformSend
    <3>. QED  BY <2>2, <3>1 DEF TypeOK
  <2>6. /\ mCommandQueue' \in [Clients -> Seq(Commands)]
        /\ mActiveExchangeState' \in [Clients -> Commands \cup {NoCommand}]
        /\ queueSignaled' \in [Clients -> BOOLEAN]
        /\ sourceSignaled' \in [Clients -> BOOLEAN]
    BY <1>3, <2>2 DEF PerformSend, TypeOK
  <2>7. UNCHANGED <<mReceiveBuffer, connected, toClient, view, sent, submitted,
                    calls, crashed, connects, broadcasts>>
    BY <1>3 DEF PerformSend
  <2>. QED  BY <2>4, <2>5, <2>6, <2>7 DEF TypeOK
<1>4. CASE PerformIdle(k)
  BY <1>4 DEF PerformIdle, managerVars, wireVars, boundVars, TypeOK
<1>5. CASE ConnectionManagerDidConnect(k)
  BY <1>5, CommandManagerAssumption
     DEF ConnectionManagerDidConnect, managerVars, wireVars, TypeOK,
         CommandManagerAssumption
<1>6. CASE ConnectionManagerDidDisconnect(k)
  <2>1. <<>> \in Seq(Fragments)
    OBVIOUS
  <2>. QED  BY <1>6, <2>1, HangupTyping
            DEF ConnectionManagerDidDisconnect, EndExchange, signalVars, boundVars, TypeOK
<1>7. ASSUME NEW n, NEW split \in BOOLEAN, ReceiveCompletion(k, n, split)
      PROVE  TypeOK'
  <2> DEFINE b == Buffered(k, n, split)
  <2>1. b \in Seq(Fragments) /\ LeftUnread(toClient[k], n, split) \in Seq(Fragments)
    BY <1>7, ReadTyping DEF ReceiveCompletion
  <2>2. b # <<>>
    BY <1>7 DEF ReceiveCompletion, HasCompletion
  <2>3. b[Len(b)] \in Fragments
    <3>. HIDE DEF b
    <3>. QED  BY <2>1, <2>2, LastTyping
  <2>4. calls' \in [Commands -> Seq(Results)]
    BY <1>7, <2>3, CallsTyping DEF ReceiveCompletion
  <2>5. view' \in [Clients -> [Patterns -> Messages \cup {NoMessage}]]
    <3>1. view' = [view EXCEPT ![k] = DispatchNotifications(@, b)]
      BY <1>7 DEF ReceiveCompletion
    <3>. HIDE DEF b
    <3>. QED  BY <3>1, <2>1, DispatchTyping DEF TypeOK
  <2>6. <<>> \in Seq(Fragments)
    OBVIOUS
  <2>. QED  BY <1>7, <2>1, <2>4, <2>5, <2>6, HangupTyping
            DEF ReceiveCompletion, EndExchange, boundVars, TypeOK
<1>8. ASSUME NEW n, NEW split \in BOOLEAN, ReceiveCompletionAfterStop(k, n, split)
      PROVE  TypeOK'
  <2> DEFINE b == Buffered(k, n, split)
             notifications == SubSeq(b, 1, Len(b) - 1)
  <2>1. b \in Seq(Fragments)
    BY <1>8, ReadTyping DEF ReceiveCompletionAfterStop
  <2>2. b # <<>>
    BY <1>8 DEF ReceiveCompletionAfterStop, HasCompletion
  <2>3. notifications \in Seq(Fragments)
    <3>. HIDE DEF b
    <3>1. Len(b) - 1 \in 0 .. Len(b)
      BY <2>1, <2>2, LastTyping
    <3>. QED  BY <2>1, <3>1, PrefixTyping
  <2>4. view' \in [Clients -> [Patterns -> Messages \cup {NoMessage}]]
    <3>1. view' = [view EXCEPT ![k] = DispatchNotifications(@, notifications)]
      BY <1>8 DEF ReceiveCompletionAfterStop
    <3>. HIDE DEF b, notifications
    <3>. QED  BY <3>1, <2>3, DispatchTyping DEF TypeOK
  <2>5. <<>> \in Seq(Fragments)
    OBVIOUS
  <2>. QED  BY <1>8, <2>4, <2>5, HangupTyping
            DEF ReceiveCompletionAfterStop, EndExchange, signalVars, boundVars, TypeOK
<1>9. ASSUME NEW n, NEW split \in BOOLEAN, ReceiveError(k, n, split)
      PROVE  TypeOK'
  <2> DEFINE b == Buffered(k, n, split)
  <2>1. b \in Seq(Fragments) /\ LeftUnread(toClient[k], n, split) \in Seq(Fragments)
    BY <1>9, ReadTyping DEF ReceiveError
  <2>2. b[Len(b)] \in Fragments
    <3>1. b # <<>>
      BY <1>9 DEF ReceiveError, HasError
    <3>. HIDE DEF b
    <3>. QED  BY <2>1, <3>1, LastTyping
  <2>3. calls' \in [Commands -> Seq(Results)]
    BY <1>9, <2>2, CallsTyping DEF ReceiveError
  <2>4. <<>> \in Seq(Fragments)
    OBVIOUS
  <2>. QED  BY <1>9, <2>1, <2>3, <2>4, HangupTyping
            DEF ReceiveError, EndExchange, boundVars, TypeOK
<1>10. ASSUME NEW n, NEW split \in BOOLEAN, ReceiveAwaiting(k, n, split)
       PROVE  TypeOK'
  <2>1. /\ Buffered(k, n, split) \in Seq(Fragments)
        /\ LeftUnread(toClient[k], n, split) \in Seq(Fragments)
    BY <1>10, ReadTyping DEF ReceiveAwaiting
  <2>. QED  BY <1>10, <2>1, HangupTyping
            DEF ReceiveAwaiting, signalVars, boundVars, TypeOK
<1>11. ASSUME NEW n, NEW split \in BOOLEAN, ReceiveNotifications(k, n, split)
       PROVE  TypeOK'
  <2> DEFINE b == Buffered(k, n, split)
  <2>1. b \in Seq(Fragments) /\ LeftUnread(toClient[k], n, split) \in Seq(Fragments)
    BY <1>11, ReadTyping DEF ReceiveNotifications
  <2>2. Remainder(b) \in Seq(Fragments) /\ CompleteLines(b) \in Seq(Fragments)
    BY <2>1, RemainderTyping
  <2>3. view' \in [Clients -> [Patterns -> Messages \cup {NoMessage}]]
    <3>1. view' = [view EXCEPT ![k] = DispatchNotifications(@, CompleteLines(b))]
      BY <1>11 DEF ReceiveNotifications
    <3>. HIDE DEF b
    <3>. QED  BY <3>1, <2>2, DispatchTyping DEF TypeOK
  <2>4. <<>> \in Seq(Fragments)
    OBVIOUS
  <2>5. Hangup(k) \/ \E left \in Seq(Fragments) : ReadOn(k, left)
    BY <1>11, <2>1 DEF ReceiveNotifications
  <2>6. mReceiveBuffer' \in [Clients -> Seq(Fragments)]
    <3>1. \/ mReceiveBuffer' = [mReceiveBuffer EXCEPT ![k] = Remainder(b)]
          \/ mReceiveBuffer' = [mReceiveBuffer EXCEPT ![k] = <<>>]
      BY <1>11 DEF ReceiveNotifications
    <3>. HIDE DEF b
    <3>. QED  BY <2>2, <2>4, <3>1 DEF TypeOK
  <2>7. /\ connected' \in [Clients -> BOOLEAN]
        /\ mCommandQueue' \in [Clients -> Seq(Commands)]
        /\ toServer' \in [Clients -> Seq(Commands)]
        /\ toClient' \in [Clients -> Seq(Fragments)]
        /\ sent' \in [Clients -> [Patterns -> Messages \cup {NoMessage}]]
    BY <2>5, HangupTyping
  <2>8. /\ mActiveExchangeState' \in [Clients -> Commands \cup {NoCommand}]
        /\ UNCHANGED <<mCurrentSendContext, signalVars, submitted, calls, crashed,
                       boundVars>>
    BY <1>11 DEF ReceiveNotifications, TypeOK
  <2>. QED  BY <2>3, <2>6, <2>7, <2>8 DEF signalVars, boundVars, TypeOK
<1>12. ASSUME NEW l \in Lines, NEW c \in Commands \cup {NoCommand}, Send(k, l, c)
       PROVE  /\ toClient' \in [Clients -> Seq(Fragments)]
              /\ sent' \in [Clients -> [Patterns -> Messages \cup {NoMessage}]]
  <2>1. [line |-> l, for |-> c, part |-> "whole"] \in Fragments
    BY DEF Fragments
  <2>2. Append(toClient[k], [line |-> l, for |-> c, part |-> "whole"]) \in Seq(Fragments)
    BY <2>1, AppendProperties DEF TypeOK
  <2>3. SentAfter(k, l) \in [Patterns -> Messages \cup {NoMessage}]
    BY DEF SentAfter, TypeOK
  <2>. QED  BY <1>12, <2>2, <2>3 DEF Send, TypeOK
<1>13. CASE ServerAnswers(k)
  <2>1. toServer[k] \in Seq(Commands) /\ toServer[k] # <<>>
    BY <1>13 DEF ServerAnswers, TypeOK
  <2>2. Head(toServer[k]) \in Commands /\ Tail(toServer[k]) \in Seq(Commands)
    BY <2>1, HeadTailProperties
  <2>3. PICK c \in Commands, lines \in Seq(Lines) : SendAll(k, lines, c)
    BY <1>13, <2>2, AnswerTyping DEF ServerAnswers
  <2>4. PICK s : s = [i \in 1 .. Len(lines) |->
                       [line |-> lines[i], for |-> c, part |-> "whole"]]
    OBVIOUS
  <2>5. toClient[k] \o s \in Seq(Fragments)
    <3>1. s \in Seq(Fragments)
      BY <2>4, SentLines
    <3>2. toClient[k] \in Seq(Fragments)
      BY DEF TypeOK
    <3>. QED  BY <3>1, <3>2, ConcatProperties
  <2>6. /\ toClient' \in [Clients -> Seq(Fragments)]
        /\ sent' \in [Clients -> [Patterns -> Messages \cup {NoMessage}]]
    BY <2>3, <2>4, <2>5, SentAfterAllTyping DEF SendAll, TypeOK
  <2>. QED  BY <1>13, <2>2, <2>6
            DEF ServerAnswers, managerVars, signalVars, boundVars, TypeOK
<1>14. ASSUME NEW l \in Lines, Broadcast(k, l) PROVE TypeOK'
  <2>1. /\ toClient' \in [Clients -> Seq(Fragments)]
        /\ sent' \in [Clients -> [Patterns -> Messages \cup {NoMessage}]]
    BY <1>12, <1>14 DEF Broadcast
  <2>. QED  BY <1>14, <2>1, CommandManagerAssumption
            DEF Broadcast, managerVars, signalVars, TypeOK, CommandManagerAssumption
<1>15. CASE ConnectionManagerDidReceiveApplicationData(k)
  BY <1>15, <1>7, <1>8, <1>9, <1>10, <1>11
     DEF ConnectionManagerDidReceiveApplicationData
<1>16. CASE Client(k)
  BY <1>16, <1>1, <1>2, <1>3, <1>4, <1>5, <1>6, <1>15 DEF Client
<1>17. CASE Server(k)
  BY <1>17, <1>13, <1>14 DEF Server
<1>. QED  BY <1>16, <1>17

(* In every reachable state every variable has its type.                   *)
THEOREM TypeCorrect == Spec => []TypeOK
BY TypeInit, TypeNext, PTL DEF Spec

-----------------------------------------------------------------------------
(***************************************************************************)
(* The active exchange and the send context, and the wakeups.              *)
(***************************************************************************)
LEMMA ExchangeInit == Init => ExchangeMatchesContext
BY DEF Init, ExchangeMatchesContext

LEMMA ExchangeNext ==
  TypeOK /\ ExchangeMatchesContext /\ [Next]_vars => ExchangeMatchesContext'
<1> SUFFICES ASSUME TypeOK, ExchangeMatchesContext, [Next]_vars
             PROVE  ExchangeMatchesContext'
  OBVIOUS
<1>u. CASE UNCHANGED vars
  BY <1>u DEF vars, managerVars, ExchangeMatchesContext
<1> SUFFICES ASSUME NEW k \in Clients, Client(k) \/ Server(k)
             PROVE  ExchangeMatchesContext'
  BY <1>u DEF Next
<1>1. CASE UNCHANGED <<mActiveExchangeState, mCurrentSendContext>>
  BY <1>1 DEF ExchangeMatchesContext
<1>2. CASE PerformSend(k)
  BY <1>2 DEF PerformSend, CanSend, ExchangeMatchesContext, TypeOK
<1>3. CASE EndExchange(k)
  BY <1>3 DEF EndExchange, ExchangeMatchesContext, TypeOK
<1>4. ASSUME NEW n, NEW split, ReceiveNotifications(k, n, split)
      PROVE  ExchangeMatchesContext'
  BY <1>4 DEF ReceiveNotifications, ExchangeMatchesContext, TypeOK
<1>5. CASE ConnectionManagerDidReceiveApplicationData(k)
  <2>1. PICK n \in 0 .. Len(toClient[k]), split \in BOOLEAN :
          \/ ReceiveCompletion(k, n, split)
          \/ ReceiveCompletionAfterStop(k, n, split)
          \/ ReceiveError(k, n, split)
          \/ ReceiveAwaiting(k, n, split)
          \/ ReceiveNotifications(k, n, split)
    BY <1>5 DEF ConnectionManagerDidReceiveApplicationData
  <2>. QED  BY <2>1, <1>1, <1>3, <1>4
            DEF ReceiveCompletion, ReceiveCompletionAfterStop, ReceiveError,
                ReceiveAwaiting
<1>6. CASE Server(k)
  BY <1>6, <1>1 DEF Server, ServerAnswers, Broadcast, managerVars
<1>. QED  BY <1>1, <1>2, <1>3, <1>5, <1>6
          DEF Client, SendCommand, QueuePerform, PerformIdle,
              ConnectionManagerDidConnect, ConnectionManagerDidDisconnect,
              managerVars

(* The exchange that waits for an answer is always the one whose patterns  *)
(* are searched for.                                                       *)
THEOREM ExchangeAlwaysMatchesContext == Spec => []ExchangeMatchesContext
BY TypeInit, TypeNext, ExchangeInit, ExchangeNext, PTL DEF Spec

LEMMA WakeupInit == Init => NoLostWakeup
BY DEF Init, NoLostWakeup

LEMMA WakeupNext ==
  TypeOK /\ NoLostWakeup /\ [Next]_vars => NoLostWakeup'
<1> SUFFICES ASSUME TypeOK, NoLostWakeup, [Next]_vars,
                    NEW k \in Clients,
                    connected'[k], mCommandQueue'[k] # <<>>,
                    mActiveExchangeState'[k] = NoCommand
             PROVE  queueSignaled'[k] \/ sourceSignaled'[k]
  BY DEF NoLostWakeup
<1>u. CASE UNCHANGED vars
  BY <1>u DEF vars, managerVars, signalVars, NoLostWakeup
<1> SUFFICES ASSUME NEW j \in Clients, Client(j) \/ Server(j)
             PROVE  queueSignaled'[k] \/ sourceSignaled'[k]
  BY <1>u DEF Next
<1>1. ASSUME NEW c \in Commands, SendCommand(j, c)
      PROVE  queueSignaled'[k] \/ sourceSignaled'[k]
  BY <1>1 DEF SendCommand, NoLostWakeup, TypeOK
<1>2. CASE QueuePerform(j)
  BY <1>2 DEF QueuePerform, managerVars, NoLostWakeup, TypeOK
<1>3. CASE PerformSend(j)
  BY <1>3, CommandManagerAssumption, HeadTailProperties
     DEF PerformSend, CanSend, NoLostWakeup, TypeOK
<1>4. CASE PerformIdle(j)
  BY <1>4 DEF PerformIdle, CanSend, managerVars, NoLostWakeup, TypeOK
<1>5. CASE ConnectionManagerDidConnect(j)
  BY <1>5 DEF ConnectionManagerDidConnect, managerVars, NoLostWakeup, TypeOK
<1>6. CASE Hangup(j) /\ UNCHANGED signalVars
           /\ mActiveExchangeState' = [mActiveExchangeState EXCEPT ![j] = NoCommand]
  BY <1>6 DEF Hangup, signalVars, NoLostWakeup, TypeOK
<1>7. CASE /\ EndExchange(j)
           /\ sourceSignaled' = [sourceSignaled EXCEPT ![j] = TRUE]
           /\ UNCHANGED queueSignaled
           /\ Hangup(j) \/ UNCHANGED <<connected, mCommandQueue>>
  BY <1>7 DEF EndExchange, Hangup, NoLostWakeup, TypeOK
<1>8. CASE UNCHANGED <<connected, mCommandQueue, mActiveExchangeState, signalVars>>
  BY <1>8 DEF signalVars, NoLostWakeup
<1>9. CASE ConnectionManagerDidReceiveApplicationData(j)
  <2>1. PICK n \in 0 .. Len(toClient[j]), split \in BOOLEAN :
          \/ ReceiveCompletion(j, n, split)
          \/ ReceiveCompletionAfterStop(j, n, split)
          \/ ReceiveError(j, n, split)
          \/ ReceiveAwaiting(j, n, split)
          \/ ReceiveNotifications(j, n, split)
    BY <1>9 DEF ConnectionManagerDidReceiveApplicationData
  <2>2. CASE ReceiveCompletion(j, n, split) \/ ReceiveError(j, n, split)
    BY <2>2, <1>7 DEF ReceiveCompletion, ReceiveError, ReadOn
  <2>3. CASE ReceiveCompletionAfterStop(j, n, split)
    BY <2>3, <1>6 DEF ReceiveCompletionAfterStop, EndExchange
  <2>4. CASE ReceiveAwaiting(j, n, split)
    BY <2>4, <1>8 DEF ReceiveAwaiting, ReadOn
  <2>5. CASE ReceiveNotifications(j, n, split)
    BY <2>5, <1>6, <1>8 DEF ReceiveNotifications, ReadOn
  <2>. QED  BY <2>1, <2>2, <2>3, <2>4, <2>5
<1>10. CASE ConnectionManagerDidDisconnect(j)
  BY <1>10, <1>6 DEF ConnectionManagerDidDisconnect, EndExchange
<1>11. CASE Server(j)
  BY <1>11, <1>8 DEF Server, ServerAnswers, Broadcast, managerVars
<1>. QED  BY <1>1, <1>2, <1>3, <1>4, <1>5, <1>9, <1>10, <1>11 DEF Client

(* A queue that could be served always has one of its sources signaled.    *)
THEOREM WakeupNeverLost == Spec => []NoLostWakeup
BY TypeInit, TypeNext, WakeupInit, WakeupNext, PTL DEF Spec

-----------------------------------------------------------------------------
(***************************************************************************)
(* The manager implements CommandService.  What the steps do to Pending.   *)
(***************************************************************************)
LEMMA PendingTyping ==
  TypeOK => /\ Pending \in [Clients -> Seq(Commands)]
            /\ NoCommand \notin Commands
<1> SUFFICES ASSUME TypeOK PROVE Pending \in [Clients -> Seq(Commands)]
  BY CommandManagerAssumption DEF CommandManagerAssumption
<1>1. ASSUME NEW k \in Clients, mActiveExchangeState[k] # NoCommand
      PROVE  <<mActiveExchangeState[k]>> \o mCommandQueue[k] \in Seq(Commands)
  <2>1. mActiveExchangeState[k] \in Commands /\ mCommandQueue[k] \in Seq(Commands)
    BY <1>1 DEF TypeOK
  <2>. QED  BY <2>1, Singleton, ConcatProperties
<1>. QED  BY <1>1 DEF Pending, TypeOK

LEMMA RefinementInit == Init => Service!Init
BY DEF Init, Service!Init, Pending

\* Steps that touch neither the queue nor the active exchange.
LEMMA StutterStep ==
  UNCHANGED <<mCommandQueue, mActiveExchangeState, submitted, calls>>
    => UNCHANGED Service!vars
BY DEF Service!vars, Pending

\* Whatever disconnects without calling a handler abandons the commands.
LEMMA AbandonStep ==
  ASSUME TypeOK, NEW k \in Clients, Hangup(k), UNCHANGED <<submitted, calls>>,
         mActiveExchangeState' = [mActiveExchangeState EXCEPT ![k] = NoCommand]
  PROVE  Service!Abandon(k)
BY DEF Hangup, Service!Abandon, Pending, TypeOK

\* Both response handlers answer the oldest command.
LEMMA AnswerStep ==
  ASSUME TypeOK, NEW k \in Clients, NEW r \in {"complete", "error"},
         NEW f \in Fragments,
         mActiveExchangeState[k] # NoCommand,
         calls' = Calls(k, r, f), EndExchange(k),
         Hangup(k) \/ UNCHANGED mCommandQueue, UNCHANGED submitted
  PROVE  Service!Answer(k, [result |-> r, for |-> f.for])
<1> DEFINE a == mActiveExchangeState[k]
<1>1. a \in Commands /\ mCommandQueue[k] \in Seq(Commands)
  BY DEF TypeOK
<1>2. Pending[k] = <<a>> \o mCommandQueue[k]
  BY DEF Pending
<1>3. Pending[k] # <<>> /\ Head(Pending[k]) = a /\ Tail(Pending[k]) = mCommandQueue[k]
  BY <1>1, <1>2, HeadTailOfCons
<1>4. calls' = [calls EXCEPT ![a] = Append(@, [result |-> r, for |-> f.for])]
  BY DEF Calls, TypeOK
<1>5. CASE Hangup(k)
  <2>1. Pending' = [Pending EXCEPT ![k] = <<>>]
    BY <1>5 DEF Hangup, EndExchange, Pending, TypeOK
  <2>. QED  BY <1>3, <1>4, <2>1 DEF Service!Answer
<1>6. CASE UNCHANGED mCommandQueue
  <2>1. Pending' = [Pending EXCEPT ![k] = mCommandQueue[k]]
    BY <1>6 DEF EndExchange, Pending, TypeOK
  <2>. QED  BY <1>3, <1>4, <2>1 DEF Service!Answer
<1>. QED  BY <1>5, <1>6

LEMMA RefinementNext ==
  TypeOK /\ ExchangeMatchesContext /\ [Next]_vars => [Service!Next]_(Service!vars)
<1> SUFFICES ASSUME TypeOK, ExchangeMatchesContext, [Next]_vars
             PROVE  Service!Next \/ UNCHANGED Service!vars
  OBVIOUS
<1>u. CASE UNCHANGED vars
  BY <1>u, StutterStep DEF vars, managerVars
<1> SUFFICES ASSUME NEW k \in Clients, Client(k) \/ Server(k)
             PROVE  Service!Next \/ UNCHANGED Service!vars
  BY <1>u DEF Next
<1>1. ASSUME NEW c \in Commands, SendCommand(k, c) PROVE Service!Submit(k, c)
  <2>1. CASE mActiveExchangeState[k] = NoCommand
    BY <1>1, <2>1 DEF SendCommand, Service!Submit, Pending, TypeOK
  <2>2. CASE mActiveExchangeState[k] # NoCommand
    <3>1. mActiveExchangeState[k] \in Commands /\ mCommandQueue[k] \in Seq(Commands)
      BY <2>2 DEF TypeOK
    <3>2. Append(<<mActiveExchangeState[k]>> \o mCommandQueue[k], c)
            = <<mActiveExchangeState[k]>> \o Append(mCommandQueue[k], c)
      BY <3>1, AppendToCons
    <3>3. Pending' = [Pending EXCEPT ![k] = Append(@, c)]
      BY <1>1, <2>2, <3>2 DEF SendCommand, Pending, TypeOK
    <3>. QED  BY <1>1, <3>3 DEF SendCommand, Service!Submit
  <2>. QED  BY <2>1, <2>2
<1>2. CASE PerformSend(k)
  <2>1. /\ mCommandQueue[k] \in Seq(Commands) /\ mCommandQueue[k] # <<>>
        /\ mActiveExchangeState[k] = NoCommand
    BY <1>2 DEF PerformSend, CanSend, TypeOK
  <2>2. /\ Head(mCommandQueue[k]) \in Commands
        /\ <<Head(mCommandQueue[k])>> \o Tail(mCommandQueue[k]) = mCommandQueue[k]
    BY <2>1, HeadTailProperties, HeadThenTail
  <2>3. Head(mCommandQueue[k]) # NoCommand
    BY <2>2, PendingTyping
  <2>4. Pending' = Pending
    BY <1>2, <2>1, <2>2, <2>3 DEF PerformSend, Pending, TypeOK
  <2>. QED  BY <1>2, <2>4 DEF PerformSend, Service!vars
<1>3. CASE ConnectionManagerDidDisconnect(k)
  BY <1>3, AbandonStep DEF ConnectionManagerDidDisconnect, EndExchange, Service!Next
<1>4. ASSUME NEW n, NEW split \in BOOLEAN, ReceiveCompletion(k, n, split)
      PROVE  Service!Next
  <2> DEFINE b == Buffered(k, n, split)
             i == Len(b)
  <2>1. b \in Seq(Fragments) /\ b # <<>>
    BY <1>4, ReadTyping DEF ReceiveCompletion, HasCompletion
  <2>2. b[i] \in Fragments
    <3>. HIDE DEF b
    <3>. QED  BY <2>1, LastTyping
  <2>3. mActiveExchangeState[k] # NoCommand
    BY <1>4 DEF ReceiveCompletion, ExchangeMatchesContext
  <2>4. Service!Answer(k, [result |-> "complete", for |-> b[i].for])
    <3>1. calls' = Calls(k, "complete", b[i])
      BY <1>4 DEF ReceiveCompletion
    <3>2. EndExchange(k) /\ UNCHANGED submitted /\ (Hangup(k) \/ UNCHANGED mCommandQueue)
      BY <1>4 DEF ReceiveCompletion, ReadOn
    <3>. HIDE DEF b, i
    <3>. QED  BY <2>2, <2>3, <3>1, <3>2, AnswerStep
  <2>5. [result |-> "complete", for |-> b[i].for] \in Results
    BY <2>2 DEF Fragments, Results
  <2>. QED  BY <2>4, <2>5 DEF Service!Next
<1>5. ASSUME NEW n, NEW split \in BOOLEAN, ReceiveError(k, n, split)
      PROVE  Service!Next
  <2> DEFINE b == Buffered(k, n, split)
             i == Len(b)
  <2>1. b \in Seq(Fragments) /\ b # <<>>
    BY <1>5, ReadTyping DEF ReceiveError, HasError
  <2>2. b[i] \in Fragments
    <3>. HIDE DEF b
    <3>. QED  BY <2>1, LastTyping
  <2>3. mActiveExchangeState[k] # NoCommand
    BY <1>5 DEF ReceiveError, ExchangeMatchesContext
  <2>4. Service!Answer(k, [result |-> "error", for |-> b[i].for])
    <3>1. calls' = Calls(k, "error", b[i])
      BY <1>5 DEF ReceiveError
    <3>2. EndExchange(k) /\ UNCHANGED submitted /\ (Hangup(k) \/ UNCHANGED mCommandQueue)
      BY <1>5 DEF ReceiveError, ReadOn
    <3>. HIDE DEF b, i
    <3>. QED  BY <2>2, <2>3, <3>1, <3>2, AnswerStep
  <2>5. [result |-> "error", for |-> b[i].for] \in Results
    BY <2>2 DEF Fragments, Results
  <2>. QED  BY <2>4, <2>5 DEF Service!Next
<1>6. ASSUME NEW n, NEW split \in BOOLEAN, ReceiveCompletionAfterStop(k, n, split)
      PROVE  Service!Next
  BY <1>6, AbandonStep DEF ReceiveCompletionAfterStop, EndExchange, Service!Next
<1>7. ASSUME NEW n, NEW split \in BOOLEAN, ReceiveAwaiting(k, n, split)
      PROVE  UNCHANGED Service!vars
  BY <1>7, StutterStep DEF ReceiveAwaiting, ReadOn
<1>8. ASSUME NEW n, NEW split \in BOOLEAN, ReceiveNotifications(k, n, split)
      PROVE  Service!Next \/ UNCHANGED Service!vars
  BY <1>8, AbandonStep, StutterStep DEF ReceiveNotifications, ReadOn, Service!Next
<1>9. CASE ConnectionManagerDidReceiveApplicationData(k)
  BY <1>9, <1>4, <1>5, <1>6, <1>7, <1>8
     DEF ConnectionManagerDidReceiveApplicationData
<1>10. CASE Server(k)
  BY <1>10, StutterStep DEF Server, ServerAnswers, Broadcast, managerVars
<1>11. CASE QueuePerform(k) \/ PerformIdle(k) \/ ConnectionManagerDidConnect(k)
  BY <1>11, StutterStep
     DEF QueuePerform, PerformIdle, ConnectionManagerDidConnect, managerVars
<1>. QED  BY <1>1, <1>2, <1>3, <1>9, <1>10, <1>11 DEF Client, Service!Next

(* The command manager implements the command service: commands are        *)
(* concluded in the order they were sent or abandoned together.            *)
THEOREM ManagerImplementsService == Spec => ServiceSpec
<1>1. Init => Service!Init
  BY RefinementInit
<1>2. TypeOK /\ ExchangeMatchesContext /\ [Next]_vars => [Service!Next]_(Service!vars)
  BY RefinementNext
<1>. QED
  BY <1>1, <1>2, TypeCorrect, ExchangeAlwaysMatchesContext, PTL
     DEF Spec, ServiceSpec, Service!Spec

Promise == INSTANCE CommandService_proofs WITH pending <- Pending

(* No command ever has two handlers called, or one of them twice.          *)
THEOREM CalledAtMostOnce == Spec => []AtMostOneCall
<1>1. Service!Spec => []Promise!CalledOnce
  <2>1. Promise!Spec => []Promise!CalledOnce
    BY Promise!ServiceCallsOnce
  <2>. QED  BY <2>1 DEF Service!Spec, Promise!Spec, Service!Init, Promise!Init,
                        Service!Next, Promise!Next, Service!vars, Promise!vars,
                        Service!Submit, Promise!Submit, Service!Answer, Promise!Answer,
                        Service!Abandon, Promise!Abandon
<1>2. Promise!CalledOnce => AtMostOneCall
  BY DEF Promise!CalledOnce, AtMostOneCall
<1>. QED  BY <1>1, <1>2, ManagerImplementsService, PTL DEF ServiceSpec

-----------------------------------------------------------------------------
(***************************************************************************)
(* Whose answer it is.  As long as nobody else is answered, and no answer  *)
(* of the client's own has another one behind it, what is on its way to a  *)
(* client answers the exchange that is active, and what ends the exchange  *)
(* is the last of it; nothing is on its way while none is.                 *)
(***************************************************************************)
ActiveOK ==
  \A k \in Clients : mActiveExchangeState[k] # NoCommand =>
    /\ mActiveExchangeState[k] \in Commands
    /\ Owner[mActiveExchangeState[k]] = k
    /\ calls[mActiveExchangeState[k]] = <<>>

ClientDisturbed(k) ==
  \E d \in Commands : Owner[d] = k /\ Disturbs(d) /\ calls[d] # <<>>

Quiet(k) == toServer[k] = <<>> /\ toClient[k] = <<>> /\ mReceiveBuffer[k] = <<>>

Asked(k, a) ==
  /\ toServer[k] = <<>> \/ toServer[k] = <<a>>
  /\ toClient[k] = <<>> /\ mReceiveBuffer[k] = <<>>

\* Lines that end an exchange: the error line and those of its response.
IsEnd(l, a) == l \in Messages => PatternOf[l] = ResponsePattern[a]

AllFor(s, a) == \A i \in 1 .. Len(s) : s[i].for = a

\* Nothing is left to be read but, perhaps, the end of a line.
AtEnd(s) == s = <<>> \/ (Len(s) = 1 /\ s[1].part = "tail")

EndsLast(buf, s, a) ==
  /\ \A i \in 1 .. Len(s) : IsEnd(s[i].line, a) => i = Len(s)
  /\ \A i \in 1 .. Len(buf) : IsEnd(buf[i].line, a) => AtEnd(s)

Answered(k, a) ==
  /\ toServer[k] = <<>>
  /\ AllFor(toClient[k], a) /\ AllFor(mReceiveBuffer[k], a)
  /\ Disturbs(a) \/ EndsLast(mReceiveBuffer[k], toClient[k], a)

OneAnswer(k) ==
  IF mActiveExchangeState[k] = NoCommand
  THEN Quiet(k)
  ELSE \/ Asked(k, mActiveExchangeState[k])
       \/ Answered(k, mActiveExchangeState[k])

OwnAnswers ==
  broadcasts = 0 =>
    /\ \A c \in Commands : AnswersOwnRequest(c) \/ Disturbed(c)
    /\ \A k \in Clients : ClientDisturbed(k) \/ OneAnswer(k)

\* The active exchange is one of the client's, and has no answer yet.
LEMMA ActiveIsPending == Spec => []ActiveOK
<1>1. Service!Spec => []Promise!Inv
  <2>1. Promise!Spec => []Promise!Inv
    BY Promise!ServiceKeepsInv
  <2>. QED  BY <2>1 DEF Service!Spec, Promise!Spec, Service!Init, Promise!Init,
                        Service!Next, Promise!Next, Service!vars, Promise!vars,
                        Service!Submit, Promise!Submit, Service!Answer, Promise!Answer,
                        Service!Abandon, Promise!Abandon
<1>2. TypeOK /\ Promise!Inv => ActiveOK
  <2> SUFFICES ASSUME TypeOK, Promise!Inv, NEW k \in Clients,
                      mActiveExchangeState[k] # NoCommand
               PROVE  /\ mActiveExchangeState[k] \in Commands
                      /\ Owner[mActiveExchangeState[k]] = k
                      /\ calls[mActiveExchangeState[k]] = <<>>
    BY DEF ActiveOK
  <2>0. PICK a : a = mActiveExchangeState[k]
    OBVIOUS
  <2>1. a \in Commands /\ mCommandQueue[k] \in Seq(Commands)
    BY <2>0 DEF TypeOK
  <2>2. Pending[k] = <<a>> \o mCommandQueue[k]
    BY <2>0 DEF Pending
  <2>3. <<a>> \in Seq(Commands) /\ Len(<<a>>) = 1 /\ <<a>>[1] = a
    BY <2>1, Singleton
  <2>4. Len(mCommandQueue[k]) \in Nat
    BY <2>1, LenProperties
  <2>5. /\ Len(Pending[k]) = 1 + Len(mCommandQueue[k])
        /\ \A i \in 1 .. 1 + Len(mCommandQueue[k]) :
             Pending[k][i] = IF i <= 1 THEN <<a>>[i] ELSE mCommandQueue[k][i - 1]
    BY <2>1, <2>2, <2>3, ConcatProperties
  <2>6. 1 \in 1 .. Len(Pending[k]) /\ Pending[k][1] = a
    BY <2>3, <2>4, <2>5
  <2>. QED  BY <2>0, <2>1, <2>6 DEF Promise!Inv, Promise!PendingOK
<1>. QED  BY <1>1, <1>2, TypeCorrect, ManagerImplementsService, PTL DEF ServiceSpec

\* A sequence of one element.
LEMMA OfOne ==
  ASSUME NEW x
  PROVE  /\ Append(<<>>, x) = <<x>>
         /\ Len(<<x>>) = 1 /\ <<x>>[1] = x /\ Head(<<x>>) = x /\ Tail(<<x>>) = <<>>
<1>1. <<x>> \in Seq({x}) /\ <<>> \in Seq({x}) /\ Len(<<x>>) = 1 /\ <<x>>[1] = x
  OBVIOUS
<1>2. Append(<<>>, x) = <<x>>
  <2>1. Append(<<>>, x) = <<>> \o <<x>>
    BY <1>1, AppendIsConcat
  <2>. QED  BY <1>1, <2>1, ConcatEmptySeq
<1>3. Head(<<x>>) = x
  BY <1>1
<1>4. Tail(<<x>>) = <<>>
  <2>1. Tail(<<x>>) \in Seq({x}) /\ Len(Tail(<<x>>)) = 0
    BY <1>1, HeadTailProperties
  <2>. QED  BY <2>1, EmptySeq
<1>. QED  BY <1>1, <1>2, <1>3, <1>4

\* The pieces of a line, and the line made whole again.
LEMMA PiecesOfOne ==
  ASSUME NEW f \in Fragments, f.part = "whole"
  PROVE  /\ [f EXCEPT !.part = "head"].part = "head"
         /\ [f EXCEPT !.part = "tail"].part = "tail"
         /\ [[f EXCEPT !.part = "head"] EXCEPT !.part = "whole"] = f
BY DEF Fragments

\* Two fragments of the same line.
OfLine(f, g) == f.line = g.line /\ f.for = g.for

\* A piece of a line is of that line.
LEMMA PieceOfLine ==
  ASSUME NEW f \in Fragments, NEW p \in {"whole", "head", "tail"}
  PROVE  /\ OfLine([f EXCEPT !.part = p], f)
         /\ [f EXCEPT !.part = p].part = p
BY DEF Fragments, OfLine

\* The lines of what a read takes from a stream.
LEMMA ChunkLines ==
  ASSUME NEW s \in Seq(Fragments), NEW n, NEW split \in BOOLEAN,
         CanRead(s, n, split)
  PROVE  LET chunk == ChunkRead(s, n, split)
         IN /\ Len(chunk) = IF split THEN n + 1 ELSE n
            /\ \A i \in 1 .. Len(chunk) : OfLine(chunk[i], s[i])
            /\ split => chunk[Len(chunk)].part = "head"
<1>1. n \in 0 .. Len(s) /\ Len(s) \in Nat /\ (split => n + 1 \in 1 .. Len(s))
  BY DEF CanRead
<1>2. \A i \in 1 .. Len(s) : s[i] \in Fragments
  BY ElementOfSeq
<1>3. /\ SubSeq(s, 1, n) \in Seq(Fragments) /\ Len(SubSeq(s, 1, n)) = n
      /\ \A i \in 1 .. n : SubSeq(s, 1, n)[i] = s[i]
  <2>1. \A i \in 1 .. n : s[i] \in Fragments
    BY <1>1, <1>2
  <2>2. n = IF 1 <= n THEN n - 1 + 1 ELSE 0
    BY <1>1
  <2>. QED  BY <1>1, <2>1, <2>2, SubSeqProperties
<1>4. CASE split
  <2> DEFINE h == [s[n + 1] EXCEPT !.part = "head"]
  <2>1. s[n + 1] \in Fragments
    BY <1>1, <1>2, <1>4
  <2>2. h \in Fragments /\ OfLine(h, s[n + 1]) /\ h.part = "head"
    BY <2>1, PartTyping, PieceOfLine
  <2>. HIDE DEF h
  <2>3. <<h>> \in Seq(Fragments) /\ Len(<<h>>) = 1 /\ <<h>>[1] = h
    BY <2>2, Singleton
  <2>4. ChunkRead(s, n, split) = SubSeq(s, 1, n) \o <<h>>
    BY <1>4 DEF ChunkRead, h
  <2>5. PICK chunk : chunk = ChunkRead(s, n, split)
    OBVIOUS
  <2>6. /\ Len(chunk) = n + 1
        /\ \A i \in 1 .. n + 1 :
             chunk[i] = IF i <= n THEN SubSeq(s, 1, n)[i] ELSE <<h>>[i - n]
    BY <1>1, <1>3, <2>3, <2>4, <2>5, ConcatProperties
  <2>7. chunk[n + 1] = h /\ \A i \in 1 .. n : chunk[i] = s[i]
    BY <1>1, <1>3, <2>3, <2>6
  <2>8. \A i \in 1 .. n + 1 : OfLine(chunk[i], s[i])
    <3>1. \A i \in 1 .. n + 1 : i = n + 1 \/ i \in 1 .. n
      BY <1>1
    <3>. QED  BY <2>2, <2>7, <3>1 DEF OfLine
  <2>. QED  BY <1>4, <2>2, <2>5, <2>6, <2>7, <2>8
<1>5. CASE ~ split
  <2>1. ChunkRead(s, n, split) = SubSeq(s, 1, n)
    BY <1>3, <1>5, ConcatEmptySeq DEF ChunkRead
  <2>. QED  BY <1>3, <1>5, <2>1 DEF OfLine
<1>. QED  BY <1>4, <1>5

\* The lines of what it leaves there.
LEMMA LeftLines ==
  ASSUME NEW s \in Seq(Fragments), NEW n, NEW split \in BOOLEAN,
         CanRead(s, n, split)
  PROVE  LET left == LeftUnread(s, n, split)
         IN /\ Len(left) = Len(s) - n
            /\ \A i \in 1 .. Len(left) : OfLine(left[i], s[n + i])
            /\ split => left[1].part = "tail"
<1>1. n \in 0 .. Len(s) /\ Len(s) \in Nat /\ (split => n + 1 \in 1 .. Len(s))
  BY DEF CanRead
<1>2. \A i \in 1 .. Len(s) : s[i] \in Fragments
  BY ElementOfSeq
<1>3. CASE split
  <2> DEFINE t == [s[n + 1] EXCEPT !.part = "tail"]
             r == SubSeq(s, n + 2, Len(s))
  <2>1. s[n + 1] \in Fragments
    BY <1>1, <1>2, <1>3
  <2>2. t \in Fragments /\ OfLine(t, s[n + 1]) /\ t.part = "tail"
    BY <2>1, PartTyping, PieceOfLine
  <2>3. /\ r \in Seq(Fragments) /\ Len(r) = Len(s) - n - 1
        /\ \A i \in 1 .. Len(r) : r[i] = s[n + 1 + i]
    <3>1. \A i \in n + 2 .. Len(s) : s[i] \in Fragments
      BY <1>1, <1>2
    <3>2. n + 2 \in Int /\ Len(s) \in Int
      BY <1>1
    <3>3. /\ r \in Seq(Fragments)
          /\ Len(r) = IF n + 2 <= Len(s) THEN Len(s) - (n + 2) + 1 ELSE 0
          /\ \A i \in 1 .. Len(s) - (n + 2) + 1 : r[i] = s[n + 2 + i - 1]
      BY <3>1, <3>2, SubSeqProperties
    <3>4. Len(r) = Len(s) - n - 1 /\ Len(s) - (n + 2) + 1 = Len(s) - n - 1
      <4>. HIDE DEF r
      <4>. QED  BY <1>1, <1>3, <3>3
    <3>5. \A i \in 1 .. Len(r) : n + 2 + i - 1 = n + 1 + i
      <4>. HIDE DEF r
      <4>. QED  BY <1>1, <3>4
    <3>. HIDE DEF r
    <3>. QED  BY <3>3, <3>4, <3>5
  <2>. HIDE DEF t, r
  <2>4. <<t>> \in Seq(Fragments) /\ Len(<<t>>) = 1 /\ <<t>>[1] = t
    BY <2>2, Singleton
  <2>5. LeftUnread(s, n, split) = <<t>> \o r
    BY <1>3 DEF LeftUnread, t, r
  <2>6. PICK left : left = LeftUnread(s, n, split)
    OBVIOUS
  <2>7. /\ Len(left) = 1 + Len(r)
        /\ \A i \in 1 .. 1 + Len(r) :
             left[i] = IF i <= 1 THEN <<t>>[i] ELSE r[i - 1]
    BY <2>3, <2>4, <2>5, <2>6, ConcatProperties
  <2>8. Len(r) \in Nat
    BY <2>3, LenProperties
  <2>9. left[1] = t /\ \A i \in 2 .. 1 + Len(r) : left[i] = s[n + i]
    <3>1. \A i \in 2 .. 1 + Len(r) : left[i] = r[i - 1] /\ i - 1 \in 1 .. Len(r)
      BY <2>7, <2>8
    <3>2. \A i \in 2 .. 1 + Len(r) : n + 1 + (i - 1) = n + i
      BY <1>1, <2>8
    <3>3. \A i \in 2 .. 1 + Len(r) : r[i - 1] = s[n + 1 + (i - 1)]
      BY <2>3, <3>1
    <3>4. \A i \in 2 .. 1 + Len(r) : left[i] = s[n + i]
      BY <3>1, <3>2, <3>3
    <3>5. left[1] = t
      <4>1. 1 \in 1 .. 1 + Len(r)
        BY <2>8
      <4>. QED  BY <2>4, <2>7, <4>1
    <3>. QED  BY <3>4, <3>5
  <2>10. Len(left) = Len(s) - n
    BY <1>1, <2>3, <2>7
  <2>11. \A i \in 1 .. 1 + Len(r) : OfLine(left[i], s[n + i])
    <3>1. \A i \in 1 .. 1 + Len(r) : i = 1 \/ i \in 2 .. 1 + Len(r)
      BY <2>8
    <3>. QED  BY <2>2, <2>9, <3>1 DEF OfLine
  <2>. QED  BY <1>3, <2>2, <2>6, <2>7, <2>9, <2>10, <2>11
<1>4. CASE ~ split
  <2>1. \A i \in n + 1 .. Len(s) : s[i] \in Fragments
    BY <1>1, <1>2
  <2>2. PICK left : left = SubSeq(s, n + 1, Len(s))
    OBVIOUS
  <2>3. /\ left \in Seq(Fragments)
        /\ Len(left) = IF n + 1 <= Len(s) THEN Len(s) - (n + 1) + 1 ELSE 0
        /\ \A i \in 1 .. Len(s) - (n + 1) + 1 : left[i] = s[n + 1 + i - 1]
    BY <1>1, <2>1, <2>2, SubSeqProperties
  <2>4. Len(left) = Len(s) - n /\ \A i \in 1 .. Len(left) : left[i] = s[n + i]
    BY <1>1, <2>3
  <2>5. LeftUnread(s, n, split) = left
    BY <1>4, <2>2 DEF LeftUnread
  <2>. QED  BY <1>4, <2>4, <2>5 DEF OfLine
<1>. QED  BY <1>3, <1>4

\* The lines of a buffer once what was read is appended, and the last of them.
LEMMA JoinLines ==
  ASSUME NEW buf \in Seq(Fragments), NEW chunk \in Seq(Fragments), chunk # <<>>
  PROVE  LET b == Join(buf, chunk)
         IN /\ \A i \in 1 .. Len(b) :
                 \/ i \in 1 .. Len(buf) /\ OfLine(b[i], buf[i])
                 \/ \E j \in 1 .. Len(chunk) : OfLine(b[i], chunk[j])
            /\ \/ b[Len(b)] = chunk[Len(chunk)]
               \/ Len(chunk) = 1 /\ chunk[1].part = "tail"
<1>1. Len(buf) \in Nat /\ Len(chunk) \in Nat \ {0}
  BY EmptySeq, LenProperties
<1>2. PICK b : b = Join(buf, chunk)
  OBVIOUS
<1>3. CASE /\ buf # <<>> /\ buf[Len(buf)].part = "head"
           /\ chunk[1].part = "tail"
  <2> DEFINE m == Len(buf) - 1
             w == [buf[Len(buf)] EXCEPT !.part = "whole"]
             x == SubSeq(buf, 1, m)
             y == SubSeq(chunk, 2, Len(chunk))
  <2>1. Len(buf) \in Nat \ {0}
    BY <1>3, EmptySeq
  <2>2. /\ x \in Seq(Fragments) /\ Len(x) = m
        /\ \A i \in 1 .. m : x[i] = buf[i]
    <3>1. \A i \in 1 .. m : buf[i] \in Fragments
      BY <2>1, ElementOfSeq
    <3>2. m \in Nat /\ m = IF 1 <= m THEN m - 1 + 1 ELSE 0
      <4>1. \A q \in Nat \ {0} : /\ q - 1 \in Nat
                                 /\ q - 1 = IF 1 <= q - 1 THEN q - 1 - 1 + 1 ELSE 0
        OBVIOUS
      <4>. QED  BY <2>1, <4>1
    <3>. HIDE DEF m
    <3>3. \A i \in 1 .. m : 1 + i - 1 = i
      BY <3>2
    <3>4. /\ x \in Seq(Fragments)
          /\ Len(x) = IF 1 <= m THEN m - 1 + 1 ELSE 0
          /\ \A i \in 1 .. m - 1 + 1 : x[i] = buf[1 + i - 1]
      BY <3>1, <3>2, SubSeqProperties
    <3>. HIDE DEF x
    <3>. QED  BY <3>2, <3>3, <3>4
  <2>3. /\ y \in Seq(Fragments) /\ Len(y) = Len(chunk) - 1
        /\ \A i \in 1 .. Len(y) : y[i] = chunk[i + 1]
    <3>1. \A i \in 2 .. Len(chunk) : chunk[i] \in Fragments
      BY <1>1, ElementOfSeq
    <3>2. /\ y \in Seq(Fragments)
          /\ Len(y) = IF 2 <= Len(chunk) THEN Len(chunk) - 2 + 1 ELSE 0
          /\ \A i \in 1 .. Len(chunk) - 2 + 1 : y[i] = chunk[2 + i - 1]
      BY <1>1, <3>1, SubSeqProperties
    <3>. HIDE DEF y
    <3>3. Len(y) = Len(chunk) - 1 /\ Len(chunk) - 2 + 1 = Len(chunk) - 1
      <4>1. \A q \in Nat \ {0} :
              /\ q - 1 = IF 2 <= q THEN q - 2 + 1 ELSE 0
              /\ q - 2 + 1 = q - 1
        OBVIOUS
      <4>. QED  BY <1>1, <3>2, <4>1
    <3>4. \A i \in 1 .. Len(y) : 2 + i - 1 = i + 1
      BY <1>1, <3>3
    <3>. QED  BY <3>2, <3>3, <3>4
  <2>4. w \in Fragments /\ OfLine(w, buf[Len(buf)])
    <3>1. buf[Len(buf)] \in Fragments
      BY <2>1, ElementOfSeq
    <3>. QED  BY <3>1, PartTyping, PieceOfLine
  <2>5. b = x \o <<w>> \o y
    BY <1>2, <1>3 DEF Join
  <2>. HIDE DEF w, x, y
  <2>6. <<w>> \in Seq(Fragments) /\ Len(<<w>>) = 1 /\ <<w>>[1] = w
    BY <2>4, Singleton
  <2>7. PICK z : z = x \o <<w>>
    OBVIOUS
  <2>8. /\ z \in Seq(Fragments) /\ Len(z) = m + 1
        /\ \A i \in 1 .. m + 1 : z[i] = IF i <= m THEN x[i] ELSE <<w>>[i - m]
    BY <2>1, <2>2, <2>6, <2>7, ConcatProperties
  <2>9. /\ Len(z) = Len(buf) /\ z[Len(buf)] = w
        /\ \A i \in 1 .. m : z[i] = buf[i]
    BY <2>1, <2>2, <2>6, <2>8
  <2>10. b = z \o y
    BY <2>5, <2>7
  <2>11. /\ Len(b) = Len(buf) + (Len(chunk) - 1)
         /\ \A i \in 1 .. Len(buf) + (Len(chunk) - 1) :
              b[i] = IF i <= Len(buf) THEN z[i] ELSE y[i - Len(buf)]
    <3>1. /\ Len(z \o y) = Len(z) + Len(y)
          /\ \A i \in 1 .. Len(z) + Len(y) :
               (z \o y)[i] = IF i <= Len(z) THEN z[i] ELSE y[i - Len(z)]
      BY <2>3, <2>8, ConcatProperties
    <3>. QED  BY <2>3, <2>9, <2>10, <3>1
  <2>12. ASSUME NEW i \in 1 .. Len(b), i <= Len(buf)
         PROVE  i \in 1 .. Len(buf) /\ OfLine(b[i], buf[i])
    <3>1. b[i] = z[i] /\ i \in 1 .. Len(buf)
      BY <1>1, <2>1, <2>11, <2>12
    <3>2. i = Len(buf) \/ i \in 1 .. m
      BY <2>1, <3>1
    <3>. QED  BY <2>4, <2>9, <3>1, <3>2 DEF OfLine
  <2>13. ASSUME NEW i \in 1 .. Len(b), ~(i <= Len(buf))
         PROVE  /\ (i - Len(buf)) + 1 \in 1 .. Len(chunk)
                /\ b[i] = chunk[(i - Len(buf)) + 1]
    <3>1. b[i] = y[i - Len(buf)] /\ i - Len(buf) \in 1 .. Len(y)
      BY <1>1, <2>1, <2>3, <2>11, <2>13
    <3>2. PICK q \in 1 .. Len(y) : q = i - Len(buf)
      BY <3>1
    <3>3. q + 1 \in 1 .. Len(chunk)
      BY <1>1, <2>3
    <3>. QED  BY <2>3, <3>1, <3>2, <3>3
  <2>14. CASE Len(chunk) = 1
    BY <1>2, <1>3, <2>12, <2>13, <2>14 DEF OfLine
  <2>15. CASE Len(chunk) # 1
    <3>1. Len(b) \in 1 .. Len(b) /\ ~(Len(b) <= Len(buf))
      <4>1. \A e \in Nat, q \in Nat \ {0} :
               q # 1 => e + (q - 1) \in 1 .. e + (q - 1) /\ ~(e + (q - 1) <= e)
        OBVIOUS
      <4>. QED  BY <1>1, <2>1, <2>11, <2>15, <4>1
    <3>2. (Len(b) - Len(buf)) + 1 = Len(chunk)
      BY <1>1, <2>1, <2>11
    <3>3. b[Len(b)] = chunk[Len(chunk)]
      BY <2>13, <3>1, <3>2
    <3>. QED  BY <1>2, <2>12, <2>13, <3>3 DEF OfLine
  <2>. QED  BY <2>14, <2>15
<1>4. CASE ~(/\ buf # <<>> /\ buf[Len(buf)].part = "head"
             /\ chunk[1].part = "tail")
  <2>1. b = buf \o chunk
    BY <1>2, <1>4 DEF Join
  <2>2. /\ Len(b) = Len(buf) + Len(chunk)
        /\ \A i \in 1 .. Len(buf) + Len(chunk) :
             b[i] = IF i <= Len(buf) THEN buf[i] ELSE chunk[i - Len(buf)]
    BY <2>1, ConcatProperties
  <2>3. b[Len(b)] = chunk[Len(chunk)]
    BY <1>1, <2>2
  <2>4. ASSUME NEW i \in 1 .. Len(b)
        PROVE  \/ i \in 1 .. Len(buf) /\ OfLine(b[i], buf[i])
               \/ \E j \in 1 .. Len(chunk) : OfLine(b[i], chunk[j])
    <3>1. CASE i <= Len(buf)
      BY <1>1, <2>2, <3>1 DEF OfLine
    <3>2. CASE ~(i <= Len(buf))
      <4>1. i - Len(buf) \in 1 .. Len(chunk) /\ b[i] = chunk[i - Len(buf)]
        BY <1>1, <2>2, <3>2
      <4>. QED  BY <4>1 DEF OfLine
    <3>. QED  BY <3>1, <3>2
  <2>. QED  BY <1>2, <2>3, <2>4
<1>. QED  BY <1>3, <1>4

\* What keeps a command's calls in order when a step is another's.
Keeps ==
  /\ \A c \in Commands : calls[c] # <<>> => calls'[c] # <<>>
  /\ broadcasts' = broadcasts

\* An exchange disturbed stays disturbed, and so does a client.
LEMMA StillDisturbed ==
  ASSUME Keeps
  PROVE  /\ \A c \in Commands : Disturbed(c) => Disturbed(c)'
         /\ \A k \in Clients : ClientDisturbed(k) => ClientDisturbed(k)'
BY DEF Keeps, Disturbed, ClientDisturbed, Disturbs

\* A handler called for an answer of the active exchange is called for its own.
LEMMA OwnCall ==
  ASSUME TypeOK, ActiveOK, OwnAnswers, broadcasts = 0, broadcasts' = broadcasts,
         NEW k \in Clients, NEW r \in {"complete", "error"}, NEW f \in Fragments,
         mActiveExchangeState[k] # NoCommand,
         ClientDisturbed(k) \/ f.for = mActiveExchangeState[k],
         calls' = Calls(k, r, f)
  PROVE  /\ Keeps
         /\ \A c \in Commands : AnswersOwnRequest(c)' \/ Disturbed(c)'
         /\ calls'[mActiveExchangeState[k]] # <<>>
<1>0. PICK a : a = mActiveExchangeState[k]
  OBVIOUS
<1>1. a \in Commands /\ Owner[a] = k /\ calls[a] = <<>>
  BY <1>0 DEF ActiveOK
<1> DEFINE res == [result |-> r, for |-> f.for]
<1>2. res \in Results /\ res.for = f.for
  BY DEF Results, Fragments
<1>3. /\ calls'[a] = Append(calls[a], res)
      /\ \A c \in Commands \ {a} : calls'[c] = calls[c]
  BY <1>0, <1>1 DEF Calls
<1>. HIDE DEF res
<1>4. calls'[a] = <<res>> /\ Len(<<res>>) = 1 /\ <<res>>[1] = res
  BY <1>1, <1>3, OfOne
<1>5. calls'[a] # <<>>
  <2>1. <<res>> \in Seq({res}) /\ Len(<<>>) = 0
    BY EmptySeq
  <2>. QED  BY <1>4, <2>1
<1>6. Keeps
  BY <1>3, <1>5 DEF Keeps
<1>7. ASSUME NEW c \in Commands PROVE AnswersOwnRequest(c)' \/ Disturbed(c)'
  <2>1. CASE c # a
    <3>1. AnswersOwnRequest(c) => AnswersOwnRequest(c)'
      BY <1>3, <2>1 DEF AnswersOwnRequest
    <3>2. AnswersOwnRequest(c) \/ Disturbed(c)
      BY DEF OwnAnswers
    <3>. QED  BY <1>6, <3>1, <3>2, StillDisturbed
  <2>2. CASE c = a /\ f.for = a
    <3>1. \A i \in 1 .. Len(calls'[c]) : i = 1
      BY <1>4, <2>2
    <3>. QED  BY <1>2, <1>4, <2>2, <3>1 DEF AnswersOwnRequest
  <2>3. CASE c = a /\ ClientDisturbed(k)
    <3>1. PICK d \in Commands : Owner[d] = k /\ Disturbs(d) /\ calls[d] # <<>>
      BY <2>3 DEF ClientDisturbed
    <3>2. d # a
      BY <1>1, <3>1
    <3>3. Disturbed(c)
      BY <1>1, <2>3, <3>1, <3>2 DEF Disturbed
    <3>. QED  BY <1>6, <3>3, StillDisturbed
  <2>. QED  BY <1>0, <2>1, <2>2, <2>3
<1>. QED  BY <1>0, <1>5, <1>6, <1>7

\* What stays as it was for other clients.
OthersAlone(k) ==
  \A j \in Clients \ {k} :
    /\ mActiveExchangeState'[j] = mActiveExchangeState[j]
    /\ toServer'[j] = toServer[j] /\ toClient'[j] = toClient[j]
    /\ mReceiveBuffer'[j] = mReceiveBuffer[j]

\* One client at a time.
LEMMA OneClient ==
  ASSUME OwnAnswers, NEW k \in Clients, OthersAlone(k), broadcasts = 0 => Keeps,
         broadcasts' = broadcasts,
         broadcasts = 0 => /\ \A c \in Commands : AnswersOwnRequest(c)' \/ Disturbed(c)'
                           /\ ClientDisturbed(k)' \/ OneAnswer(k)'
  PROVE  OwnAnswers'
<1>1. ASSUME broadcasts = 0, NEW j \in Clients \ {k}
      PROVE  ClientDisturbed(j)' \/ OneAnswer(j)'
  <2>1. ClientDisturbed(j) \/ OneAnswer(j)
    BY <1>1 DEF OwnAnswers
  <2>2. /\ mActiveExchangeState'[j] = mActiveExchangeState[j]
        /\ toServer'[j] = toServer[j] /\ toClient'[j] = toClient[j]
        /\ mReceiveBuffer'[j] = mReceiveBuffer[j]
    BY DEF OthersAlone
  <2>3. OneAnswer(j) => OneAnswer(j)'
    BY <2>2 DEF OneAnswer, Quiet, Asked, Answered, AllFor, EndsLast, IsEnd, AtEnd, Disturbs
  <2>. QED  BY <1>1, <2>1, <2>3, StillDisturbed
<1>2. broadcasts' = 0 => \A j \in Clients : ClientDisturbed(j)' \/ OneAnswer(j)'
  BY <1>1
<1>. QED  BY <1>2 DEF OwnAnswers

\* A step that calls no handler.
LEMMA NoCall ==
  ASSUME OwnAnswers, UNCHANGED calls, broadcasts' = broadcasts, NEW k \in Clients,
         OthersAlone(k), broadcasts = 0 => ClientDisturbed(k) \/ OneAnswer(k)'
  PROVE  OwnAnswers'
<1>1. Keeps
  BY DEF Keeps
<1>2. broadcasts = 0 => \A c \in Commands : AnswersOwnRequest(c)' \/ Disturbed(c)'
  <2>1. \A c \in Commands : AnswersOwnRequest(c) => AnswersOwnRequest(c)'
    BY DEF AnswersOwnRequest
  <2>. QED  BY <1>1, <2>1, StillDisturbed DEF OwnAnswers
<1>. QED  BY <1>1, <1>2, OneClient, StillDisturbed

\* A client that hangs up has nothing on its way.
LEMMA QuietAfter ==
  ASSUME TypeOK, NEW k \in Clients, Hangup(k),
         mActiveExchangeState' = [mActiveExchangeState EXCEPT ![k] = NoCommand],
         mReceiveBuffer' = [mReceiveBuffer EXCEPT ![k] = <<>>]
  PROVE  OneAnswer(k)' /\ OthersAlone(k)
BY DEF TypeOK, Hangup, OneAnswer, Quiet, OthersAlone

\* Appending something to a buffer leaves something there.
LEMMA JoinNotEmpty ==
  ASSUME NEW buf \in Seq(Fragments), NEW chunk \in Seq(Fragments), chunk # <<>>
  PROVE  Join(buf, chunk) # <<>>
<1>1. Len(buf) \in Nat /\ Len(chunk) \in Nat \ {0}
  BY EmptySeq, LenProperties
<1>2. CASE /\ buf # <<>> /\ buf[Len(buf)].part = "head"
           /\ chunk[1].part = "tail"
  <2> DEFINE w == [buf[Len(buf)] EXCEPT !.part = "whole"]
             x == SubSeq(buf, 1, Len(buf) - 1)
             y == SubSeq(chunk, 2, Len(chunk))
  <2>1. Len(buf) \in Nat \ {0}
    BY <1>2, EmptySeq
  <2>2. x \in Seq(Fragments) /\ y \in Seq(Fragments) /\ w \in Fragments
    <3>1. \A i \in 1 .. Len(buf) - 1 : buf[i] \in Fragments
      BY <2>1, ElementOfSeq
    <3>2. \A i \in 2 .. Len(chunk) : chunk[i] \in Fragments
      BY <1>1, ElementOfSeq
    <3>3. buf[Len(buf)] \in Fragments
      BY <2>1, ElementOfSeq
    <3>4. Len(buf) - 1 \in Int /\ Len(chunk) \in Int
      BY <1>1, <2>1
    <3>5. x \in Seq(Fragments)
      BY <3>1, <3>4, SubSeqProperties
    <3>6. y \in Seq(Fragments)
      BY <3>2, <3>4, SubSeqProperties
    <3>. QED  BY <3>3, <3>5, <3>6, PartTyping
  <2>3. Join(buf, chunk) = x \o <<w>> \o y
    BY <1>2 DEF Join
  <2>. HIDE DEF w, x, y
  <2>4. <<w>> \in Seq(Fragments) /\ Len(<<w>>) = 1
    BY <2>2, Singleton
  <2>5. x \o <<w>> \in Seq(Fragments) /\ Len(x \o <<w>>) = Len(x) + 1
    BY <2>2, <2>4, ConcatProperties
  <2>6. /\ x \o <<w>> \o y \in Seq(Fragments)
        /\ Len(x \o <<w>> \o y) = Len(x) + 1 + Len(y)
    BY <2>2, <2>5, ConcatProperties
  <2>7. Len(x) \in Nat /\ Len(y) \in Nat /\ Len(<<>>) = 0
    BY <2>2, LenProperties, EmptySeq
  <2>. QED  BY <2>3, <2>6, <2>7
<1>3. CASE ~(/\ buf # <<>> /\ buf[Len(buf)].part = "head"
             /\ chunk[1].part = "tail")
  <2>1. Join(buf, chunk) = buf \o chunk
    BY <1>3 DEF Join
  <2>2. Len(buf \o chunk) = Len(buf) + Len(chunk)
    BY ConcatProperties
  <2>3. Len(<<>>) = 0
    BY EmptySeq
  <2>. QED  BY <1>1, <2>1, <2>2, <2>3
<1>. QED  BY <1>2, <1>3

\* A read of what answers the active exchange yields what answers it; if it
\* has all been asked for at once, what ends the exchange comes last.
LEMMA ReadOfAnswers ==
  ASSUME NEW s \in Seq(Fragments), NEW buf \in Seq(Fragments), NEW a,
         NEW n, NEW split \in BOOLEAN, CanRead(s, n, split),
         AllFor(s, a), AllFor(buf, a),
         NEW b, b = Join(buf, ChunkRead(s, n, split)),
         NEW left, left = LeftUnread(s, n, split)
  PROVE  /\ AllFor(b, a) /\ AllFor(left, a)
         /\ EndsLast(buf, s, a) =>
              /\ EndsLast(b, left, a)
              /\ b[Len(b)].part = "whole" /\ IsEnd(b[Len(b)].line, a) => left = <<>>
<1> DEFINE chunk == ChunkRead(s, n, split)
<1>1. n \in 0 .. Len(s) /\ Len(s) \in Nat /\ (split => n + 1 \in 1 .. Len(s)) /\ (n > 0 \/ split)
  BY DEF CanRead
<1>2. chunk \in Seq(Fragments) /\ left \in Seq(Fragments)
  BY ChunkTyping
<1>3. /\ Len(chunk) = IF split THEN n + 1 ELSE n
      /\ \A i \in 1 .. Len(chunk) : OfLine(chunk[i], s[i])
      /\ split => chunk[Len(chunk)].part = "head"
  BY ChunkLines
<1>4. /\ Len(left) = Len(s) - n
      /\ \A i \in 1 .. Len(left) : OfLine(left[i], s[n + i])
      /\ split => left[1].part = "tail"
  BY LeftLines
<1>5. chunk # <<>> /\ Len(chunk) \in 1 .. Len(s)
  <2>. HIDE DEF chunk
  <2>1. Len(chunk) \in 1 .. Len(s)
    BY <1>1, <1>3
  <2>. QED  BY <2>1, EmptySeq
<1>6. /\ \A i \in 1 .. Len(b) :
           \/ i \in 1 .. Len(buf) /\ OfLine(b[i], buf[i])
           \/ \E j \in 1 .. Len(chunk) : OfLine(b[i], chunk[j])
      /\ \/ b[Len(b)] = chunk[Len(chunk)]
         \/ Len(chunk) = 1 /\ chunk[1].part = "tail"
  BY <1>2, <1>5, JoinLines
<1>. HIDE DEF chunk
<1>7. \A i \in 1 .. Len(b) :
        \/ i \in 1 .. Len(buf) /\ OfLine(b[i], buf[i])
        \/ \E j \in 1 .. Len(chunk) : OfLine(b[i], s[j]) /\ j \in 1 .. Len(s)
  <2>1. \A j \in 1 .. Len(chunk) : OfLine(chunk[j], s[j]) /\ j \in 1 .. Len(s)
    BY <1>1, <1>3, <1>5
  <2>. QED  BY <1>6, <2>1 DEF OfLine
<1>8. AllFor(b, a)
  BY <1>7 DEF AllFor, OfLine
<1>9. \A i \in 1 .. Len(left) : n + i \in 1 .. Len(s) /\ OfLine(left[i], s[n + i])
  BY <1>1, <1>4
<1>10. AllFor(left, a)
  BY <1>9 DEF AllFor, OfLine
<1>11. AtEnd(s) => ~ split /\ n = Len(s)
  <2> SUFFICES ASSUME AtEnd(s) PROVE ~ split /\ n = Len(s)
    OBVIOUS
  <2>1. s # <<>>
    BY <1>1, EmptySeq
  <2>2. Len(s) = 1 /\ s[1].part = "tail"
    BY <2>1 DEF AtEnd
  <2>3. ~ split
    <3> SUFFICES ASSUME split PROVE FALSE
      OBVIOUS
    <3>1. n < Len(s) /\ s[n + 1].part = "whole"
      BY DEF CanRead
    <3>2. n = 0
      BY <1>1, <2>2, <3>1
    <3>. QED  BY <2>2, <3>1, <3>2
  <2>. QED  BY <1>1, <2>2, <2>3
<1>12. ~ split /\ n = Len(s) => left = <<>>
  <2> SUFFICES ASSUME n = Len(s) PROVE left = <<>>
    OBVIOUS
  <2>1. Len(left) = 0
    BY <1>1, <1>4
  <2>. QED  BY <1>2, <2>1, EmptySeq
<1>13. ASSUME EndsLast(buf, s, a) PROVE EndsLast(b, left, a)
  <2>1. ASSUME NEW i \in 1 .. Len(left), IsEnd(left[i].line, a) PROVE i = Len(left)
    <3>1. n + i \in 1 .. Len(s) /\ IsEnd(s[n + i].line, a)
      BY <1>9, <2>1 DEF OfLine
    <3>2. n + i = Len(s)
      BY <1>13, <3>1 DEF EndsLast
    <3>3. i \in Int /\ n \in Int /\ Len(s) \in Int
      BY <1>1
    <3>4. i = Len(s) - n
      BY <3>2, <3>3
    <3>. QED  BY <1>4, <3>4
  <2>2. ASSUME NEW i \in 1 .. Len(b), IsEnd(b[i].line, a) PROVE AtEnd(left)
    <3>1. CASE i \in 1 .. Len(buf) /\ OfLine(b[i], buf[i])
      <4>1. AtEnd(s)
        BY <1>13, <2>2, <3>1 DEF EndsLast, OfLine
      <4>. QED  BY <1>11, <1>12, <4>1 DEF AtEnd
    <3>2. ASSUME NEW j \in 1 .. Len(chunk), OfLine(b[i], s[j]), j \in 1 .. Len(s)
          PROVE  AtEnd(left)
      <4>1. j = Len(s)
        BY <1>13, <2>2, <3>2 DEF EndsLast, OfLine
      <4>2. CASE split
        <5>1. n + 1 = Len(s)
          <6>1. n + 1 <= Len(s) /\ Len(s) <= n + 1
            BY <1>1, <1>3, <4>1, <4>2
          <6>. QED  BY <1>1, <6>1
        <5>2. Len(left) = 1
          BY <1>1, <1>4, <5>1
        <5>. QED  BY <1>4, <4>2, <5>2 DEF AtEnd
      <4>3. CASE ~ split
        <5>1. n = Len(s)
          BY <1>1, <1>3, <4>1, <4>3
        <5>. QED  BY <1>12, <4>3, <5>1 DEF AtEnd
      <4>. QED  BY <4>2, <4>3
    <3>. QED  BY <1>7, <3>1, <3>2
  <2>. QED  BY <2>1, <2>2 DEF EndsLast
<1>14. ASSUME EndsLast(buf, s, a), b[Len(b)].part = "whole", IsEnd(b[Len(b)].line, a)
       PROVE  left = <<>>
  <2>1. ~ split
    <3> SUFFICES ASSUME split PROVE FALSE
      OBVIOUS
    <3>1. chunk[Len(chunk)].part = "head"
      BY <1>3
    <3>. QED  BY <1>6, <1>14, <3>1
  <2>2. Len(chunk) = n
    BY <1>3, <2>1
  <2>3. CASE b[Len(b)] = chunk[Len(chunk)]
    <3>1. n \in 1 .. Len(s) /\ OfLine(chunk[n], s[n])
      BY <1>3, <1>5, <2>2
    <3>2. n = Len(s)
      BY <1>14, <2>2, <2>3, <3>1 DEF EndsLast, OfLine
    <3>. QED  BY <1>12, <2>1, <3>2
  <2>4. CASE Len(chunk) = 1 /\ b[Len(b)] # chunk[Len(chunk)]
    <3>1. b \in Seq(Fragments) /\ b # <<>>
      <4>1. b \in Seq(Fragments)
        BY <1>2, JoinTyping DEF chunk
      <4>2. b # <<>>
        BY <1>2, <1>5, <4>1, JoinNotEmpty DEF chunk
      <4>. QED  BY <4>1, <4>2
    <3>2. Len(b) \in 1 .. Len(b)
      BY <3>1, EmptySeq
    <3>3. \/ Len(b) \in 1 .. Len(buf) /\ OfLine(b[Len(b)], buf[Len(b)])
          \/ OfLine(b[Len(b)], s[1]) /\ 1 \in 1 .. Len(s)
      BY <1>7, <2>4, <3>2
    <3>4. n = Len(s)
      <4>1. CASE Len(b) \in 1 .. Len(buf) /\ OfLine(b[Len(b)], buf[Len(b)])
        <5>1. AtEnd(s)
          BY <1>14, <4>1 DEF EndsLast, OfLine
        <5>. QED  BY <1>11, <5>1
      <4>2. CASE OfLine(b[Len(b)], s[1]) /\ 1 \in 1 .. Len(s)
        <5>1. 1 = Len(s)
          BY <1>14, <4>2 DEF EndsLast, OfLine
        <5>. QED  BY <2>2, <2>4, <5>1
      <4>. QED  BY <3>3, <4>1, <4>2
    <3>. QED  BY <1>12, <2>1, <3>4
  <2>. QED  BY <1>6, <2>3, <2>4
<1>. QED  BY <1>8, <1>10, <1>13, <1>14

\* A read delivers what answers the active exchange, and the exchange ends with
\* the last of it, or waits for more.
LEMMA ReadOwn ==
  ASSUME TypeOK, ExchangeMatchesContext, ActiveOK, OwnAnswers, NEW k \in Clients,
         ConnectionManagerDidReceiveApplicationData(k)
  PROVE  OwnAnswers'
<1>0. PICK a : a = mActiveExchangeState[k]
  OBVIOUS
<1>1. PICK n \in 0 .. Len(toClient[k]), split \in BOOLEAN :
        \/ ReceiveCompletion(k, n, split)
        \/ ReceiveCompletionAfterStop(k, n, split)
        \/ ReceiveError(k, n, split)
        \/ ReceiveAwaiting(k, n, split)
        \/ ReceiveNotifications(k, n, split)
  BY DEF ConnectionManagerDidReceiveApplicationData
<1>2. Reads(k, n, split) /\ broadcasts' = broadcasts
  BY <1>1 DEF ReceiveCompletion, ReceiveCompletionAfterStop, ReceiveError,
              ReceiveAwaiting, ReceiveNotifications, boundVars
<1> SUFFICES ASSUME broadcasts = 0 PROVE OwnAnswers'
  BY <1>2 DEF OwnAnswers
<1>3. ClientDisturbed(k) \/ OneAnswer(k)
  BY DEF OwnAnswers
<1>4. CanRead(toClient[k], n, split) /\ toClient[k] # <<>>
  <2>1. CanRead(toClient[k], n, split)
    BY <1>2 DEF Reads
  <2>2. toClient[k] = <<>> => Len(toClient[k]) = 0
    BY EmptySeq
  <2>. QED  BY <2>1, <2>2 DEF CanRead
<1>5. PICK b, left : /\ b = Buffered(k, n, split)
                     /\ left = LeftUnread(toClient[k], n, split)
  OBVIOUS
<1>6. b \in Seq(Fragments) /\ left \in Seq(Fragments)
  BY <1>2, <1>5, ReadTyping
<1>7. OneAnswer(k) => a # NoCommand /\ Answered(k, a)
  BY <1>0, <1>4 DEF OneAnswer, Quiet, Asked
<1>8. Answered(k, a) =>
        /\ AllFor(b, a) /\ AllFor(left, a) /\ toServer[k] = <<>>
        /\ Disturbs(a)
             \/ /\ EndsLast(b, left, a)
                /\ (b[Len(b)].part = "whole" /\ IsEnd(b[Len(b)].line, a)) => left = <<>>
  <2>1. PICK s, buf : s = toClient[k] /\ buf = mReceiveBuffer[k]
    OBVIOUS
  <2>2. s \in Seq(Fragments) /\ buf \in Seq(Fragments)
    BY <2>1 DEF TypeOK
  <2>3. /\ CanRead(s, n, split) /\ left = LeftUnread(s, n, split)
        /\ b = Join(buf, ChunkRead(s, n, split))
    BY <1>4, <1>5, <2>1 DEF Buffered
  <2>4. AllFor(s, a) /\ AllFor(buf, a) =>
          /\ AllFor(b, a) /\ AllFor(left, a)
          /\ EndsLast(buf, s, a) =>
               /\ EndsLast(b, left, a)
               /\ b[Len(b)].part = "whole" /\ IsEnd(b[Len(b)].line, a) => left = <<>>
    BY <2>2, <2>3, ReadOfAnswers
  <2>. QED  BY <2>1, <2>4 DEF Answered
<1>9. CASE /\ EndExchange(k)
           /\ mReceiveBuffer' = [mReceiveBuffer EXCEPT ![k] = <<>>]
           /\ Hangup(k) /\ UNCHANGED calls
  BY <1>2, <1>9, QuietAfter, NoCall DEF EndExchange
<1>10. ASSUME NEW r \in {"complete", "error"}, b # <<>>,
              b[Len(b)].part = "whole", IsEnd(b[Len(b)].line, a),
              calls' = Calls(k, r, b[Len(b)]),
              a # NoCommand, EndExchange(k),
              mReceiveBuffer' = [mReceiveBuffer EXCEPT ![k] = <<>>],
              Hangup(k) \/ ReadOn(k, left)
       PROVE  OwnAnswers'
  <2>1. Len(b) \in 1 .. Len(b) /\ b[Len(b)] \in Fragments
    BY <1>6, <1>10, LastTyping
  <2>2. PICK f \in Fragments : f = b[Len(b)]
    BY <2>1
  <2>3. ClientDisturbed(k) \/ f.for = a
    BY <1>3, <1>7, <1>8, <2>1, <2>2 DEF AllFor
  <2>4. /\ Keeps
        /\ \A c \in Commands : AnswersOwnRequest(c)' \/ Disturbed(c)'
        /\ calls'[a] # <<>>
    BY <1>0, <1>2, <1>10, <2>2, <2>3, OwnCall
  <2>5. OthersAlone(k)
    BY <1>10 DEF EndExchange, Hangup, ReadOn, TypeOK, OthersAlone
  <2>6. ClientDisturbed(k)' \/ OneAnswer(k)'
    <3>1. CASE Hangup(k)
      BY <1>10, <3>1, QuietAfter DEF EndExchange
    <3>2. CASE ReadOn(k, left) /\ ClientDisturbed(k)
      BY <2>4, <3>2, StillDisturbed
    <3>3. CASE Disturbs(a)
      <4>1. a \in Commands /\ Owner[a] = k
        BY <1>0, <1>10 DEF ActiveOK
      <4>. QED  BY <2>4, <3>3, <4>1 DEF ClientDisturbed, Disturbs
    <3>4. CASE ReadOn(k, left) /\ ~ ClientDisturbed(k) /\ ~ Disturbs(a)
      <4>1. left = <<>> /\ toServer[k] = <<>>
        BY <1>3, <1>7, <1>8, <1>10, <3>4
      <4>. QED  BY <1>10, <3>4, <4>1 DEF EndExchange, ReadOn, TypeOK, OneAnswer, Quiet
    <3>. QED  BY <1>10, <3>1, <3>2, <3>3, <3>4
  <2>. QED  BY <1>2, <2>4, <2>5, <2>6, OneClient
<1>11. mCurrentSendContext[k] = a
  BY <1>0 DEF ExchangeMatchesContext
<1>12. CASE ReceiveCompletion(k, n, split)
  <2>1. /\ a # NoCommand /\ HasCompletion(b, a)
        /\ calls' = Calls(k, "complete", b[Len(b)])
        /\ mReceiveBuffer' = [mReceiveBuffer EXCEPT ![k] = <<>>]
        /\ EndExchange(k) /\ (Hangup(k) \/ ReadOn(k, left))
    BY <1>5, <1>11, <1>12 DEF ReceiveCompletion
  <2>. QED  BY <1>10, <2>1 DEF HasCompletion, Completes, IsEnd
<1>13. CASE ReceiveCompletionAfterStop(k, n, split)
  BY <1>9, <1>13 DEF ReceiveCompletionAfterStop
<1>14. CASE ReceiveError(k, n, split)
  <2>1. /\ a # NoCommand /\ HasError(b)
        /\ calls' = Calls(k, "error", b[Len(b)])
        /\ mReceiveBuffer' = [mReceiveBuffer EXCEPT ![k] = <<>>]
        /\ EndExchange(k) /\ (Hangup(k) \/ ReadOn(k, left))
    BY <1>5, <1>11, <1>14 DEF ReceiveError
  <2>2. Error \notin Messages
    BY CommandManagerAssumption DEF CommandManagerAssumption
  <2>. QED  BY <1>10, <2>1, <2>2 DEF HasError, IsError, IsEnd
<1>15. CASE ReceiveAwaiting(k, n, split)
  <2>1. /\ ReadOn(k, left) /\ mReceiveBuffer' = [mReceiveBuffer EXCEPT ![k] = b]
        /\ UNCHANGED <<mActiveExchangeState, calls>> /\ a # NoCommand
    BY <1>5, <1>11, <1>15 DEF ReceiveAwaiting
  <2>2. /\ mActiveExchangeState'[k] = a /\ toServer'[k] = toServer[k]
        /\ toClient'[k] = left /\ mReceiveBuffer'[k] = b
    BY <1>0, <2>1 DEF ReadOn, TypeOK
  <2>3. ClientDisturbed(k) \/ OneAnswer(k)'
    <3>1. CASE Answered(k, a)
      <4>1. Answered(k, a)'
        BY <1>8, <2>2, <3>1 DEF Answered, AllFor, EndsLast, IsEnd, AtEnd, Disturbs
      <4>. QED  BY <2>1, <2>2, <4>1 DEF OneAnswer, Answered, AllFor, EndsLast, IsEnd, AtEnd, Disturbs
    <3>. QED  BY <1>3, <1>7, <3>1
  <2>4. OthersAlone(k)
    BY <2>1 DEF OthersAlone, ReadOn, TypeOK
  <2>. QED  BY <1>2, <2>1, <2>3, <2>4, NoCall
<1>16. CASE ReceiveNotifications(k, n, split)
  <2>1. a = NoCommand /\ UNCHANGED calls
    BY <1>11, <1>16 DEF ReceiveNotifications
  <2>2. ClientDisturbed(k)
    BY <1>3, <1>7, <2>1
  <2>3. OthersAlone(k)
    BY <1>16 DEF ReceiveNotifications, ReadOn, Hangup, OthersAlone, TypeOK
  <2>. QED  BY <1>2, <2>1, <2>2, <2>3, NoCall
<1>. QED  BY <1>1, <1>12, <1>13, <1>14, <1>15, <1>16

\* A server answers the active exchange; if it has nothing to send behind the
\* answer, what ends the exchange comes last.
LEMMA AnswerOwn ==
  ASSUME TypeOK, NEW k \in Clients, ServerAnswers(k), OneAnswer(k)
  PROVE  OneAnswer(k)'
<1>1. PICK a : a = mActiveExchangeState[k]
  OBVIOUS
<1>2. toServer[k] # <<>>
  BY DEF ServerAnswers
<1>3. a # NoCommand /\ Asked(k, a) /\ toServer[k] = <<a>>
  BY <1>1, <1>2 DEF OneAnswer, Quiet, Asked, Answered
<1>4. a \in Commands
  BY <1>1, <1>3 DEF TypeOK
<1>5. Head(toServer[k]) = a /\ Tail(toServer[k]) = <<>>
  BY <1>3, OfOne
<1>6. PICK answer \in Answers(a), surplus \in Surplus[a] : SendAll(k, answer \o surplus, a)
  BY <1>5 DEF ServerAnswers
<1>7. PICK lines : lines = answer \o surplus
  OBVIOUS
<1>8. lines \in Seq(Lines)
  BY <1>4, <1>6, <1>7, AnswerTyping
<1>9. PICK s : s = [i \in 1 .. Len(lines) |->
                     [line |-> lines[i], for |-> a, part |-> "whole"]]
  OBVIOUS
<1>10. /\ s \in Seq(Fragments) /\ Len(s) = Len(lines)
       /\ \A i \in 1 .. Len(s) : s[i].line = lines[i] /\ s[i].for = a
  BY <1>4, <1>8, <1>9, SentLines
<1>11. toClient'[k] = s
  <2>1. toClient'[k] = toClient[k] \o s
    BY <1>6, <1>7, <1>9 DEF SendAll, TypeOK
  <2>2. toClient[k] = <<>>
    BY <1>3 DEF Asked
  <2>. QED  BY <1>10, <2>1, <2>2, ConcatEmptySeq
<1>12. /\ mActiveExchangeState'[k] = a /\ toServer'[k] = <<>>
       /\ mReceiveBuffer'[k] = <<>>
  BY <1>1, <1>3, <1>5 DEF ServerAnswers, Asked, TypeOK, managerVars
<1>13. ASSUME ~ Disturbs(a), NEW i \in 1 .. Len(s), IsEnd(s[i].line, a)
       PROVE  i = Len(s)
  <2>1. surplus = <<>>
    BY <1>6, <1>13 DEF Disturbs
  <2>2. answer \in Seq(Lines)
    BY <1>4, <1>6, AnswerTyping
  <2>3. lines = answer
    BY <1>7, <2>1, <2>2, ConcatEmptySeq
  <2>4. CASE answer = <<Error>>
    <3>1. Len(s) = 1
      BY <1>10, <2>3, <2>4, OfOne
    <3>. QED  BY <1>13, <3>1
  <2>5. CASE answer # <<Error>>
    <3>1. PICK ls \in Leading[a], m \in Responses(a) : answer = ls \o <<m>>
      <4>1. answer \in UNION {{ls \o <<m>> : m \in Responses(a)} : ls \in Leading[a]}
        BY <1>6, <2>5 DEF Answers
      <4>2. PICK ls \in Leading[a] : answer \in {ls \o <<m>> : m \in Responses(a)}
        BY <4>1
      <4>. QED  BY <4>2
    <3>2. /\ ls \in Seq(Messages)
          /\ \A j \in 1 .. Len(ls) : PatternOf[ls[j]] # ResponsePattern[a]
      BY <1>4, CommandManagerAssumption DEF CommandManagerAssumption
    <3>3. m \in Messages
      BY DEF Responses
    <3>4. <<m>> \in Seq(Messages) /\ Len(<<m>>) = 1
      BY <3>3, Singleton
    <3>5. /\ Len(answer) = Len(ls) + 1
          /\ \A j \in 1 .. Len(ls) + 1 :
               answer[j] = IF j <= Len(ls) THEN ls[j] ELSE <<m>>[j - Len(ls)]
      BY <3>1, <3>2, <3>4, ConcatProperties
    <3>6. Len(ls) \in Nat /\ \A j \in 1 .. Len(ls) : ls[j] \in Messages
      BY <3>2, LenProperties, ElementOfSeq
    <3>7. Len(s) = Len(ls) + 1 /\ s[i].line = answer[i]
      BY <1>10, <2>3, <3>5
    <3>8. i <= Len(ls) => ~ IsEnd(s[i].line, a)
      <4> SUFFICES ASSUME i <= Len(ls) PROVE ~ IsEnd(s[i].line, a)
        OBVIOUS
      <4>1. i \in 1 .. Len(ls)
        BY <3>6, <3>7
      <4>2. s[i].line = ls[i]
        BY <3>5, <3>6, <3>7, <4>1
      <4>. QED  BY <3>2, <3>6, <4>1, <4>2 DEF IsEnd
    <3>9. ~(i <= Len(ls))
      BY <1>13, <3>8
    <3>. QED  BY <3>6, <3>7, <3>9
  <2>. QED  BY <2>4, <2>5
<1>14. Len(<<>>) = 0
  BY EmptySeq
<1>15. Disturbs(a) \/ EndsLast(<<>>, s, a)
  BY <1>13, <1>14 DEF EndsLast
<1>16. AllFor(s, a) /\ AllFor(<<>>, a)
  BY <1>10, <1>14 DEF AllFor
<1>17. Answered(k, a)'
  BY <1>11, <1>12, <1>15, <1>16 DEF Answered, AllFor, EndsLast, IsEnd, AtEnd, Disturbs
<1>. QED  BY <1>3, <1>12, <1>17
          DEF OneAnswer, Answered, AllFor, EndsLast, IsEnd, AtEnd, Disturbs

\* Every step keeps answers with their requests.
LEMMA OwnNext ==
  TypeOK /\ ExchangeMatchesContext /\ ActiveOK /\ OwnAnswers /\ [Next]_vars => OwnAnswers'
<1> SUFFICES ASSUME TypeOK, ExchangeMatchesContext, ActiveOK, OwnAnswers, [Next]_vars
             PROVE  OwnAnswers'
  OBVIOUS
<1>1. ASSUME UNCHANGED <<mActiveExchangeState, toServer, toClient, mReceiveBuffer,
                         calls, broadcasts>>
      PROVE  OwnAnswers'
  BY <1>1 DEF OwnAnswers, AnswersOwnRequest, Disturbed, ClientDisturbed, Disturbs, OneAnswer,
              Quiet, Asked, Answered, AllFor, EndsLast, IsEnd, AtEnd
<1>u. CASE UNCHANGED vars
  BY <1>u, <1>1 DEF vars, managerVars, wireVars, boundVars
<1> SUFFICES ASSUME NEW k \in Clients, Client(k) \/ Server(k) PROVE OwnAnswers'
  BY <1>u DEF Next
<1>3. CASE PerformSend(k)
  <2>0. PICK c : c = Head(mCommandQueue[k])
    OBVIOUS
  <2>1. /\ mActiveExchangeState[k] = NoCommand /\ mCurrentSendContext[k] = NoCommand
        /\ mCommandQueue[k] \in Seq(Commands) /\ mCommandQueue[k] # <<>>
    BY <1>3 DEF PerformSend, CanSend, ExchangeMatchesContext, TypeOK
  <2>2. c \in Commands /\ c # NoCommand
    BY <2>0, <2>1, HeadTailProperties, CommandManagerAssumption DEF CommandManagerAssumption
  <2>3. /\ mActiveExchangeState' = [mActiveExchangeState EXCEPT ![k] = c]
        /\ Written(k, c) \/ Dropped
        /\ UNCHANGED <<toClient, mReceiveBuffer, calls, broadcasts>>
    BY <1>3, <2>0, <2>1 DEF PerformSend
  <2>4. OneAnswer(k) => OneAnswer(k)'
    <3> SUFFICES ASSUME OneAnswer(k) PROVE OneAnswer(k)'
      OBVIOUS
    <3>1. Quiet(k)
      BY <2>1 DEF OneAnswer
    <3>2. toServer'[k] = <<>> \/ toServer'[k] = <<c>>
      <4>1. CASE Written(k, c)
        <5>1. toServer'[k] = Append(toServer[k], c)
          BY <4>1 DEF Written, TypeOK
        <5>2. toServer[k] = <<>> /\ Append(<<>>, c) = <<c>>
          BY <3>1, OfOne DEF Quiet
        <5>. QED  BY <5>1, <5>2
      <4>2. CASE Dropped
        BY <3>1, <4>2 DEF Dropped, Quiet
      <4>. QED  BY <2>3, <4>1, <4>2
    <3>3. mActiveExchangeState'[k] = c
      BY <2>3 DEF TypeOK
    <3>4. Asked(k, c)'
      BY <2>3, <3>1, <3>2 DEF Asked, Quiet
    <3>. QED  BY <2>2, <3>3, <3>4 DEF OneAnswer, Asked
  <2>5. OthersAlone(k)
    BY <2>3 DEF OthersAlone, Written, Dropped, TypeOK
  <2>6. broadcasts = 0 => ClientDisturbed(k) \/ OneAnswer(k)'
    BY <2>4 DEF OwnAnswers
  <2>. QED  BY <2>3, <2>5, <2>6, NoCall
<1>4. CASE ConnectionManagerDidDisconnect(k)
  BY <1>4, NoCall, QuietAfter DEF ConnectionManagerDidDisconnect, EndExchange, boundVars
<1>5. CASE ServerAnswers(k)
  <2>1. UNCHANGED <<mActiveExchangeState, mReceiveBuffer, calls, broadcasts>>
    BY <1>5 DEF ServerAnswers, managerVars, boundVars
  <2>2. broadcasts = 0 => ClientDisturbed(k) \/ OneAnswer(k)'
    BY <1>5, AnswerOwn DEF OwnAnswers
  <2>3. OthersAlone(k)
    BY <1>5, <2>1 DEF ServerAnswers, SendAll, OthersAlone, TypeOK
  <2>. QED  BY <2>1, <2>2, <2>3, NoCall
<1>6. ASSUME NEW l \in Lines, Broadcast(k, l) PROVE OwnAnswers'
  <2>1. broadcasts' # 0
    BY <1>6, CommandManagerAssumption DEF Broadcast, TypeOK, CommandManagerAssumption
  <2>. QED  BY <2>1 DEF OwnAnswers
<1>7. CASE ConnectionManagerDidReceiveApplicationData(k)
  BY <1>7, ReadOwn
<1>8. ASSUME NEW c \in Commands, SendCommand(k, c) PROVE OwnAnswers'
  BY <1>1, <1>8 DEF SendCommand, wireVars, boundVars
<1>9. CASE QueuePerform(k) \/ PerformIdle(k) \/ ConnectionManagerDidConnect(k)
  BY <1>1, <1>9 DEF QueuePerform, PerformIdle, ConnectionManagerDidConnect, managerVars,
                    wireVars, boundVars
<1>. QED
  BY <1>3, <1>4, <1>5, <1>6, <1>7, <1>8, <1>9 DEF Client, Server

(* Every handler is called for the answer to the very request of its       *)
(* command, however the answer is cut into reads, requests are lost and    *)
(* connections come and go, until a line for somebody else arrives or a    *)
(* request of the client's own that is answered twice has been concluded   *)
(* (CommandManager::OnResponseCompleteHandler, OnResponseErrorHandler).    *)
THEOREM AnswersOwnUntilDisturbed == Spec => []UndisturbedAnswersOwnRequest
<1>1. Init => OwnAnswers
  <2> SUFFICES ASSUME Init PROVE OwnAnswers
    OBVIOUS
  <2>1. \A c \in Commands : 1 .. Len(calls[c]) = {}
    BY EmptySeq DEF Init
  <2>. QED  BY <2>1 DEF Init, OwnAnswers, AnswersOwnRequest, OneAnswer, Quiet
<1>2. OwnAnswers /\ TypeOK => UndisturbedAnswersOwnRequest
  <2> SUFFICES ASSUME OwnAnswers, TypeOK PROVE UndisturbedAnswersOwnRequest
    OBVIOUS
  <2>1. CASE broadcasts = 0
    BY <2>1 DEF OwnAnswers, UndisturbedAnswersOwnRequest
  <2>2. CASE broadcasts # 0
    <3>1. broadcasts > 0
      BY <2>2, CommandManagerAssumption DEF TypeOK, CommandManagerAssumption
    <3>. QED  BY <3>1 DEF UndisturbedAnswersOwnRequest, Disturbed
  <2>. QED  BY <2>1, <2>2
<1>. QED  BY <1>1, <1>2, TypeInit, TypeNext, ExchangeInit, ExchangeNext, ActiveIsPending,
             OwnNext, PTL DEF Spec

-----------------------------------------------------------------------------
(***************************************************************************)
(* Notifications.  As long as no command was given, what is held of a line *)
(* and what is still to be read are the lines sent and not yet acted upon; *)
(* acting upon all of them leads to what was sent.                         *)
(***************************************************************************)
IsLastOf(b, p, i) ==
  i \in NotificationsOf(b, p) /\ \A j \in NotificationsOf(b, p) : j <= i

\* Where a pattern occurs at all there is a last line of it.
LEMMA LastOfExists ==
  ASSUME NEW b \in Seq(Fragments), NEW p
  PROVE  /\ NotificationsOf(b, p) \subseteq 1 .. Len(b) /\ Len(b) \in Nat
         /\ NotificationsOf(b, p) # {} => \E i : IsLastOf(b, p, i)
<1>1. Len(b) \in Nat
  BY LenProperties
<1>2. NotificationsOf(b, p) \subseteq 1 .. Len(b)
  BY DEF NotificationsOf
<1>3. NotificationsOf(b, p) \in SUBSET (0 .. Len(b))
  BY <1>1, <1>2
<1> DEFINE T == NotificationsOf(b, p)
<1>4. T # {} => \E i \in T : \A j \in T : j <= i
  <2>. HIDE DEF T
  <2>. QED  BY <1>1, <1>3, GreatestNatural DEF T
<1>. QED  BY <1>1, <1>2, <1>4 DEF IsLastOf

\* The last line of a pattern is what is known of it.
LEMMA DispatchLast ==
  ASSUME NEW v, NEW b \in Seq(Fragments), NEW p \in Patterns, NEW i, IsLastOf(b, p, i)
  PROVE  DispatchNotifications(v, b)[p] = b[i].line
<1> DEFINE T == NotificationsOf(b, p)
<1>1. T \subseteq Int /\ i \in T /\ \A j \in T : j <= i
  <2>1. NotificationsOf(b, p) \subseteq 1 .. Len(b)
    BY LastOfExists
  <2>. QED  BY <2>1 DEF IsLastOf
<1>2. (CHOOSE x \in T : \A j \in T : j <= x) = i
  <2>. HIDE DEF T
  <2>1. \A x \in T : (\A j \in T : j <= x) => x = i
    BY <1>1
  <2>. QED  BY <1>1, <2>1
<1>3. DispatchNotifications(v, b)[p] = b[CHOOSE x \in T : \A j \in T : j <= x].line
  BY <1>1 DEF DispatchNotifications
<1>. QED  BY <1>2, <1>3

\* Of a pattern that does not occur the application knows what it knew.
LEMMA DispatchNothing ==
  ASSUME NEW v, NEW b, NEW p \in Patterns, NotificationsOf(b, p) = {}
  PROVE  DispatchNotifications(v, b)[p] = v[p]
BY DEF DispatchNotifications

\* Which lines of two sequences, one behind the other, are of a pattern.
BothOf(s, t, p) ==
  /\ \A i \in Int : i \in NotificationsOf(s \o t, p)
       <=> i \in NotificationsOf(s, p) \/ i - Len(s) \in NotificationsOf(t, p)
  /\ \A i \in NotificationsOf(s, p) : (s \o t)[i] = s[i]
  /\ \A i \in NotificationsOf(t, p) : (s \o t)[i + Len(s)] = t[i]

\* Those of the first and, further on, those of the second.
LEMMA OfBoth ==
  ASSUME NEW s \in Seq(Fragments), NEW t \in Seq(Fragments), NEW p
  PROVE  s \o t \in Seq(Fragments) /\ BothOf(s, t, p)
<1> DEFINE u == s \o t
           m == Len(s)
           l == Len(t)
<1>1. /\ u \in Seq(Fragments) /\ Len(u) = m + l
      /\ \A i \in 1 .. m + l : u[i] = IF i <= m THEN s[i] ELSE t[i - m]
  BY ConcatProperties
<1>2. m \in Nat /\ l \in Nat
  BY LenProperties
<1>. HIDE DEF u
<1>3. \A i \in 1 .. m : u[i] = s[i]
  <2>. HIDE DEF m, l
  <2>. QED  BY <1>1, <1>2
<1>4. \A i \in 1 .. l : u[i + m] = t[i]
  <2>. HIDE DEF m, l
  <2>1. ASSUME NEW i \in 1 .. l PROVE u[i + m] = t[i]
    <3>1. i + m \in 1 .. m + l /\ ~(i + m <= m) /\ (i + m) - m = i
      BY <1>2
    <3>. QED  BY <1>1, <3>1
  <2>. QED  BY <2>1
<1> DEFINE O(f) == f.part = "whole" /\ f.line \in Messages /\ PatternOf[f.line] = p
<1>5. /\ NotificationsOf(s, p) = {i \in 1 .. m : O(s[i])}
      /\ NotificationsOf(t, p) = {i \in 1 .. l : O(t[i])}
      /\ NotificationsOf(u, p) = {i \in 1 .. m + l : O(u[i])}
  BY <1>1 DEF NotificationsOf
<1>. HIDE DEF O, m, l
<1>6. ASSUME NEW i \in Int
      PROVE  i \in NotificationsOf(u, p)
               <=> i \in NotificationsOf(s, p) \/ i - m \in NotificationsOf(t, p)
  <2>1. CASE i \in 1 .. m
    <3>1. i - m \notin 1 .. l /\ i \in 1 .. m + l
      BY <2>1, <1>2
    <3>. QED  BY <1>3, <1>5, <2>1, <3>1
  <2>2. CASE i - m \in 1 .. l
    <3>1. i \notin 1 .. m /\ i \in 1 .. m + l /\ (i - m) + m = i
      BY <2>2, <1>2
    <3>2. u[i] = t[i - m]
      BY <1>4, <2>2, <3>1
    <3>. QED  BY <1>5, <2>2, <3>1, <3>2
  <2>3. CASE i \notin 1 .. m /\ i - m \notin 1 .. l
    <3>1. i \notin 1 .. m + l
      BY <2>3, <1>2
    <3>. QED  BY <1>5, <2>3, <3>1
  <2>. QED  BY <2>1, <2>2, <2>3
<1>. QED  BY <1>1, <1>3, <1>4, <1>5, <1>6 DEF u, m, BothOf

\* Acting upon one sequence and then another is acting upon both.
LEMMA DispatchBoth ==
  ASSUME NEW v, NEW s \in Seq(Fragments), NEW t \in Seq(Fragments), NEW p \in Patterns
  PROVE  DispatchNotifications(DispatchNotifications(v, s), t)[p]
           = DispatchNotifications(v, s \o t)[p]
<1> DEFINE u == s \o t
           m == Len(s)
<1>1. /\ \A i \in Int : i \in NotificationsOf(u, p)
            <=> i \in NotificationsOf(s, p) \/ i - m \in NotificationsOf(t, p)
      /\ \A i \in NotificationsOf(s, p) : u[i] = s[i]
      /\ \A i \in NotificationsOf(t, p) : u[i + m] = t[i]
      /\ u \in Seq(Fragments)
  <2>1. BothOf(s, t, p) /\ u \in Seq(Fragments)
    BY OfBoth
  <2>. QED  BY <2>1 DEF BothOf
<1>. HIDE DEF u
<1>2. /\ NotificationsOf(s, p) \subseteq 1 .. m /\ m \in Nat
      /\ NotificationsOf(t, p) \subseteq 1 .. Len(t)
      /\ NotificationsOf(u, p) \subseteq 1 .. Len(u)
  BY <1>1, LastOfExists
<1>3. /\ NotificationsOf(s, p) \subseteq Int /\ NotificationsOf(t, p) \subseteq Int
      /\ NotificationsOf(u, p) \subseteq Int
      /\ \A i \in NotificationsOf(s, p) : i <= m
      /\ \A i \in NotificationsOf(t, p) : i >= 1
  BY <1>2
<1>. HIDE DEF m
<1>4. CASE NotificationsOf(t, p) # {}
  <2>1. PICK i : IsLastOf(t, p, i)
    BY <1>4, LastOfExists
  <2>2. i \in Int /\ i \in NotificationsOf(t, p) /\ (i + m) - m = i /\ i >= 1
    BY <1>2, <1>3, <2>1 DEF IsLastOf
  <2>3. i + m \in NotificationsOf(u, p)
    BY <1>1, <1>2, <2>2
  <2>4. ASSUME NEW j \in NotificationsOf(u, p) PROVE j <= i + m
    <3>1. j \in Int /\ (j \in NotificationsOf(s, p) \/ j - m \in NotificationsOf(t, p))
      BY <1>1, <1>3
    <3>2. CASE j \in NotificationsOf(s, p)
      BY <1>2, <1>3, <2>2, <3>1, <3>2
    <3>3. CASE j - m \in NotificationsOf(t, p)
      <4>1. j - m <= i
        BY <2>1, <3>3 DEF IsLastOf
      <4>. QED  BY <1>2, <2>2, <3>1, <4>1
    <3>. QED  BY <3>1, <3>2, <3>3
  <2>5. IsLastOf(u, p, i + m)
    BY <2>3, <2>4 DEF IsLastOf
  <2>6. DispatchNotifications(v, u)[p] = u[i + m].line
    BY <1>1, <2>5, DispatchLast
  <2>7. DispatchNotifications(DispatchNotifications(v, s), t)[p] = t[i].line
    BY <2>1, DispatchLast
  <2>. QED  BY <1>1, <2>2, <2>6, <2>7 DEF u
<1>5. CASE NotificationsOf(t, p) = {} /\ NotificationsOf(s, p) # {}
  <2>1. PICK i : IsLastOf(s, p, i)
    BY <1>5, LastOfExists
  <2>2. i \in Int /\ i \in NotificationsOf(s, p)
    BY <1>3, <2>1 DEF IsLastOf
  <2>3. IsLastOf(u, p, i)
    BY <1>1, <1>3, <1>5, <2>1, <2>2 DEF IsLastOf
  <2>4. DispatchNotifications(v, u)[p] = u[i].line
    BY <1>1, <2>3, DispatchLast
  <2>5. DispatchNotifications(DispatchNotifications(v, s), t)[p]
          = DispatchNotifications(v, s)[p]
    BY <1>5, DispatchNothing
  <2>6. DispatchNotifications(v, s)[p] = s[i].line
    BY <2>1, DispatchLast
  <2>. QED  BY <1>1, <2>2, <2>4, <2>5, <2>6 DEF u
<1>6. CASE NotificationsOf(t, p) = {} /\ NotificationsOf(s, p) = {}
  <2>1. NotificationsOf(u, p) = {}
    BY <1>1, <1>3, <1>6
  <2>2. /\ DispatchNotifications(v, u)[p] = v[p]
        /\ DispatchNotifications(v, s)[p] = v[p]
        /\ DispatchNotifications(DispatchNotifications(v, s), t)[p]
             = DispatchNotifications(v, s)[p]
    BY <1>6, <2>1, DispatchNothing
  <2>. QED  BY <2>2 DEF u
<1>. QED  BY <1>4, <1>5, <1>6

\* Acting upon one more line changes what is known of its pattern.
LEMMA DispatchOne ==
  ASSUME NEW v, NEW s \in Seq(Fragments), NEW f \in Fragments, f.part = "whole",
         NEW p \in Patterns
  PROVE  DispatchNotifications(v, Append(s, f))[p]
           = IF f.line \in Messages /\ PatternOf[f.line] = p
             THEN f.line ELSE DispatchNotifications(v, s)[p]
<1>1. <<f>> \in Seq(Fragments) /\ Len(<<f>>) = 1 /\ <<f>>[1] = f
  BY Singleton
<1>2. Append(s, f) = s \o <<f>>
  BY <1>1, AppendIsConcat
<1> DEFINE w == DispatchNotifications(v, s)
           g == <<f>>
<1>3. DispatchNotifications(w, g)[p] = DispatchNotifications(v, s \o <<f>>)[p]
  BY <1>1, DispatchBoth
<1>. HIDE DEF w
<1>4. DispatchNotifications(w, g)[p]
        = IF f.line \in Messages /\ PatternOf[f.line] = p THEN f.line ELSE w[p]
  <2>1. g \in Seq(Fragments) /\ Len(g) = 1 /\ g[1] = f
    BY <1>1
  <2>. HIDE DEF g
  <2>2. CASE f.line \in Messages /\ PatternOf[f.line] = p
    <3>1. IsLastOf(g, p, 1)
      BY <2>1, <2>2 DEF IsLastOf, NotificationsOf
    <3>. QED  BY <2>1, <2>2, <3>1, DispatchLast
  <2>3. CASE ~ (f.line \in Messages /\ PatternOf[f.line] = p)
    <3>1. NotificationsOf(g, p) = {}
      BY <2>1, <2>3 DEF NotificationsOf
    <3>. QED  BY <2>3, <3>1, DispatchNothing
  <2>. QED  BY <2>2, <2>3
<1>. QED  BY <1>2, <1>3, <1>4 DEF w

\* What is held, b, and still to be read, s, of lines u that were sent whole.
InPieces(b, s, u) ==
  /\ \A i \in 1 .. Len(u) : u[i].part = "whole"
  /\ \/ b = <<>> /\ s = u
     \/ /\ u # <<>> /\ b = <<[u[1] EXCEPT !.part = "head"]>>
        /\ Len(s) = Len(u) /\ s[1] = [u[1] EXCEPT !.part = "tail"]
        /\ \A i \in 2 .. Len(u) : s[i] = u[i]

\* Sequences that agree from m on have the same end.
LEMMA SameEnd ==
  ASSUME NEW S, NEW s \in Seq(S), NEW t \in Seq(S), Len(s) = Len(t), NEW m \in Nat \ {0},
         \A i \in m .. Len(t) : s[i] = t[i]
  PROVE  SubSeq(s, m, Len(s)) = SubSeq(t, m, Len(t)) /\ SubSeq(t, m, Len(t)) \in Seq(S)
<1> DEFINE n == Len(t)
           v == SubSeq(s, m, n)
           w == SubSeq(t, m, n)
<1>1. n \in Nat /\ m \in Int /\ n \in Int
  BY LenProperties
<1>2. \A i \in m .. n : s[i] \in S /\ t[i] \in S
  <2>1. \A i \in 1 .. n : s[i] \in S /\ t[i] \in S
    BY ElementOfSeq
  <2>. HIDE DEF n
  <2>. QED  BY <1>1, <2>1
<1>3. /\ v \in Seq(S) /\ Len(v) = (IF m <= n THEN n - m + 1 ELSE 0)
      /\ \A i \in 1 .. n - m + 1 : v[i] = s[m + i - 1]
  BY <1>1, <1>2, SubSeqProperties
<1>4. /\ w \in Seq(S) /\ Len(w) = (IF m <= n THEN n - m + 1 ELSE 0)
      /\ \A i \in 1 .. n - m + 1 : w[i] = t[m + i - 1]
  BY <1>1, <1>2, SubSeqProperties
<1>. HIDE DEF n, v, w
<1>5. ASSUME NEW i \in 1 .. Len(v) PROVE v[i] = w[i]
  <2>1. i \in 1 .. n - m + 1 /\ m + i - 1 \in m .. n
    BY <1>1, <1>3
  <2>. QED  BY <1>3, <1>4, <2>1 DEF n
<1>6. v = w
  BY <1>3, <1>4, <1>5, SeqEqual
<1>. QED  BY <1>4, <1>6 DEF n, v, w

\* An element in front of the end of a sequence replaces the first one.
LEMMA FirstReplaced ==
  ASSUME NEW S, NEW p \in Seq(S), NEW q \in Seq(S), p # <<>>, Len(p) = Len(q),
         \A i \in 2 .. Len(p) : q[i] = p[i]
  PROVE  <<p[1]>> \o SubSeq(q, 2, Len(q)) = p
<1>1. SubSeq(q, 2, Len(q)) = SubSeq(p, 2, Len(p))
  BY SameEnd
<1>2. Tail(p) = SubSeq(p, 2, Len(p)) /\ Head(p) = p[1]
  BY TailIsSubSeq
<1>3. <<Head(p)>> \o Tail(p) = p
  BY HeadThenTail
<1>. QED  BY <1>1, <1>2, <1>3, Zenon

\* A read joins the pieces of a line.
LEMMA ReadOfPieces ==
  ASSUME NEW u \in Seq(Fragments), NEW b \in Seq(Fragments), NEW s \in Seq(Fragments),
         NEW n, NEW split \in BOOLEAN, InPieces(b, s, u), CanRead(s, n, split)
  PROVE  /\ n \in 0 .. Len(u) /\ (split => n < Len(u))
         /\ Join(b, ChunkRead(s, n, split)) = ChunkRead(u, n, split)
         /\ LeftUnread(s, n, split) = LeftUnread(u, n, split)
<1>1. Len(u) \in Nat /\ Len(s) = Len(u) /\ n \in 0 .. Len(u) /\ (split => n < Len(u))
  BY LenProperties DEF CanRead, InPieces
<1>2. CASE b = <<>> /\ s = u
  <2>1. ChunkRead(s, n, split) \in Seq(Fragments)
    BY ChunkTyping
  <2>2. Join(<<>>, ChunkRead(s, n, split)) = ChunkRead(s, n, split)
    BY <2>1, ConcatEmptySeq DEF Join
  <2>. QED  BY <1>1, <1>2, <2>2
<1>3. CASE /\ u # <<>> /\ b = <<[u[1] EXCEPT !.part = "head"]>>
           /\ s[1] = [u[1] EXCEPT !.part = "tail"]
           /\ \A i \in 2 .. Len(u) : s[i] = u[i]
  <2> DEFINE h == [u[1] EXCEPT !.part = "head"]
             E == IF split THEN <<[u[n + 1] EXCEPT !.part = "head"]>> ELSE <<>>
             p == SubSeq(u, 1, n) \o E
             q == SubSeq(s, 1, n) \o E
  <2>1. Len(u) >= 1 /\ u[1] \in Fragments /\ u[1].part = "whole"
    <3>1. Len(u) # 0
      BY <1>3, EmptySeq
    <3>. QED  BY <1>1, <3>1, ElementOfSeq DEF InPieces
  <2>2. h.part = "head" /\ s[1].part = "tail" /\ [h EXCEPT !.part = "whole"] = u[1]
    BY <1>3, <2>1, PiecesOfOne
  <2>3. n >= 1
    <3> SUFFICES ASSUME n = 0 PROVE FALSE
      BY <1>1
    <3>1. split /\ s[0 + 1].part = "whole"
      BY DEF CanRead
    <3>. QED  BY <2>2, <3>1
  <2>4. split => n + 1 \in 2 .. Len(u) /\ s[n + 1] = u[n + 1]
    BY <1>1, <1>3, <2>3
  <2>5. LeftUnread(s, n, split) = LeftUnread(u, n, split)
    <3>1. /\ SubSeq(s, n + 1, Len(s)) = SubSeq(u, n + 1, Len(u))
          /\ SubSeq(s, n + 2, Len(s)) = SubSeq(u, n + 2, Len(u))
      <4>1. /\ n + 1 \in Nat \ {0} /\ n + 2 \in Nat \ {0}
            /\ \A i \in n + 1 .. Len(u) : s[i] = u[i]
            /\ \A i \in n + 2 .. Len(u) : s[i] = u[i]
        BY <1>1, <1>3, <2>3
      <4>. QED  BY <1>1, <4>1, SameEnd
    <3>. QED  BY <2>4, <3>1, Zenon DEF LeftUnread
  <2>6. ChunkRead(s, n, split) = q /\ ChunkRead(u, n, split) = p
    BY <2>4, Zenon DEF ChunkRead
  <2>7. /\ E \in Seq(Fragments) /\ Len(E) \in Nat
    <3>1. CASE split
      <4>1. [u[n + 1] EXCEPT !.part = "head"] \in Fragments
        <5>1. u[n + 1] \in Fragments
          BY <1>1, <2>4, <3>1, ElementOfSeq
        <5>. QED  BY <5>1, PartTyping
      <4>. HIDE DEF h
      <4>. QED  BY <3>1, <4>1, Singleton
    <3>2. CASE ~ split
      BY <3>2
    <3>. QED  BY <3>1, <3>2
  <2>8. /\ SubSeq(u, 1, n) \in Seq(Fragments) /\ Len(SubSeq(u, 1, n)) = n
        /\ \A i \in 1 .. n : SubSeq(u, 1, n)[i] = u[i]
        /\ SubSeq(s, 1, n) \in Seq(Fragments) /\ Len(SubSeq(s, 1, n)) = n
        /\ \A i \in 1 .. n : SubSeq(s, 1, n)[i] = s[i]
    <3>1. n \in Int /\ \A i \in 1 .. n : u[i] \in Fragments /\ s[i] \in Fragments
      BY <1>1, ElementOfSeq
    <3>. QED  BY <1>1, <2>3, <3>1, SubSeqProperties
  <2>. HIDE DEF E, h
  <2>9. /\ p \in Seq(Fragments) /\ Len(p) = n + Len(E)
        /\ \A i \in 1 .. n + Len(E) : p[i] = IF i <= n THEN SubSeq(u, 1, n)[i] ELSE E[i - n]
        /\ q \in Seq(Fragments) /\ Len(q) = n + Len(E)
        /\ \A i \in 1 .. n + Len(E) : q[i] = IF i <= n THEN SubSeq(s, 1, n)[i] ELSE E[i - n]
    BY <2>7, <2>8, ConcatProperties
  <2>. HIDE DEF p, q
  <2>10. /\ p[1] = u[1] /\ q[1] = s[1] /\ \A i \in 2 .. Len(p) : q[i] = p[i]
         /\ Len(p) >= 1 /\ Len(q) >= 1
    <3>1. n \in Nat /\ 1 \in 1 .. n /\ 1 \in 1 .. n + Len(E) /\ 1 <= n
      BY <1>1, <2>3, <2>7
    <3>2. ASSUME NEW i \in 2 .. Len(p) PROVE q[i] = p[i]
      <4>1. i \in 1 .. n + Len(E) /\ (i <= n => i \in 2 .. Len(u) /\ i \in 1 .. n)
        BY <1>1, <2>7, <2>9, <3>1
      <4>. QED  BY <1>3, <2>8, <2>9, <4>1
    <3>3. p[1] = SubSeq(u, 1, n)[1] /\ q[1] = SubSeq(s, 1, n)[1]
      BY <2>9, <3>1
    <3>4. Len(p) >= 1 /\ Len(q) >= 1
      BY <2>7, <2>9, <3>1
    <3>. QED  BY <2>8, <3>1, <3>2, <3>3, <3>4
  <2>11. p # <<>> /\ q # <<>>
    BY <2>10
  <2>12. Join(<<h>>, q) = p
    <3>1. /\ <<h>> # <<>> /\ <<h>>[Len(<<h>>)].part = "head" /\ q[1].part = "tail"
          /\ Len(<<h>>) - 1 = 0 /\ [<<h>>[Len(<<h>>)] EXCEPT !.part = "whole"] = u[1]
      BY <2>2, <2>10, OfOne
    <3>2. Join(<<h>>, q) = SubSeq(<<h>>, 1, 0) \o <<u[1]>> \o SubSeq(q, 2, Len(q))
      BY <2>11, <3>1, Zenon DEF Join
    <3>3. SubSeq(<<h>>, 1, 0) = <<>> /\ <<>> \o <<u[1]>> = <<u[1]>>
      <4>1. <<u[1]>> \in Seq(Fragments)
        BY <2>1, Singleton
      <4>. QED  BY <4>1, SubSeqEmpty, ConcatEmptySeq
    <3>4. <<p[1]>> \o SubSeq(q, 2, Len(q)) = p
      BY <2>9, <2>10, <2>11, FirstReplaced
    <3>. QED  BY <2>10, <3>2, <3>3, <3>4, Zenon
  <2>. QED  BY <1>1, <1>3, <2>5, <2>6, <2>12 DEF h
<1>. QED  BY <1>2, <1>3 DEF InPieces

\* What a read of whole lines lets the application act upon, and what remains.
LEMMA ShapeAfterRead ==
  ASSUME NEW u \in Seq(Fragments), \A i \in 1 .. Len(u) : u[i].part = "whole",
         NEW n \in 0 .. Len(u), NEW split \in BOOLEAN, split => n < Len(u)
  PROVE  \E v \in Seq(Fragments), w \in Seq(Fragments) :
           /\ v \o w = u
           /\ CompleteLines(ChunkRead(u, n, split)) = v
           /\ InPieces(Remainder(ChunkRead(u, n, split)), LeftUnread(u, n, split), w)
<1> DEFINE v == SubSeq(u, 1, n)
           w == SubSeq(u, n + 1, Len(u))
           chunk == ChunkRead(u, n, split)
           l == Len(u)
<1>1. l \in Nat /\ n \in Nat /\ n <= l
  BY LenProperties
<1>2. \A i \in 1 .. l : u[i] \in Fragments /\ u[i].part = "whole"
  BY ElementOfSeq
<1>3. v \o w = u
  <2>1. 1 \in 1 .. l + 1 /\ n \in 1 - 1 .. l /\ l \in n .. l
    <3>. HIDE DEF l
    <3>. QED  BY <1>1
  <2>2. v \o w = SubSeq(u, 1, l)
    BY <2>1, ConcatAdjacentSubSeq
  <2>. QED  BY <2>2, SubSeqFull
<1>4. /\ v \in Seq(Fragments) /\ Len(v) = n
      /\ \A i \in 1 .. n : v[i] = u[i]
      /\ w \in Seq(Fragments) /\ Len(w) = l - n
      /\ \A i \in 1 .. l - n : w[i] = u[n + i]
  <2>. HIDE DEF l
  <2>1. \A i \in 1 .. n : u[i] \in Fragments
    BY <1>1, <1>2
  <2>2. \A i \in n + 1 .. l : u[i] \in Fragments
    BY <1>1, <1>2
  <2>3. /\ v \in Seq(Fragments) /\ Len(v) = (IF 1 <= n THEN n - 1 + 1 ELSE 0)
        /\ \A i \in 1 .. n - 1 + 1 : v[i] = u[1 + i - 1]
    BY <1>1, <2>1, SubSeqProperties
  <2>4. /\ w \in Seq(Fragments)
        /\ Len(w) = (IF n + 1 <= l THEN l - (n + 1) + 1 ELSE 0)
        /\ \A i \in 1 .. l - (n + 1) + 1 : w[i] = u[n + 1 + i - 1]
    BY <1>1, <2>2, SubSeqProperties DEF l
  <2>. HIDE DEF v, w
  <2>5. /\ Len(v) = n /\ Len(w) = l - n
        /\ \A i \in 1 .. n : v[i] = u[i]
    BY <1>1, <2>3, <2>4
  <2>6. ASSUME NEW i \in 1 .. l - n PROVE w[i] = u[n + i]
    <3>1. i \in 1 .. l - (n + 1) + 1 /\ n + 1 + i - 1 = n + i
      BY <1>1
    <3>. QED  BY <2>4, <3>1
  <2>. QED  BY <2>3, <2>4, <2>5, <2>6
<1>5. \A i \in 1 .. Len(w) : w[i].part = "whole"
  <2>. HIDE DEF l, v, w
  <2>1. ASSUME NEW i \in 1 .. Len(w) PROVE w[i].part = "whole"
    <3>1. i \in 1 .. l - n /\ n + i \in 1 .. l
      BY <1>1, <1>4
    <3>. QED  BY <1>2, <1>4, <3>1
  <2>. QED  BY <2>1
<1>6. CASE ~ split
  <2>1. chunk = v /\ LeftUnread(u, n, split) = w
    <3>1. v \o <<>> = v
      BY <1>4, ConcatEmptySeq
    <3>. QED  BY <1>6, <3>1 DEF ChunkRead, LeftUnread
  <2>2. chunk = <<>> \/ chunk[Len(chunk)].part = "whole"
    <3>. HIDE DEF v, chunk, l
    <3>1. CASE n = 0
      BY <1>4, <2>1, <3>1, EmptySeq
    <3>2. CASE n # 0
      <4>1. n \in 1 .. n /\ n \in 1 .. l
        BY <1>1, <3>2
      <4>. QED  BY <1>2, <1>4, <2>1, <4>1
    <3>. QED  BY <3>1, <3>2
  <2>. HIDE DEF v, w, chunk
  <2>3. CompleteLines(chunk) = v /\ Remainder(chunk) = <<>>
    BY <2>1, <2>2 DEF CompleteLines, Remainder
  <2>4. InPieces(Remainder(chunk), LeftUnread(u, n, split), w)
    BY <1>5, <2>1, <2>3 DEF InPieces
  <2>. QED  BY <1>3, <1>4, <2>3, <2>4 DEF chunk
<1>7. CASE split
  <2> DEFINE f == u[n + 1]
             h == [f EXCEPT !.part = "head"]
             t == [f EXCEPT !.part = "tail"]
             r == SubSeq(u, n + 2, Len(u))
  <2>1. /\ n + 1 \in 1 .. l /\ f \in Fragments /\ f.part = "whole"
        /\ w[1] = f /\ Len(w) >= 1
    <3>1. n + 1 \in 1 .. l /\ 1 \in 1 .. l - n /\ l - n >= 1
      <4>1. n < l
        BY <1>7
      <4>. HIDE DEF l
      <4>. QED  BY <1>1, <4>1
    <3>. HIDE DEF w, l
    <3>. QED  BY <1>2, <1>4, <3>1
  <2>2. h \in Fragments /\ t \in Fragments /\ h.part = "head"
    BY <2>1, PartTyping, PiecesOfOne
  <2>3. chunk = v \o <<h>> /\ LeftUnread(u, n, split) = <<t>> \o r
    BY <1>7 DEF ChunkRead, LeftUnread
  <2>4. r = Tail(w)
    <3>1. n + 1 \in 1 .. Len(u) /\ Len(u) \in n + 1 .. Len(u) /\ n + 1 + 1 = n + 2
      BY <1>1, <2>1
    <3>2. Tail(w) = SubSeq(u, n + 1 + 1, Len(u))
      BY <3>1, HeadTailOfSubSeq
    <3>. QED  BY <3>1, <3>2
  <2>. HIDE DEF f, h, t, r, v, w, l
  <2>5. w # <<>>
    BY <2>1, EmptySeq
  <2>6. /\ r \in Seq(Fragments) /\ Len(r) = Len(w) - 1
        /\ \A i \in 1 .. Len(r) : r[i] = w[i + 1]
    BY <1>4, <2>4, <2>5, HeadTailProperties
  <2>7. CompleteLines(chunk) = v /\ Remainder(chunk) = <<h>>
    <3>1. v \o <<h>> = Append(v, h)
      BY <1>4, <2>2, AppendIsConcat
    <3>2. /\ Len(chunk) = Len(v) + 1 /\ chunk[Len(v) + 1] = h /\ chunk \in Seq(Fragments)
          /\ \A i \in 1 .. Len(v) : chunk[i] = v[i]
      <4>1. chunk = Append(v, h)
        BY <2>3, <3>1
      <4>. HIDE DEF chunk
      <4>. QED  BY <1>4, <2>2, <4>1, AppendProperties
    <3>. HIDE DEF chunk
    <3>3. chunk # <<>> /\ chunk[Len(chunk)] = h /\ Len(chunk) - 1 = n
      BY <1>1, <1>4, <3>2, EmptySeq
    <3>4. SubSeq(chunk, 1, n) = v
      <4>1. /\ n \in Int /\ \A i \in 1 .. n : chunk[i] \in Fragments
        BY <1>1, <1>4, <3>2, ElementOfSeq
      <4>2. /\ SubSeq(chunk, 1, n) \in Seq(Fragments)
            /\ Len(SubSeq(chunk, 1, n)) = (IF 1 <= n THEN n - 1 + 1 ELSE 0)
            /\ \A i \in 1 .. n - 1 + 1 : SubSeq(chunk, 1, n)[i] = chunk[1 + i - 1]
        BY <4>1, SubSeqProperties
      <4> DEFINE z == SubSeq(chunk, 1, n)
      <4>3. z \in Seq(Fragments) /\ Len(z) = n /\ \A i \in 1 .. n : z[i] = v[i]
        <5>. HIDE DEF z
        <5>1. Len(z) = n /\ \A i \in 1 .. n : z[i] = chunk[i]
          BY <1>1, <4>2 DEF z
        <5>. QED  BY <1>4, <3>2, <4>2, <5>1 DEF z
      <4>. HIDE DEF z
      <4>4. z = v
        BY <1>4, <4>3, SeqEqual
      <4>. QED  BY <4>4 DEF z
    <3>. QED  BY <2>2, <3>3, <3>4 DEF CompleteLines, Remainder
  <2>8. InPieces(<<h>>, <<t>> \o r, w)
    <3>1. <<t>> \in Seq(Fragments) /\ Len(<<t>>) = 1 /\ <<t>>[1] = t
      BY <2>2, Singleton
    <3> DEFINE z == <<t>> \o r
    <3>2. /\ Len(z) = 1 + Len(r)
          /\ \A i \in 1 .. 1 + Len(r) : z[i] = IF i <= 1 THEN <<t>>[i] ELSE r[i - 1]
      BY <2>6, <3>1, ConcatProperties
    <3>. HIDE DEF z
    <3>3. Len(r) \in Nat /\ Len(w) \in Nat
      BY <1>4, <2>6, LenProperties
    <3>4. z[1] = t /\ Len(z) = Len(w)
      BY <2>6, <3>1, <3>2, <3>3
    <3>5. ASSUME NEW i \in 2 .. Len(w) PROVE z[i] = w[i]
      <4>1. i \in 1 .. 1 + Len(r) /\ ~(i <= 1) /\ i - 1 \in 1 .. Len(r) /\ (i - 1) + 1 = i
        BY <2>6, <3>3
      <4>. QED  BY <2>6, <3>2, <4>1
    <3>6. h = [w[1] EXCEPT !.part = "head"] /\ t = [w[1] EXCEPT !.part = "tail"]
      BY <2>1 DEF h, t
    <3>. QED  BY <1>5, <2>5, <3>4, <3>5, <3>6 DEF InPieces, z
  <2>. QED  BY <1>3, <1>4, <2>3, <2>7, <2>8
<1>. QED  BY <1>6, <1>7

\* Acting upon the lines u leads to what client k was sent last.
Follows(k, u) ==
  \A p \in Patterns : sent[k][p] \in {NoMessage, DispatchNotifications(view[k], u)[p]}

Unread(k, u) == InPieces(mReceiveBuffer[k], toClient[k], u) /\ Follows(k, u)

Idle(k) ==
  /\ mCommandQueue[k] = <<>> /\ toServer[k] = <<>> /\ mActiveExchangeState[k] = NoCommand
  /\ \E u \in Seq(Fragments) : Unread(k, u)

IdleFollows == submitted = {} => \A k \in Clients : Idle(k)

\* Nothing was sent on a connection that is gone, and nothing remains of it.
LEMMA IdleAfterHangup ==
  ASSUME TypeOK, NEW k \in Clients, Hangup(k), mActiveExchangeState'[k] = NoCommand,
         mReceiveBuffer' = [mReceiveBuffer EXCEPT ![k] = <<>>]
  PROVE  Idle(k)'
<1>1. /\ mCommandQueue'[k] = <<>> /\ toServer'[k] = <<>> /\ toClient'[k] = <<>>
      /\ mReceiveBuffer'[k] = <<>> /\ sent'[k] = NoMessages
  BY DEF TypeOK, Hangup
<1>2. <<>> \in Seq(Fragments) /\ \A i \in 1 .. Len(<<>>) : <<>>[i].part = "whole"
  BY EmptySeq
<1>3. InPieces(<<>>, <<>>, <<>>)
  BY <1>2 DEF InPieces
<1>4. Follows(k, <<>>)'
  BY <1>1 DEF Follows, NoMessages
<1>5. Unread(k, <<>>)'
  BY <1>1, <1>3, <1>4 DEF Unread
<1>. QED  BY <1>1, <1>2, <1>5 DEF Idle

\* Only client k is concerned.
OnlyOf(k) ==
  \A j \in Clients \ {k} :
    /\ mCommandQueue'[j] = mCommandQueue[j] /\ toServer'[j] = toServer[j]
    /\ mActiveExchangeState'[j] = mActiveExchangeState[j]
    /\ mReceiveBuffer'[j] = mReceiveBuffer[j] /\ toClient'[j] = toClient[j]
    /\ sent'[j] = sent[j] /\ view'[j] = view[j]

\* An idle client acts upon the lines of a read that are complete.
LEMMA ReadIdle ==
  ASSUME TypeOK, ExchangeMatchesContext, NEW k \in Clients, Idle(k),
         ConnectionManagerDidReceiveApplicationData(k)
  PROVE  Idle(k)' /\ OnlyOf(k)
<1>1. mActiveExchangeState[k] = NoCommand /\ mCurrentSendContext[k] = NoCommand
  BY DEF Idle, ExchangeMatchesContext
<1>2. PICK n \in 0 .. Len(toClient[k]), split \in BOOLEAN : ReceiveNotifications(k, n, split)
  BY <1>1 DEF ConnectionManagerDidReceiveApplicationData, ReceiveCompletion,
              ReceiveCompletionAfterStop, ReceiveError, ReceiveAwaiting
<1> DEFINE b == Buffered(k, n, split)
           left == LeftUnread(toClient[k], n, split)
<1>3. /\ view' = [view EXCEPT ![k] = DispatchNotifications(view[k], CompleteLines(b))]
      /\ \/ /\ mReceiveBuffer' = [mReceiveBuffer EXCEPT ![k] = Remainder(b)]
            /\ ReadOn(k, left)
            /\ UNCHANGED mActiveExchangeState
         \/ /\ mReceiveBuffer' = [mReceiveBuffer EXCEPT ![k] = <<>>]
            /\ Hangup(k)
            /\ mActiveExchangeState' = [mActiveExchangeState EXCEPT ![k] = NoCommand]
      /\ Reads(k, n, split)
  BY <1>2 DEF ReceiveNotifications, TypeOK
<1>4. CASE /\ mReceiveBuffer' = [mReceiveBuffer EXCEPT ![k] = <<>>]
           /\ Hangup(k)
           /\ mActiveExchangeState' = [mActiveExchangeState EXCEPT ![k] = NoCommand]
  <2>1. mActiveExchangeState'[k] = NoCommand
    BY <1>4 DEF TypeOK
  <2>2. Idle(k)'
    BY <1>4, <2>1, IdleAfterHangup
  <2>. QED  BY <1>3, <1>4, <2>2 DEF Hangup, OnlyOf, TypeOK
<1>5. CASE /\ mReceiveBuffer' = [mReceiveBuffer EXCEPT ![k] = Remainder(b)]
           /\ ReadOn(k, left)
           /\ UNCHANGED mActiveExchangeState
  <2>1. PICK u \in Seq(Fragments) : Unread(k, u)
    BY DEF Idle
  <2>2. /\ toClient[k] \in Seq(Fragments) /\ mReceiveBuffer[k] \in Seq(Fragments)
        /\ InPieces(mReceiveBuffer[k], toClient[k], u) /\ CanRead(toClient[k], n, split)
    BY <1>3, <2>1 DEF TypeOK, Unread, Reads
  <2>3. /\ n \in 0 .. Len(u) /\ (split => n < Len(u))
        /\ b = ChunkRead(u, n, split) /\ left = LeftUnread(u, n, split)
    BY <2>2, ReadOfPieces DEF Buffered
  <2>4. \A i \in 1 .. Len(u) : u[i].part = "whole"
    BY <2>2 DEF InPieces
  <2>5. PICK v \in Seq(Fragments), w \in Seq(Fragments) :
          /\ v \o w = u
          /\ CompleteLines(ChunkRead(u, n, split)) = v
          /\ InPieces(Remainder(ChunkRead(u, n, split)), LeftUnread(u, n, split), w)
    BY <2>3, <2>4, ShapeAfterRead
  <2>6. /\ CompleteLines(b) = v /\ InPieces(Remainder(b), left, w)
    <3>. HIDE DEF b, left
    <3>. QED  BY <2>3, <2>5
  <2>. HIDE DEF b, left
  <2>7. /\ mReceiveBuffer'[k] = Remainder(b) /\ toClient'[k] = left
        /\ view'[k] = DispatchNotifications(view[k], v) /\ sent'[k] = sent[k]
        /\ mCommandQueue'[k] = <<>> /\ toServer'[k] = <<>>
        /\ mActiveExchangeState'[k] = NoCommand
    BY <1>1, <1>3, <1>5, <2>6 DEF TypeOK, ReadOn, Idle
  <2>8. Follows(k, w)'
    <3>1. ASSUME NEW p \in Patterns
          PROVE  sent'[k][p] \in {NoMessage, DispatchNotifications(view'[k], w)[p]}
      <4>1. DispatchNotifications(view'[k], w)[p] = DispatchNotifications(view[k], u)[p]
        <5>1. DispatchNotifications(DispatchNotifications(view[k], v), w)[p]
                = DispatchNotifications(view[k], v \o w)[p]
          BY DispatchBoth
        <5>2. v \o w = u /\ view'[k] = DispatchNotifications(view[k], v)
          BY <2>5, <2>7
        <5>. QED  BY <5>1, <5>2, Zenon
      <4>2. sent[k][p] \in {NoMessage, DispatchNotifications(view[k], u)[p]}
        BY <2>1 DEF Unread, Follows
      <4>. QED  BY <2>7, <4>1, <4>2
    <3>. QED  BY <3>1 DEF Follows
  <2>9. Unread(k, w)'
    BY <2>6, <2>7, <2>8 DEF Unread
  <2>10. Idle(k)'
    BY <2>7, <2>9 DEF Idle
  <2>. QED  BY <1>3, <1>5, <2>10 DEF ReadOn, OnlyOf, TypeOK
<1>. QED  BY <1>3, <1>4, <1>5

\* A line for somebody else is one more line to read.
LEMMA BroadcastIdle ==
  ASSUME TypeOK, NEW k \in Clients, Idle(k), NEW l \in Lines, Broadcast(k, l)
  PROVE  Idle(k)'
<1> DEFINE f == [line |-> l, for |-> NoCommand, part |-> "whole"]
<1>1. f \in Fragments /\ f.part = "whole" /\ f.line = l
  BY DEF Fragments
<1>2. PICK u \in Seq(Fragments) : Unread(k, u)
  BY DEF Idle
<1>3. /\ toClient'[k] = Append(toClient[k], f) /\ mReceiveBuffer'[k] = mReceiveBuffer[k]
      /\ view'[k] = view[k] /\ sent'[k] = SentAfter(k, l)
      /\ mCommandQueue'[k] = <<>> /\ toServer'[k] = <<>>
      /\ mActiveExchangeState'[k] = NoCommand
  BY DEF Broadcast, Send, TypeOK, Idle, managerVars
<1>. HIDE DEF f
<1> DEFINE w == Append(u, f)
<1>4. /\ w \in Seq(Fragments) /\ Len(w) = Len(u) + 1 /\ w[Len(u) + 1] = f
      /\ \A i \in 1 .. Len(u) : w[i] = u[i]
  BY <1>1, AppendProperties
<1>5. Len(u) \in Nat
  BY LenProperties
<1>6. InPieces(mReceiveBuffer[k], Append(toClient[k], f), w)
  <2>1. InPieces(mReceiveBuffer[k], toClient[k], u)
    BY <1>2 DEF Unread
  <2>2. ASSUME NEW i \in 1 .. Len(w) PROVE w[i].part = "whole"
    <3>. HIDE DEF w
    <3>1. i \in 1 .. Len(u) \/ i = Len(u) + 1
      BY <1>4, <1>5
    <3>. QED  BY <1>1, <1>4, <2>1, <3>1 DEF InPieces
  <2>3. CASE mReceiveBuffer[k] = <<>> /\ toClient[k] = u
    BY <2>2, <2>3 DEF InPieces
  <2>4. CASE /\ u # <<>> /\ mReceiveBuffer[k] = <<[u[1] EXCEPT !.part = "head"]>>
             /\ Len(toClient[k]) = Len(u)
             /\ toClient[k][1] = [u[1] EXCEPT !.part = "tail"]
             /\ \A i \in 2 .. Len(u) : toClient[k][i] = u[i]
    <3> DEFINE s == toClient[k]
               z == Append(s, f)
    <3>1. /\ Len(z) = Len(s) + 1 /\ z[Len(s) + 1] = f
          /\ \A i \in 1 .. Len(s) : z[i] = s[i]
      <4>1. s \in Seq(Fragments)
        BY DEF TypeOK
      <4>. HIDE DEF s
      <4>. QED  BY <1>1, <4>1, AppendProperties
    <3>2. 1 \in 1 .. Len(u)
      <4>1. Len(u) # 0
        BY <2>4, EmptySeq
      <4>. QED  BY <1>5, <4>1
    <3>. HIDE DEF z, w
    <3>3. z[1] = s[1] /\ w[1] = u[1] /\ Len(z) = Len(w) /\ w # <<>>
      <4>1. Len(w) # 0
        BY <1>4, <1>5
      <4>2. w # <<>>
        BY <4>1, EmptySeq
      <4>. QED  BY <1>4, <2>4, <3>1, <3>2, <4>2
    <3>4. ASSUME NEW i \in 2 .. Len(w) PROVE z[i] = w[i]
      <4>1. CASE i \in 2 .. Len(u)
        <5>1. i \in 1 .. Len(u)
          BY <1>5, <4>1
        <5>. QED  BY <1>4, <2>4, <3>1, <4>1, <5>1
      <4>2. CASE i = Len(u) + 1
        BY <1>4, <2>4, <3>1, <4>2
      <4>. QED  BY <1>4, <1>5, <4>1, <4>2
    <3>. QED  BY <2>2, <2>4, <3>3, <3>4 DEF InPieces, z
  <2>. QED  BY <2>1, <2>3, <2>4 DEF InPieces
<1>7. Follows(k, w)'
  <2>1. ASSUME NEW p \in Patterns
        PROVE  sent'[k][p] \in {NoMessage, DispatchNotifications(view'[k], w)[p]}
    <3>1. DispatchNotifications(view[k], w)[p]
            = IF l \in Messages /\ PatternOf[l] = p
              THEN l ELSE DispatchNotifications(view[k], u)[p]
      <4>1. DispatchNotifications(view[k], Append(u, f))[p]
              = IF f.line \in Messages /\ PatternOf[f.line] = p
                THEN f.line ELSE DispatchNotifications(view[k], u)[p]
        BY <1>1, DispatchOne
      <4>. QED  BY <1>1, <4>1, Zenon
    <3>2. sent[k][p] \in {NoMessage, DispatchNotifications(view[k], u)[p]}
      BY <1>2 DEF Unread, Follows
    <3>3. sent'[k][p] = IF l \in Messages /\ PatternOf[l] = p THEN l ELSE sent[k][p]
      BY <1>3 DEF SentAfter
    <3>. HIDE DEF w
    <3>. QED  BY <1>3, <3>1, <3>2, <3>3
  <2>. QED  BY <2>1 DEF Follows
<1>8. \E x \in Seq(Fragments) : Unread(k, x)'
  <2>. HIDE DEF w
  <2>1. Unread(k, w)'
    BY <1>3, <1>6, <1>7 DEF Unread
  <2>. QED  BY <1>4, <2>1
<1>. QED  BY <1>3, <1>8 DEF Idle

\* Every step of a client that sends nothing keeps up with the server.
LEMMA IdleNext ==
  TypeOK /\ ExchangeMatchesContext /\ IdleFollows /\ [Next]_vars => IdleFollows'
<1> SUFFICES ASSUME TypeOK, ExchangeMatchesContext, IdleFollows, [Next]_vars,
                    submitted' = {}
             PROVE  \A j \in Clients : Idle(j)'
  BY DEF IdleFollows
<1>1. \A j \in Clients :
        /\ mCommandQueue'[j] = mCommandQueue[j] /\ toServer'[j] = toServer[j]
        /\ mActiveExchangeState'[j] = mActiveExchangeState[j]
        /\ mReceiveBuffer'[j] = mReceiveBuffer[j] /\ toClient'[j] = toClient[j]
        /\ sent'[j] = sent[j] /\ view'[j] = view[j]
        /\ Idle(j)
      => Idle(j)'
  BY DEF Idle, Unread, Follows
<1>2. ASSUME submitted = {},
             UNCHANGED <<mCommandQueue, toServer, mActiveExchangeState, mReceiveBuffer,
                         toClient, sent, view>>
      PROVE  \A j \in Clients : Idle(j)'
  BY <1>1, <1>2 DEF IdleFollows
<1>u. CASE UNCHANGED vars
  BY <1>u, <1>2 DEF vars, managerVars, wireVars
<1> SUFFICES ASSUME NEW k \in Clients, Client(k) \/ Server(k)
             PROVE  \A j \in Clients : Idle(j)'
  BY <1>u DEF Next
<1>3. \A c \in Commands : ~ SendCommand(k, c)
  BY DEF SendCommand
<1>4. submitted = {}
  BY <1>3 DEF Client, Server, QueuePerform, PerformSend, PerformIdle,
       ConnectionManagerDidConnect, ConnectionManagerDidDisconnect,
       ConnectionManagerDidReceiveApplicationData, ReceiveCompletion,
       ReceiveCompletionAfterStop, ReceiveError, ReceiveAwaiting, ReceiveNotifications,
       ServerAnswers, Broadcast
<1>5. \A j \in Clients : Idle(j)
  BY <1>4 DEF IdleFollows
<1>6. /\ ~ PerformSend(k) /\ ~ ServerAnswers(k)
  BY <1>5 DEF PerformSend, CanSend, ServerAnswers, Idle
<1>7. CASE ConnectionManagerDidReceiveApplicationData(k)
  <2>1. Idle(k)' /\ OnlyOf(k)
    BY <1>5, <1>7, ReadIdle
  <2>2. ASSUME NEW j \in Clients \ {k} PROVE Idle(j)'
    BY <1>1, <1>5, <2>1 DEF OnlyOf
  <2>. QED  BY <2>1, <2>2
<1>8. CASE ConnectionManagerDidDisconnect(k)
  <2>1. /\ Hangup(k) /\ view' = view
        /\ mActiveExchangeState' = [mActiveExchangeState EXCEPT ![k] = NoCommand]
        /\ mReceiveBuffer' = [mReceiveBuffer EXCEPT ![k] = <<>>]
    BY <1>8 DEF ConnectionManagerDidDisconnect, EndExchange
  <2>2. Idle(k)'
    <3>1. mActiveExchangeState'[k] = NoCommand
      BY <2>1 DEF TypeOK
    <3>. QED  BY <2>1, <3>1, IdleAfterHangup
  <2>3. ASSUME NEW j \in Clients \ {k} PROVE Idle(j)'
    BY <1>1, <1>5, <2>1 DEF TypeOK, Hangup
  <2>. QED  BY <2>2, <2>3
<1>9. ASSUME NEW l \in Lines, Broadcast(k, l) PROVE \A j \in Clients : Idle(j)'
  <2>1. Idle(k)'
    BY <1>5, <1>9, BroadcastIdle
  <2>2. ASSUME NEW j \in Clients \ {k} PROVE Idle(j)'
    BY <1>1, <1>5, <1>9 DEF TypeOK, Broadcast, Send, managerVars
  <2>. QED  BY <2>1, <2>2
<1>10. CASE QueuePerform(k) \/ PerformIdle(k) \/ ConnectionManagerDidConnect(k)
  BY <1>2, <1>4, <1>10 DEF QueuePerform, PerformIdle, ConnectionManagerDidConnect,
                           managerVars, wireVars
<1>. QED
  BY <1>3, <1>6, <1>7, <1>8, <1>9, <1>10 DEF Client, Server

(* A client that sends nothing itself and has read everything has acted    *)
(* upon the last line of each pattern it was sent on its connection, no    *)
(* matter into which pieces the reads cut the lines and how connections    *)
(* come and go (CommandManager::DispatchNotifications after each read, and *)
(* what it keeps of a line whose end has not come).                        *)
THEOREM IdleClientFollows == Spec => []IdleViewFollowsServer
<1>1. Init => IdleFollows
  <2> SUFFICES ASSUME Init, NEW k \in Clients PROVE Idle(k)
    BY DEF IdleFollows
  <2>1. <<>> \in Seq(Fragments) /\ \A i \in 1 .. Len(<<>>) : <<>>[i].part = "whole"
    BY EmptySeq
  <2>2. InPieces(<<>>, <<>>, <<>>)
    BY <2>1 DEF InPieces
  <2>3. Unread(k, <<>>)
    BY <2>2 DEF Init, Unread, Follows, NoMessages
  <2>. QED  BY <2>1, <2>3 DEF Idle, Init
<1>2. TypeOK /\ IdleFollows => IdleViewFollowsServer
  <2> SUFFICES ASSUME TypeOK, IdleFollows, submitted = {}, NEW k \in Clients,
                      toClient[k] = <<>>, NEW p \in Patterns
               PROVE  sent[k][p] \in {NoMessage, view[k][p]}
    BY DEF IdleViewFollowsServer, ViewFollowsServer
  <2>1. PICK u \in Seq(Fragments) : Unread(k, u)
    BY DEF IdleFollows, Idle
  <2>2. u = <<>>
    <3>1. Len(u) = Len(<<>>)
      BY <2>1 DEF Unread, InPieces
    <3>. QED  BY <3>1, EmptySeq
  <2>3. NotificationsOf(u, p) = {}
    BY <2>2 DEF NotificationsOf
  <2>4. DispatchNotifications(view[k], u)[p] = view[k][p]
    BY <2>3, DispatchNothing
  <2>. QED  BY <2>1, <2>4 DEF Unread, Follows
<1>. QED  BY <1>1, <1>2, TypeInit, TypeNext, ExchangeInit, ExchangeNext, IdleNext, PTL DEF Spec

=============================================================================
