------------------------- MODULE HostRequestsProofs -------------------------
(***************************************************************************)
(* Proofs about HostRequests.  The inductive invariant says what each       *)
(* message on its way and each entry of the store tells of its call.        *)
(***************************************************************************)
EXTENDS HostRequests, FiniteSetTheorems, TLAPS

Sent(w) == {mail[w][i] : i \in DOMAIN mail[w]}

OneBegin(w) ==
  \A i, j \in DOMAIN mail[w] :
    /\ mail[w][i].what = "begin" /\ mail[w][j].what = "begin"
    /\ mail[w][i].call = mail[w][j].call
    => i = j

\* A call sends one begin, before everything else, and reports at the end.
MailInOrder ==
  \A w \in Worker :
    /\ \A m \in Sent(w) :
         /\ at[m.call] = w
         /\ m.what = "begin" => number[m.call] = 0 /\ waits[m.call] = None
         /\ m.what # "begin" => pc[m.call] \notin {"new", "begin", "run"}
         /\ m.what = "complete" => m.call \in applied
    /\ OneBegin(w)

\* A call that goes on has a worker; a call that runs was started.
CallsStarted ==
  \A c \in Call :
    /\ pc[c] = "new" => at[c] = None /\ number[c] = 0 /\ waits[c] = None
    /\ pc[c] # "new" => at[c] \in Worker
    /\ pc[c] \in {"begin", "run", "report", "abort"} =>
         at[c] \in Worker /\ worker[at[c]] = "up"
    /\ reply[c] = "started" => pc[c] = "begin"
    /\ pc[c] = "run" \/ reply[c] = "started" => c \in ops
    /\ pc[c] = "report" => c \in applied
    /\ waits[c] # None => number[c] = 0

Numbered ==
  /\ \A c \in Call : number[c] <= sequence
  /\ \A c, d \in Call : number[c] = number[d] /\ number[c] # 0 => c = d
  /\ \A c \in ops \cup applied \cup expired : number[c] # 0
  /\ expired \cap ops = {}

\* The entries of the store, and the operations they stand for.
StoreTells ==
  /\ \A k \in Key : store[k].op # None =>
       /\ KeyOf(store[k].op) = k
       /\ number[store[k].op] # 0
       /\ IF store[k].done THEN store[k].op \in applied \ ops ELSE store[k].op \in ops
  /\ \A c \in ops : store[KeyOf(c)].op = c \/ PushedOut(c)

\* A done operation is remembered until it may be forgotten.
Kept(r) ==
  \/ store[KeyOf(r)].op = r /\ store[KeyOf(r)].done
  \/ r \in expired
  \/ PushedOut(r)

Answers(r, c) ==
  /\ r \in applied
  /\ KeyOf(r) = KeyOf(c)
  /\ ask[r].print = ask[c].print
  /\ Kept(r)

RepliesTell ==
  \A c \in Call :
    /\ reply[c] \in Call => pc[c] = "begin" /\ Answers(reply[c], c)
    /\ pc[c] = "report" /\ reply[c] = "ack" => Kept(c)
    /\ pc[c] = "ok" => answer[c] \in Call /\ Answers(answer[c], c)

WaitersJoined ==
  \A c \in Call : waits[c] # None =>
    /\ waits[c] \in ops
    /\ KeyOf(waits[c]) = KeyOf(c)
    /\ ask[waits[c]].print = ask[c].print

IInv ==
  /\ TypeOK
  /\ MailInOrder
  /\ CallsStarted
  /\ Numbered
  /\ StoreTells
  /\ RepliesTell
  /\ WaitersJoined

-----------------------------------------------------------------------------
(* What is on its way                                                       *)

\* A message that is sent comes after the others.
LEMMA SendMail ==
  ASSUME TypeOK, NEW w \in Worker, NEW m \in Message,
         mail' = [mail EXCEPT ![w] = Append(@, m)]
  PROVE  /\ mail' \in [Worker -> Seq(Message)]
         /\ \A v \in Worker : Sent(v)' = IF v = w THEN Sent(v) \cup {m} ELSE Sent(v)
         /\ \A v \in Worker :
              /\ OneBegin(v)
              /\ m.what = "begin" =>
                   \A n \in Sent(w) : n.what = "begin" => n.call # m.call
              => OneBegin(v)'
<1> DEFINE s == mail[w]
           n == Len(s) + 1
<1>1. s \in Seq(Message) /\ Len(s) \in Nat /\ DOMAIN s = 1..Len(s)
  BY DEF TypeOK
<1>2. /\ mail'[w] = Append(s, m)
      /\ \A v \in Worker : v # w => mail'[v] = mail[v]
  BY DEF TypeOK
<1>3. /\ Append(s, m) \in Seq(Message)
      /\ DOMAIN Append(s, m) = 1..n
      /\ Append(s, m)[n] = m
      /\ \A i \in DOMAIN s : Append(s, m)[i] = s[i]
  BY <1>1
<1>4. mail' \in [Worker -> Seq(Message)]
  BY <1>3 DEF TypeOK
<1> HIDE DEF s
<1>5. DOMAIN Append(s, m) = DOMAIN s \cup {n}
  BY <1>1, <1>3
<1>6. ASSUME NEW v \in Worker
      PROVE  Sent(v)' = IF v = w THEN Sent(v) \cup {m} ELSE Sent(v)
  <2>1. CASE v = w
    <3>1. Sent(v)' = {Append(s, m)[i] : i \in DOMAIN Append(s, m)}
      BY <2>1, <1>2 DEF Sent
    <3>2. Sent(v) = {s[i] : i \in DOMAIN s}
      BY <2>1 DEF Sent, s
    <3> HIDE DEF n
    <3> QED
      BY <2>1, <3>1, <3>2, <1>3, <1>5
  <2>2. CASE v # w
    BY <2>2, <1>2 DEF Sent
  <2> QED
    BY <2>1, <2>2
<1>7. ASSUME NEW v \in Worker, OneBegin(v),
             m.what = "begin" => \A x \in Sent(w) : x.what = "begin" => x.call # m.call
      PROVE  OneBegin(v)'
  <2>1. CASE v = w
    <3>1. \A i \in DOMAIN s : m.what = "begin" /\ s[i].what = "begin" => s[i].call # m.call
      BY <1>7 DEF Sent, s
    <3>2. \A i, j \in DOMAIN s :
            s[i].what = "begin" /\ s[j].what = "begin" /\ s[i].call = s[j].call => i = j
      BY <1>7, <2>1 DEF OneBegin, s
    <3> HIDE DEF n
    <3> QED
      BY <2>1, <3>1, <3>2, <1>2, <1>3, <1>5 DEF OneBegin
  <2>2. CASE v # w
    BY <1>7, <2>2, <1>2 DEF OneBegin
  <2> QED
    BY <2>1, <2>2
<1> QED
  BY <1>4, <1>6, <1>7

\* Reading takes the first message, and leaves no other begin of its call.
LEMMA ReadMail ==
  ASSUME TypeOK, NEW w \in Worker, mail[w] # <<>>,
         mail' = [mail EXCEPT ![w] = Tail(@)]
  PROVE  /\ mail' \in [Worker -> Seq(Message)]
         /\ Head(mail[w]) \in Message
         /\ Head(mail[w]) \in Sent(w)
         /\ \A v \in Worker : Sent(v)' \subseteq Sent(v)
         /\ \A v \in Worker : v # w => Sent(v)' = Sent(v)
         /\ Sent(w) \subseteq Sent(w)' \cup {Head(mail[w])}
         /\ \A v \in Worker : OneBegin(v) => OneBegin(v)'
         /\ OneBegin(w) /\ Head(mail[w]).what = "begin" =>
              \A x \in Sent(w)' : x.what = "begin" => x.call # Head(mail[w]).call
<1> DEFINE s == mail[w]
           t == Tail(s)
<1>1. s \in Seq(Message) /\ Len(s) \in Nat \ {0} /\ DOMAIN s = 1..Len(s)
  BY DEF TypeOK
<1>2. /\ mail'[w] = t
      /\ \A v \in Worker : v # w => mail'[v] = mail[v]
  BY DEF TypeOK
<1>3. /\ t \in Seq(Message)
      /\ DOMAIN t = 1..(Len(s) - 1)
      /\ \A i \in DOMAIN t : i + 1 \in DOMAIN s /\ t[i] = s[i + 1]
      /\ \A i \in DOMAIN s : i # 1 => i - 1 \in DOMAIN t /\ t[i - 1] = s[i]
      /\ 1 \in DOMAIN s /\ Head(s) = s[1] /\ s[1] \in Message
  BY <1>1
<1>4. mail' \in [Worker -> Seq(Message)]
  BY <1>3 DEF TypeOK
<1>5. Sent(w)' = {t[i] : i \in DOMAIN t} /\ Sent(w) = {s[i] : i \in DOMAIN s}
  BY <1>2 DEF Sent
<1>6. \A v \in Worker : v # w => Sent(v)' = Sent(v) /\ (OneBegin(v) => OneBegin(v)')
  BY <1>2 DEF Sent, OneBegin
<1>7. OneBegin(w)' <=> \A i, j \in DOMAIN t :
        t[i].what = "begin" /\ t[j].what = "begin" /\ t[i].call = t[j].call => i = j
  BY <1>2 DEF OneBegin
<1>8. OneBegin(w) <=> \A i, j \in DOMAIN s :
        s[i].what = "begin" /\ s[j].what = "begin" /\ s[i].call = s[j].call => i = j
  BY DEF OneBegin
<1>9. /\ Head(s) \in Sent(w)
      /\ Sent(w)' \subseteq Sent(w)
      /\ Sent(w) \subseteq Sent(w)' \cup {Head(s)}
  <2> HIDE DEF t
  <2>1. Head(s) \in Sent(w)
    BY <1>3, <1>5
  <2>2. ASSUME NEW i \in DOMAIN t PROVE t[i] \in Sent(w)
    BY <1>3, <1>5
  <2>3. ASSUME NEW i \in DOMAIN s PROVE s[i] \in Sent(w)' \cup {Head(s)}
    BY <1>3, <1>5
  <2> QED
    BY <2>1, <2>2, <2>3, <1>5
<1>10. OneBegin(w) => OneBegin(w)'
  <2> SUFFICES ASSUME OneBegin(w), NEW i \in DOMAIN t, NEW j \in DOMAIN t,
                      t[i].what = "begin", t[j].what = "begin", t[i].call = t[j].call
               PROVE  i = j
    BY <1>7
  <2>1. i + 1 = j + 1
    BY <1>3, <1>8
  <2> QED
    BY <2>1, <1>1, <1>3
<1>11. OneBegin(w) /\ Head(s).what = "begin" =>
         \A x \in Sent(w)' : x.what = "begin" => x.call # Head(s).call
  <2> SUFFICES ASSUME OneBegin(w), s[1].what = "begin", NEW i \in DOMAIN t,
                      t[i].what = "begin", t[i].call = s[1].call
               PROVE  FALSE
    BY <1>3, <1>5
  <2>1. i + 1 = 1
    BY <1>3, <1>8
  <2> QED
    BY <2>1, <1>1, <1>3
<1> QED
  BY <1>3, <1>4, <1>6, <1>9, <1>10, <1>11

-----------------------------------------------------------------------------
(* Types                                                                    *)

\* An answer is one of the host's.
LEMMA ReplyType ==
  ASSUME reply \in [Call -> Says \cup Call \cup {None}], NEW c \in Call, NEW what,
         NEW says \in Says \cup Call, Reply(c, what, says)
  PROVE  reply' \in [Call -> Says \cup Call \cup {None}]
BY DEF Reply

\* So are the answers to those who wait.
LEMMA SettleType ==
  ASSUME TypeOK, NEW done, NEW what, NEW says \in Says \cup Call,
         Settle(done, what, says)
  PROVE  /\ ops' \in SUBSET Call
         /\ reply' \in [Call -> Says \cup Call \cup {None}]
         /\ waits' \in [Call -> Call \cup {None}]
<1>1. reply \in [Call -> Says \cup Call \cup {None}] /\ ops \in SUBSET Call
      /\ waits \in [Call -> Call \cup {None}] /\ "ack" \in Says
  BY DEF TypeOK, Says
<1> QED
  BY <1>1 DEF Settle

\* What is made of a store is a store.
LEMMA StoreType ==
  ASSUME NEW st \in [Key -> Entry]
  PROVE  /\ Evict(st) \in [Key -> Entry]
         /\ \A k \in Key, c \in Call :
              [st EXCEPT ![k] = [op |-> c, done |-> FALSE]] \in [Key -> Entry]
         /\ \A k \in Key :
              st[k].op \in Call => [st EXCEPT ![k].done = TRUE] \in [Key -> Entry]
<1>1. NoEntry \in Entry
  BY DEF Entry
<1>2. Evict(st) \in [Key -> Entry]
  BY <1>1 DEF Evict
<1>3. \A k \in Key, c \in Call :
        [st EXCEPT ![k] = [op |-> c, done |-> FALSE]] \in [Key -> Entry]
  BY DEF Entry
<1>4. ASSUME NEW k \in Key, st[k].op \in Call
      PROVE  [st EXCEPT ![k].done = TRUE] \in [Key -> Entry]
  <2>1. st[k] \in [op : Call, done : BOOLEAN]
    BY <1>4, NoneAssumption DEF Entry, NoEntry
  <2>2. [st[k] EXCEPT !.done = TRUE] \in Entry
    BY <2>1 DEF Entry
  <2> QED
    BY <2>2
<1> QED
  BY <1>2, <1>3, <1>4

\* What is left of the store is one too.
LEMMA WithoutType ==
  ASSUME store \in [Key -> Entry] PROVE \A gone : Without(gone) \in [Key -> Entry]
BY DEF Without, Entry

\* The key of a call.
LEMMA KeyType == ASSUME TypeOK, NEW c \in Call PROVE KeyOf(c) \in Key
BY AsksAssumption DEF TypeOK, KeyOf

\* Everything starts with its type.
LEMMA InitType == Init => TypeOK
<1> SUFFICES ASSUME Init PROVE TypeOK
  OBVIOUS
<1>1. store \in [Key -> Entry]
  BY DEF Init, Entry
<1>2. mail \in [Worker -> Seq(Message)]
  BY DEF Init
<1> QED
  BY <1>1, <1>2 DEF Init, TypeOK, Steps

\* Every variable keeps to its type, with whatever faults: the messages, the
\* entries and the promises of host-idempotency.ts.
THEOREM TypeCorrect == Spec => []TypeOK
<1>1. Init => TypeOK
  BY InitType
<1>2. TypeOK /\ [Next]_vars => TypeOK'
  <2> SUFFICES ASSUME TypeOK, [Next]_vars PROVE TypeOK'
    OBVIOUS
  <2>t. /\ pc \in [Call -> Steps] /\ ask \in Asks /\ at \in [Call -> Worker \cup {None}]
        /\ answer \in [Call -> Call \cup {None}] /\ applied \in SUBSET Call
        /\ worker \in [Worker -> {"up", "dead", "failed"}]
        /\ reply \in [Call -> Says \cup Call \cup {None}]
        /\ store \in [Key -> Entry] /\ ops \in SUBSET Call
        /\ sequence \in Nat /\ number \in [Call -> Nat]
        /\ waits \in [Call -> Call \cup {None}] /\ expired \in SUBSET Call
        /\ gate \in BOOLEAN /\ mail \in [Worker -> Seq(Message)]
    BY DEF TypeOK
  <2>a. ASSUME NEW c \in Call, NEW w, NEW what \in {"begin", "complete", "fail"},
               Send(c, what, w)
        PROVE  /\ mail' \in [Worker -> Seq(Message)]
               /\ reply' \in [Call -> Says \cup Call \cup {None}]
    <3>1. [what |-> what, call |-> c] \in Message
      BY DEF Message
    <3>2. CASE w \in Worker
      BY <3>1, <3>2, <2>a, <2>t, SendMail DEF Send
    <3>3. CASE w \notin Worker
      <4>1. mail' = mail
        BY <3>3, <2>a, <2>t DEF Send
      <4> QED
        BY <4>1, <2>a, <2>t DEF Send
    <3> QED
      BY <3>2, <3>3
  <2>1. ASSUME NEW c \in Call, Begin(c) PROVE TypeOK'
    <3>1. PICK w \in Worker : at' = [at EXCEPT ![c] = w] /\ Send(c, "begin", w)
      BY <2>1 DEF Begin
    <3> QED
      BY <2>1, <2>t, <3>1, <2>a DEF TypeOK, Begin, atHost, Go, Steps
  <2>2. ASSUME NEW c \in Call, Began(c) PROVE TypeOK'
    BY <2>2, <2>t DEF TypeOK, Began, Hears, Go, Steps, atHost
  <2>3. ASSUME NEW c \in Call, Operate(c) PROVE TypeOK'
    BY <2>3, <2>t, <2>a DEF TypeOK, Operate, Go, Steps, atHost
  <2>4. ASSUME NEW c \in Call, OperationFails(c) PROVE TypeOK'
    BY <2>4, <2>t, <2>a DEF TypeOK, OperationFails, Go, Steps, atHost
  <2>5. ASSUME NEW c \in Call, NotCompleted(c) PROVE TypeOK'
    BY <2>5, <2>t, <2>a DEF TypeOK, NotCompleted, Go, Steps, atHost
  <2>6. ASSUME NEW c \in Call, Completed(c) PROVE TypeOK'
    BY <2>6, <2>t DEF TypeOK, Completed, Hears, Go, Steps, atHost
  <2>7. ASSUME NEW c \in Call, Failed(c) PROVE TypeOK'
    BY <2>7, <2>t DEF TypeOK, Failed, Hears, Go, Steps, atHost
  <2>8. ASSUME NEW c \in Call, BeginTimesOut(c) PROVE TypeOK'
    BY <2>8, <2>t DEF TypeOK, BeginTimesOut, Hears, Go, Steps, atHost
  <2>r. ASSUME NEW w \in Worker, NEW what, Read(w, what)
        PROVE  /\ mail' \in [Worker -> Seq(Message)]
               /\ Head(mail[w]).call \in Call
    BY <2>r, <2>t, ReadMail DEF Read, Message
  <2>e. ASSUME NEW k \in Key PROVE store[k] # NoEntry => store[k].op \in Call
    BY <2>t DEF Entry
  <2>9. ASSUME NEW w \in Worker, HostBegin(w) PROVE TypeOK'
    <3> DEFINE c == Head(mail[w]).call
    <3>1. c \in Call /\ KeyOf(c) \in Key /\ mail' \in [Worker -> Seq(Message)]
      BY <2>9, <2>r, KeyType DEF HostBegin
    <3>u. UNCHANGED <<atWorkers, expired, gate>>
      BY <2>9 DEF HostBegin
    <3>2. CASE Found(KeyOf(c)) = NoEntry
      <4>1. StartOperation(c)
        BY <2>9, <3>2 DEF HostBegin
      <4>2. reply' \in [Call -> Says \cup Call \cup {None}]
        BY <4>1, <3>1, <2>t, ReplyType DEF StartOperation, Says
      <4>3. store' \in [Key -> Entry]
        BY <4>1, <3>1, <2>t, StoreType DEF StartOperation
      <4>4. ops' \in SUBSET Call /\ sequence' \in Nat /\ waits' = waits
            /\ number' \in [Call -> Nat]
        BY <4>1, <3>1, <2>t DEF StartOperation
      <4> QED
        BY <3>u, <2>t, <3>1, <4>2, <4>3, <4>4 DEF TypeOK, atWorkers
    <3>3. CASE Found(KeyOf(c)) # NoEntry
      <4>1. Join(c) /\ UNCHANGED <<store, ops, sequence, number>>
        BY <2>9, <3>3 DEF HostBegin
      <4>2. Found(KeyOf(c)).op \in Call
        BY <3>1, <3>3, <2>e DEF Found
      <4>3. /\ reply' \in [Call -> Says \cup Call \cup {None}]
            /\ waits' \in [Call -> Call \cup {None}]
        BY <4>1, <4>2, <3>1, <2>t, ReplyType DEF Join, Says
      <4> QED
        BY <3>u, <2>t, <3>1, <4>1, <4>3 DEF TypeOK, atWorkers
    <3> QED
      BY <3>2, <3>3
  <2>10. ASSUME NEW w \in Worker, HostComplete(w) PROVE TypeOK'
    <3> DEFINE c == Head(mail[w]).call
    <3>1. c \in Call /\ KeyOf(c) \in Key /\ mail' \in [Worker -> Seq(Message)]
      BY <2>10, <2>r, KeyType DEF HostComplete
    <3>2. CompleteOperation(c)
      BY <2>10 DEF HostComplete
    <3> HIDE DEF c
    <3>3. /\ ops' \in SUBSET Call
          /\ reply' \in [Call -> Says \cup Call \cup {None}]
          /\ waits' \in [Call -> Call \cup {None}]
      BY <3>1, <3>2, <2>t, SettleType, ReplyType
         DEF CompleteOperation, Refuse, Says
    <3>4. store' \in [Key -> Entry]
      <4>1. CASE c \in ops /\ store[KeyOf(c)].op = c
        <5> DEFINE k == KeyOf(c)
                   st == [store EXCEPT ![k].done = TRUE]
        <5>1. store[k].op \in Call => st \in [Key -> Entry]
          BY <3>1, <2>t, StoreType
        <5>2. st \in [Key -> Entry]
          BY <4>1, <5>1, <3>1
        <5>3. store' = Evict(st)
          BY <4>1, <3>2 DEF CompleteOperation
        <5> HIDE DEF st
        <5> QED
          BY <5>2, <5>3, StoreType
      <4>2. CASE ~ (c \in ops /\ store[KeyOf(c)].op = c)
        BY <4>2, <3>2, <2>t DEF CompleteOperation, Refuse
      <4> QED
        BY <4>1, <4>2
    <3> QED
      BY <2>10, <2>t, <3>1, <3>3, <3>4 DEF HostComplete, TypeOK, atWorkers
  <2>11. ASSUME NEW w \in Worker, HostFail(w) PROVE TypeOK'
    <3> DEFINE c == Head(mail[w]).call
    <3>1. c \in Call /\ mail' \in [Worker -> Seq(Message)]
      BY <2>11, <2>r DEF HostFail
    <3>2. FailOperation(c)
      BY <2>11 DEF HostFail
    <3> HIDE DEF c
    <3>3. /\ ops' \in SUBSET Call
          /\ reply' \in [Call -> Says \cup Call \cup {None}]
          /\ waits' \in [Call -> Call \cup {None}]
          /\ store' \in [Key -> Entry]
      BY <3>1, <3>2, <2>t, SettleType, ReplyType, WithoutType
         DEF FailOperation, Refuse, Says
    <3> QED
      BY <2>11, <2>t, <3>1, <3>3 DEF HostFail, TypeOK, atWorkers
  <2>12. ASSUME NEW w \in Worker, FailOwner(w) PROVE TypeOK'
    <3>1. /\ ops' \in SUBSET Call
          /\ reply' \in [Call -> Says \cup Call \cup {None}]
          /\ waits' \in [Call -> Call \cup {None}]
          /\ store' \in [Key -> Entry]
      BY <2>12, <2>t, SettleType, WithoutType DEF FailOwner, Says
    <3> QED
      BY <2>12, <2>t, <3>1 DEF FailOwner, TypeOK
  <2>13. ASSUME NEW w \in Worker, Die(w) PROVE TypeOK'
    <3>1. pc' \in [Call -> Steps]
      BY <2>13, <2>t DEF Die, Steps
    <3> QED
      BY <2>13, <2>t, <3>1 DEF Die, TypeOK, atHost
  <2>14. CASE Expire
    <3>1. ASSUME NEW k \in Key, store[k].done PROVE store[k].op \in Call
      BY <3>1, <2>e DEF NoEntry
    <3> QED
      BY <2>14, <2>t, <3>1 DEF Expire, TypeOK, atWorkers
  <2>15. CASE TakeGate \/ LeaveGate
    BY <2>15, <2>t DEF TakeGate, LeaveGate, TypeOK, atWorkers, atHost
  <2>16. CASE UNCHANGED vars
    BY <2>16, <2>t DEF TypeOK, vars, atWorkers, atHost
  <2> QED
    BY <2>1, <2>2, <2>3, <2>4, <2>5, <2>6, <2>7, <2>8, <2>9, <2>10, <2>11, <2>12,
       <2>13, <2>14, <2>15, <2>16 DEF Next, Proceed, HostReads
<1> QED
  BY <1>1, <1>2, PTL DEF Spec

-----------------------------------------------------------------------------
(* What may be forgotten                                                    *)

\* Who was pushed out stays so while numbers only grow.
LEMMA PushedOutStays ==
  ASSUME number \in [Call -> Nat], number' \in [Call -> Nat], ask' = ask,
         NEW op \in Call, number'[op] = number[op],
         \A c \in Call : number'[c] >= number[c],
         PushedOut(op)
  PROVE  PushedOut(op)'
<1>1. Later(op) \subseteq Later(op)'
  BY DEF Later, KeyOf
<1>2. Later(op)' \subseteq Call
  BY DEF Later
<1>3. IsFiniteSet(Later(op)')
  BY <1>2, FiniteAssumption, FS_Subset
<1>4. Cardinality(Later(op)) <= Cardinality(Later(op)')
  BY <1>1, <1>3, FS_Subset
<1>5. IsFiniteSet(Later(op)) /\ Cardinality(Later(op)) \in Nat
      /\ Cardinality(Later(op)') \in Nat
  BY <1>1, <1>3, FS_Subset, FS_CardinalityType
<1> QED
  BY <1>4, <1>5, EntriesAssumption DEF PushedOut

\* An entry is evicted only when its operation was pushed out.
LEMMA EvictedIsPushedOut ==
  ASSUME TypeOK, NEW st \in [Key -> Entry],
         \A j \in Key : st[j].op # None => KeyOf(st[j].op) = j,
         NEW k \in Key, Evict(st)[k] # st[k]
  PROVE  st[k].op \in Call /\ PushedOut(st[k].op) /\ Evict(st)[k] = NoEntry
<1> DEFINE op == st[k].op
           J == {j \in Key : st[j].op # None /\ number[st[j].op] > number[op]}
           f == [j \in J |-> st[j].op]
<1>1. op # None /\ Cardinality(J) >= MaxEntries /\ Evict(st)[k] = NoEntry
  BY DEF Evict
<1>2. \A j \in Key : st[j].op # None => st[j].op \in Call
  BY DEF Entry, NoEntry
<1>3. number \in [Call -> Nat]
  BY DEF TypeOK
<1>4. \A j \in J : f[j] \in Later(op)
  BY <1>1, <1>2, <1>3 DEF Later
<1>5. \A i, j \in J : f[i] = f[j] => i = j
  OBVIOUS
<1>6. f \in Injection(J, Later(op))
  BY <1>4, <1>5 DEF Injection, IsInjective
<1>7. IsFiniteSet(Later(op))
  BY FiniteAssumption, FS_Subset DEF Later
<1> HIDE DEF J, f
<1>8. Cardinality(J) <= Cardinality(Later(op)) /\ IsFiniteSet(J)
  BY <1>6, <1>7, FS_Injection
<1>9. Cardinality(J) \in Nat /\ Cardinality(Later(op)) \in Nat
  BY <1>7, <1>8, FS_CardinalityType
<1> QED
  BY <1>1, <1>2, <1>8, <1>9, EntriesAssumption DEF PushedOut

\* What the host remembers does not change when only workers act.
LEMMA HostSame ==
  ASSUME TypeOK, UNCHANGED <<ask, store, ops, sequence, number, expired>>,
         applied \subseteq applied'
  PROVE  /\ \A r \in Call : Kept(r) => Kept(r)'
         /\ \A r, c \in Call : Answers(r, c) => Answers(r, c)'
         /\ StoreTells => StoreTells'
<1>1. number \in [Call -> Nat] /\ number' \in [Call -> Nat]
      /\ \A c \in Call : number'[c] = number[c] /\ number'[c] >= number[c]
  BY DEF TypeOK
<1>2. \A r \in Call : PushedOut(r) => PushedOut(r)'
  BY <1>1, PushedOutStays
<1>3. \A c : KeyOf(c)' = KeyOf(c)
  BY DEF KeyOf
<1>4. \A r \in Call : Kept(r) => Kept(r)'
  BY <1>2, <1>3 DEF Kept
<1>5. \A r, c \in Call : Answers(r, c) => Answers(r, c)'
  BY <1>3, <1>4 DEF Answers
<1>6. ops \subseteq Call
  BY DEF TypeOK
<1>7. StoreTells => StoreTells'
  BY <1>2, <1>3, <1>6 DEF StoreTells
<1> QED
  BY <1>4, <1>5, <1>7

-----------------------------------------------------------------------------
(* Steps of the workers                                                      *)

\* The types that most steps need.
LEMMA Types ==
  ASSUME TypeOK
  PROVE  /\ pc \in [Call -> Steps] /\ at \in [Call -> Worker \cup {None}]
         /\ answer \in [Call -> Call \cup {None}] /\ applied \in SUBSET Call
         /\ worker \in [Worker -> {"up", "dead", "failed"}]
         /\ reply \in [Call -> Says \cup Call \cup {None}]
         /\ ops \in SUBSET Call /\ number \in [Call -> Nat]
         /\ waits \in [Call -> Call \cup {None}] /\ expired \in SUBSET Call
         /\ sequence \in Nat
BY DEF TypeOK

\* What is in the mail of a worker are messages of calls.
LEMMA SentTypes ==
  ASSUME TypeOK PROVE \A w \in Worker : \A m \in Sent(w) : m \in Message /\ m.call \in Call
<1>1. \A w \in Worker : mail[w] \in Seq(Message)
  BY DEF TypeOK
<1>2. ASSUME NEW w \in Worker, NEW i \in DOMAIN mail[w]
      PROVE  mail[w][i] \in Message /\ mail[w][i].call \in Call
  <2>1. mail[w][i] \in Message
    BY <1>1, <1>2
  <2> QED
    BY <2>1 DEF Message
<1> QED
  BY <1>2 DEF Sent

\* A call that begins sends its only begin.
LEMMA BeginKeeps ==
  ASSUME IInv, TypeOK', NEW c \in Call, Begin(c) PROVE IInv'
<1>t. TypeOK
  BY DEF IInv
<1>1. PICK w \in Worker : worker[w] = "up" /\ at' = [at EXCEPT ![c] = w] /\ Send(c, "begin", w)
  BY DEF Begin
<1> DEFINE m == [what |-> "begin", call |-> c]
<1>2. m \in Message
  BY DEF Message
<1>3. /\ \A v \in Worker : Sent(v)' = IF v = w THEN Sent(v) \cup {m} ELSE Sent(v)
      /\ \A v \in Worker :
           OneBegin(v) /\ (\A n \in Sent(w) : n.what = "begin" => n.call # c) => OneBegin(v)'
  <2>1. m.what = "begin" /\ m.call = c /\ mail' = [mail EXCEPT ![w] = Append(@, m)]
    BY <1>1 DEF Send
  <2> HIDE DEF m
  <2> QED
    BY <1>t, <1>2, <2>1, SendMail
<1>4. /\ pc[c] = "new" /\ pc' = [pc EXCEPT ![c] = "begin"] /\ at[c] = None
      /\ number[c] = 0 /\ waits[c] = None /\ reply' = [reply EXCEPT ![c] = None]
      /\ UNCHANGED <<ask, answer, applied, worker, atHost, gate>>
  BY <1>1 DEF Begin, Go, Send, IInv, CallsStarted
<1>5. \A v \in Worker : \A n \in Sent(v) : n.call # c
  BY <1>4, NoneAssumption DEF IInv, MailInOrder
<1>6. MailInOrder'
  BY <1>t, <1>1, <1>3, <1>4, <1>5, Types, SentTypes DEF IInv, MailInOrder, atHost
<1>7. CallsStarted'
  BY <1>t, <1>1, <1>4, Types, NoneAssumption DEF IInv, CallsStarted, atHost, Says
<1>8. Numbered'
  BY <1>4 DEF IInv, Numbered, atHost
<1>9. StoreTells'
  BY <1>t, <1>4, HostSame DEF IInv, atHost
<1>10. RepliesTell'
  BY <1>t, <1>4, HostSame, Types, NoneAssumption DEF IInv, RepliesTell, atHost
<1>11. WaitersJoined'
  BY <1>4 DEF IInv, WaitersJoined, atHost, KeyOf
<1> QED
  BY <1>6, <1>7, <1>8, <1>9, <1>10, <1>11 DEF IInv

\* An operation that ends well is reported as completed.
LEMMA OperateKeeps ==
  ASSUME IInv, TypeOK', NEW c \in Call, Operate(c) PROVE IInv'
<1>t. TypeOK
  BY DEF IInv
<1> DEFINE w == at[c]
           m == [what |-> "complete", call |-> c]
<1>1. w \in Worker /\ worker[w] = "up" /\ Send(c, "complete", w) /\ pc[c] = "run"
  BY DEF IInv, CallsStarted, Operate
<1>2. m \in Message
  BY DEF Message
<1> HIDE DEF w
<1>3. /\ \A v \in Worker : Sent(v)' = IF v = w THEN Sent(v) \cup {m} ELSE Sent(v)
      /\ \A v \in Worker : OneBegin(v) => OneBegin(v)'
  BY <1>t, <1>1, <1>2, SendMail DEF Send
<1>4. /\ pc' = [pc EXCEPT ![c] = "report"] /\ reply' = [reply EXCEPT ![c] = None]
      /\ applied' = applied \cup {c}
      /\ UNCHANGED <<ask, at, answer, worker, atHost, gate>>
  BY <1>1 DEF Operate, Go, Send
<1>5. number[c] # 0
  BY <1>1 DEF IInv, CallsStarted, Numbered
<1>6. MailInOrder'
  BY <1>t, <1>1, <1>3, <1>4, <1>5, Types, SentTypes DEF IInv, MailInOrder, atHost, w
<1>7. CallsStarted'
  BY <1>t, <1>1, <1>4, Types, NoneAssumption DEF IInv, CallsStarted, atHost, Says
<1>8. Numbered'
  BY <1>4, <1>5 DEF IInv, Numbered, atHost
<1>9. StoreTells'
  BY <1>t, <1>4, HostSame DEF IInv, atHost
<1>10. RepliesTell'
  BY <1>t, <1>1, <1>4, HostSame, Types, NoneAssumption DEF IInv, RepliesTell, atHost, Says
<1>11. WaitersJoined'
  BY <1>4 DEF IInv, WaitersJoined, atHost, KeyOf
<1> QED
  BY <1>6, <1>7, <1>8, <1>9, <1>10, <1>11 DEF IInv

\* One that fails is reported as failed.
LEMMA OperationFailsKeeps ==
  ASSUME IInv, TypeOK', NEW c \in Call, OperationFails(c) PROVE IInv'
<1>t. TypeOK
  BY DEF IInv
<1> DEFINE w == at[c]
           m == [what |-> "fail", call |-> c]
<1>1. w \in Worker /\ worker[w] = "up" /\ Send(c, "fail", w) /\ pc[c] = "run"
  BY DEF IInv, CallsStarted, OperationFails
<1>2. m \in Message
  BY DEF Message
<1> HIDE DEF w
<1>3. /\ \A v \in Worker : Sent(v)' = IF v = w THEN Sent(v) \cup {m} ELSE Sent(v)
      /\ \A v \in Worker : OneBegin(v) => OneBegin(v)'
  BY <1>t, <1>1, <1>2, SendMail DEF Send
<1>4. /\ pc' = [pc EXCEPT ![c] = "abort"] /\ reply' = [reply EXCEPT ![c] = None]
      /\ applied' = applied
      /\ UNCHANGED <<ask, at, answer, worker, atHost, gate>>
  BY <1>1 DEF OperationFails, Go, Send
<1>5. number[c] # 0
  BY <1>1 DEF IInv, CallsStarted, Numbered
<1>6. MailInOrder'
  BY <1>t, <1>1, <1>3, <1>4, <1>5, Types, SentTypes DEF IInv, MailInOrder, atHost, w
<1>7. CallsStarted'
  BY <1>t, <1>1, <1>4, Types, NoneAssumption DEF IInv, CallsStarted, atHost, Says
<1>8. Numbered'
  BY <1>4, <1>5 DEF IInv, Numbered, atHost
<1>9. StoreTells'
  BY <1>t, <1>4, HostSame DEF IInv, atHost
<1>10. RepliesTell'
  BY <1>t, <1>1, <1>4, HostSame, Types, NoneAssumption DEF IInv, RepliesTell, atHost, Says
<1>11. WaitersJoined'
  BY <1>4 DEF IInv, WaitersJoined, atHost, KeyOf
<1> QED
  BY <1>6, <1>7, <1>8, <1>9, <1>10, <1>11 DEF IInv

\* A report whose answer is late is followed by a failure.
LEMMA NotCompletedKeeps ==
  ASSUME IInv, TypeOK', NEW c \in Call, NotCompleted(c) PROVE IInv'
<1>t. TypeOK
  BY DEF IInv
<1> DEFINE w == at[c]
           m == [what |-> "fail", call |-> c]
<1>1. w \in Worker /\ worker[w] = "up" /\ Send(c, "fail", w) /\ pc[c] = "report"
  BY DEF IInv, CallsStarted, NotCompleted
<1>2. m \in Message
  BY DEF Message
<1> HIDE DEF w
<1>3. /\ \A v \in Worker : Sent(v)' = IF v = w THEN Sent(v) \cup {m} ELSE Sent(v)
      /\ \A v \in Worker : OneBegin(v) => OneBegin(v)'
  BY <1>t, <1>1, <1>2, SendMail DEF Send
<1>4. /\ pc' = [pc EXCEPT ![c] = "abort"] /\ reply' = [reply EXCEPT ![c] = None]
      /\ applied' = applied
      /\ UNCHANGED <<ask, at, answer, worker, atHost, gate>>
  BY <1>1 DEF NotCompleted, Go, Send
<1>5. number[c] # 0
  BY <1>1 DEF IInv, CallsStarted, Numbered
<1>6. MailInOrder'
  BY <1>t, <1>1, <1>3, <1>4, <1>5, Types, SentTypes DEF IInv, MailInOrder, atHost, w
<1>7. CallsStarted'
  BY <1>t, <1>1, <1>4, Types, NoneAssumption DEF IInv, CallsStarted, atHost, Says
<1>8. Numbered'
  BY <1>4, <1>5 DEF IInv, Numbered, atHost
<1>9. StoreTells'
  BY <1>t, <1>4, HostSame DEF IInv, atHost
<1>10. RepliesTell'
  BY <1>t, <1>1, <1>4, HostSame, Types, NoneAssumption DEF IInv, RepliesTell, atHost, Says
<1>11. WaitersJoined'
  BY <1>4 DEF IInv, WaitersJoined, atHost, KeyOf
<1> QED
  BY <1>6, <1>7, <1>8, <1>9, <1>10, <1>11 DEF IInv

\* A call goes on with the answer to its begin.
LEMMA BeganKeeps ==
  ASSUME IInv, TypeOK', NEW c \in Call, Began(c) PROVE IInv'
<1>t. TypeOK
  BY DEF IInv
<1>1. /\ \A w \in Worker : Sent(w)' = Sent(w) /\ OneBegin(w)' = OneBegin(w)
      /\ UNCHANGED <<ask, at, applied, worker, mail, atHost, gate>>
  BY DEF Began, Sent, OneBegin
<1>2. MailInOrder'
  BY <1>t, <1>1, Types, SentTypes DEF IInv, MailInOrder, Began, atHost, Go
<1>3. CallsStarted'
  BY <1>t, <1>1, Types, NoneAssumption, SaysAssumption
     DEF IInv, CallsStarted, Began, atHost, Says, Go, Hears
<1>4. Numbered'
  BY <1>1 DEF IInv, Numbered, atHost
<1>5. StoreTells'
  BY <1>t, <1>1, HostSame DEF IInv, atHost
<1>6. RepliesTell'
  BY <1>t, <1>1, HostSame, Types, NoneAssumption
     DEF IInv, RepliesTell, Began, atHost, Go, Hears
<1>7. WaitersJoined'
  BY <1>1 DEF IInv, WaitersJoined, atHost, KeyOf
<1> QED
  BY <1>2, <1>3, <1>4, <1>5, <1>6, <1>7 DEF IInv

\* A call ends with the answer to its report.
LEMMA CompletedKeeps ==
  ASSUME IInv, TypeOK', NEW c \in Call, Completed(c) PROVE IInv'
<1>t. TypeOK
  BY DEF IInv
<1>1. /\ \A w \in Worker : Sent(w)' = Sent(w) /\ OneBegin(w)' = OneBegin(w)
      /\ UNCHANGED <<ask, at, applied, worker, mail, atHost, gate>>
  BY DEF Completed, Sent, OneBegin
<1>8. c \in Call /\ Answers(c, c)
  BY DEF Completed, IInv, RepliesTell, CallsStarted, Answers
<1>2. MailInOrder'
  BY <1>t, <1>1, <1>8, Types, SentTypes DEF IInv, MailInOrder, Completed, atHost, Go
<1>3. CallsStarted'
  BY <1>t, <1>1, Types, NoneAssumption, SaysAssumption
     DEF IInv, CallsStarted, Completed, atHost, Says, Go, Hears
<1>4. Numbered'
  BY <1>1 DEF IInv, Numbered, atHost
<1>5. StoreTells'
  BY <1>t, <1>1, HostSame DEF IInv, atHost
<1>6. RepliesTell'
  BY <1>t, <1>1, <1>8, HostSame, Types, NoneAssumption
     DEF IInv, RepliesTell, Completed, atHost, Go, Hears
<1>7. WaitersJoined'
  BY <1>1 DEF IInv, WaitersJoined, atHost, KeyOf
<1> QED
  BY <1>2, <1>3, <1>4, <1>5, <1>6, <1>7 DEF IInv

\* A call ends with the answer to its failure.
LEMMA FailedKeeps ==
  ASSUME IInv, TypeOK', NEW c \in Call, Failed(c) PROVE IInv'
<1>t. TypeOK
  BY DEF IInv
<1>1. /\ \A w \in Worker : Sent(w)' = Sent(w) /\ OneBegin(w)' = OneBegin(w)
      /\ UNCHANGED <<ask, at, applied, worker, mail, atHost, gate>>
  BY DEF Failed, Sent, OneBegin
<1>2. MailInOrder'
  BY <1>t, <1>1, Types, SentTypes DEF IInv, MailInOrder, Failed, atHost, Go
<1>3. CallsStarted'
  BY <1>t, <1>1, Types, NoneAssumption, SaysAssumption
     DEF IInv, CallsStarted, Failed, atHost, Says, Go, Hears
<1>4. Numbered'
  BY <1>1 DEF IInv, Numbered, atHost
<1>5. StoreTells'
  BY <1>t, <1>1, HostSame DEF IInv, atHost
<1>6. RepliesTell'
  BY <1>t, <1>1, HostSame, Types, NoneAssumption
     DEF IInv, RepliesTell, Failed, atHost, Go, Hears
<1>7. WaitersJoined'
  BY <1>1 DEF IInv, WaitersJoined, atHost, KeyOf
<1> QED
  BY <1>2, <1>3, <1>4, <1>5, <1>6, <1>7 DEF IInv

\* A call gives up on its begin.
LEMMA BeginTimesOutKeeps ==
  ASSUME IInv, TypeOK', NEW c \in Call, BeginTimesOut(c) PROVE IInv'
<1>t. TypeOK
  BY DEF IInv
<1>1. /\ \A w \in Worker : Sent(w)' = Sent(w) /\ OneBegin(w)' = OneBegin(w)
      /\ UNCHANGED <<ask, at, applied, worker, mail, atHost, gate>>
  BY DEF BeginTimesOut, Sent, OneBegin
<1>8. /\ pc[c] = "begin" /\ pc' = [pc EXCEPT ![c] = "error"]
      /\ reply' = [reply EXCEPT ![c] = None] /\ answer' = answer
  BY DEF BeginTimesOut, Go, Hears
<1>2. MailInOrder'
  BY <1>t, <1>1, <1>8, Types, SentTypes DEF IInv, MailInOrder, atHost, Go
<1>3. CallsStarted'
  BY <1>t, <1>1, Types, NoneAssumption, SaysAssumption
     DEF IInv, CallsStarted, BeginTimesOut, atHost, Says, Go, Hears
<1>4. Numbered'
  BY <1>1 DEF IInv, Numbered, atHost
<1>5. StoreTells'
  BY <1>t, <1>1, HostSame DEF IInv, atHost
<1>6. RepliesTell'
  BY <1>t, <1>1, <1>8, HostSame, Types, NoneAssumption
     DEF IInv, RepliesTell, atHost, Go, Hears
<1>7. WaitersJoined'
  BY <1>1 DEF IInv, WaitersJoined, atHost, KeyOf
<1> QED
  BY <1>2, <1>3, <1>4, <1>5, <1>6, <1>7 DEF IInv

-----------------------------------------------------------------------------
(* Steps of the host                                                        *)

\* Reading a message takes it away and changes nothing else that is on its way.
LEMMA ReadFacts ==
  ASSUME IInv, NEW w \in Worker, NEW what, Read(w, what)
  PROVE  /\ Head(mail[w]).call \in Call /\ at[Head(mail[w]).call] = w
         /\ Head(mail[w]) \in Sent(w) /\ Head(mail[w]).what = what
         /\ \A v \in Worker : Sent(v)' \subseteq Sent(v)
         /\ \A v \in Worker : OneBegin(v)'
         /\ what = "begin" =>
              \A v \in Worker : \A m \in Sent(v)' :
                m.what = "begin" => m.call # Head(mail[w]).call
<1>1. TypeOK /\ mail[w] # <<>> /\ Head(mail[w]).what = what
      /\ mail' = [mail EXCEPT ![w] = Tail(@)]
  BY DEF IInv, Read
<1>2. /\ Head(mail[w]) \in Message /\ Head(mail[w]) \in Sent(w)
      /\ \A v \in Worker : Sent(v)' \subseteq Sent(v)
      /\ \A v \in Worker : OneBegin(v) => OneBegin(v)'
      /\ OneBegin(w) /\ Head(mail[w]).what = "begin" =>
           \A x \in Sent(w)' : x.what = "begin" => x.call # Head(mail[w]).call
  BY <1>1, ReadMail
<1>3. \A v \in Worker : OneBegin(v) /\ \A m \in Sent(v) : at[m.call] = v
  BY DEF IInv, MailInOrder
<1>4. Head(mail[w]).call \in Call
  BY <1>2 DEF Message
<1> QED
  BY <1>1, <1>2, <1>3, <1>4

\* Operations end: none of those runs any more, and what the host remembers of
\* the others stays.
LEMMA EndKeeps ==
  ASSUME IInv, TypeOK', NEW done \in SUBSET ops, NEW what \in {"complete", "fail"},
         NEW says \in {"refused"} \cup Call, Settle(done, what, says),
         UNCHANGED <<pc, ask, at, answer, applied, sequence, number, expired>>,
         \A d \in done : pc[d] \notin {"begin", "run"},
         \A v \in Worker : Sent(v)' \subseteq Sent(v) /\ OneBegin(v)',
         \A v \in Worker : worker[v] = "up" => worker'[v] = "up",
         StoreTells',
         \A r \in applied : Kept(r) => Kept(r)',
         \A r \in Call :
           what = "complete" /\ r = says => done = {r} /\ r \in applied /\ Kept(r)',
         what = "complete" => says \in Call,
         what = "fail" => says = "refused"
  PROVE  IInv'
<1>t. TypeOK
  BY DEF IInv
<1>1. \A c \in Call :
        /\ waits'[c] = IF waits[c] \in done THEN None ELSE waits[c]
        /\ reply'[c] = IF c \in done /\ Awaits(c, what) THEN "ack"
                       ELSE IF waits[c] \in done /\ Awaits(c, "begin") THEN says
                       ELSE reply[c]
  BY DEF Settle
<1>2. \A c \in Call : /\ Awaits(c, "begin") <=> pc[c] = "begin"
                      /\ what = "complete" => (Awaits(c, what) <=> pc[c] = "report")
                      /\ what = "fail" => (Awaits(c, what) <=> pc[c] = "abort")
  BY DEF Awaits
<1>3. ops' = ops \ done
  BY DEF Settle
<1>4. \A c : KeyOf(c)' = KeyOf(c)
  BY DEF KeyOf
<1>5. \A r, c \in Call : Answers(r, c) => Answers(r, c)'
  BY <1>4 DEF Answers
<1>6. MailInOrder'
  BY <1>t, <1>1, Types, SentTypes DEF IInv, MailInOrder
<1>7. CallsStarted'
  BY <1>t, <1>1, <1>2, <1>3, Types, NoneAssumption, SaysAssumption
     DEF IInv, CallsStarted, Says
<1>8. Numbered'
  BY <1>3 DEF IInv, Numbered
<1>9. RepliesTell'
  <2> SUFFICES ASSUME NEW c \in Call
               PROVE  /\ \A r \in Call : reply'[c] = r => pc[c] = "begin" /\ Answers(r, c)'
                      /\ pc[c] = "report" /\ reply'[c] = "ack" => Kept(c)'
                      /\ pc[c] = "ok" =>
                           \E r \in Call : answer[c] = r /\ Answers(r, c)'
    BY DEF RepliesTell
  <2>1. pc[c] = "ok" => \E r \in Call : answer[c] = r /\ Answers(r, c)'
    BY <1>5 DEF IInv, RepliesTell
  <2>2. pc[c] = "report" => c \in applied
    BY DEF IInv, CallsStarted
  <2>3. \A r \in Call : reply[c] = r => pc[c] = "begin" /\ Answers(r, c)'
    BY <1>5 DEF IInv, RepliesTell
  <2>4. pc[c] = "report" /\ reply[c] = "ack" => Kept(c)'
    BY <2>2 DEF IInv, RepliesTell
  <2>5. CASE c \in done /\ Awaits(c, what)
    <3>1. reply'[c] = "ack" /\ "ack" \notin Call
      BY <2>5, <1>1, SaysAssumption DEF Says
    <3>2. pc[c] = "report" => Kept(c)'
      BY <2>5, <1>2, SaysAssumption DEF Says
    <3> QED
      BY <2>1, <3>1, <3>2
  <2>6. CASE ~ (c \in done /\ Awaits(c, what)) /\ waits[c] \in done /\ pc[c] = "begin"
    <3>1. reply'[c] = says
      BY <2>6, <1>1, <1>2
    <3>2. says \in Call => what = "complete" /\ waits[c] = says
      BY <2>6, SaysAssumption DEF Says
    <3>3. ASSUME NEW r \in Call, says = r PROVE Answers(r, c)'
      <4>1. what = "complete" /\ waits[c] = r /\ r \in applied /\ Kept(r)'
        BY <3>2, <3>3
      <4>2. KeyOf(r) = KeyOf(c) /\ ask[r].print = ask[c].print
        BY <4>1, NoneAssumption DEF IInv, WaitersJoined
      <4> QED
        BY <4>1, <4>2, <1>4 DEF Answers
    <3> QED
      BY <2>1, <2>6, <3>1, <3>3
  <2>7. CASE ~ (c \in done /\ Awaits(c, what)) /\ ~ (waits[c] \in done /\ pc[c] = "begin")
    <3>1. reply'[c] = reply[c]
      BY <2>7, <1>1, <1>2
    <3> QED
      BY <3>1, <2>1, <2>3, <2>4
  <2> QED
    BY <2>5, <2>6, <2>7
<1>10. WaitersJoined'
  BY <1>1, <1>3, <1>4 DEF IInv, WaitersJoined
<1> QED
  BY <1>6, <1>7, <1>8, <1>9, <1>10 DEF IInv

\* The entries of operations that end go with them; no other entry does.
LEMMA WithoutKeeps ==
  ASSUME TypeOK, IInv, NEW gone \in SUBSET ops, store' = Without(gone), ops' = ops \ gone,
         UNCHANGED <<ask, applied, number, expired>>
  PROVE  StoreTells' /\ \A r \in applied : Kept(r) => Kept(r)'
<1>1. /\ \A r \in Call : PushedOut(r)' = PushedOut(r)
      /\ \A r : KeyOf(r)' = KeyOf(r)
  BY DEF PushedOut, Later, KeyOf
<1>2. \A k \in Key : store'[k] = IF store[k].op \in gone THEN NoEntry ELSE store[k]
  BY DEF Without
<1>3. applied \subseteq Call /\ ops \subseteq Call /\ \A c \in Call : KeyOf(c) \in Key
  BY KeyType, Types
<1>4. StoreTells'
  BY <1>1, <1>2, <1>3 DEF IInv, StoreTells, NoEntry
<1>5. ASSUME NEW r \in applied, Kept(r) PROVE Kept(r)'
  <2>1. CASE store[KeyOf(r)].op = r /\ store[KeyOf(r)].done
    <3>1. r \notin ops
      BY <2>1, <1>3, NoneAssumption DEF IInv, StoreTells
    <3>2. store'[KeyOf(r)] = store[KeyOf(r)]
      BY <3>1, <2>1, <1>2, <1>3
    <3> QED
      BY <2>1, <3>2, <1>1 DEF Kept
  <2>2. CASE ~ (store[KeyOf(r)].op = r /\ store[KeyOf(r)].done)
    BY <1>5, <2>2, <1>1, <1>3 DEF Kept
  <2> QED
    BY <2>1, <2>2
<1> QED
  BY <1>4, <1>5

\* An operation that is done is remembered, and evicts only what is pushed out.
LEMMA DoneKeeps ==
  ASSUME IInv, NEW c \in ops, c \in applied, CompleteOperation(c),
         UNCHANGED <<ask, applied, number, expired>>
  PROVE  StoreTells' /\ (\A r \in applied : Kept(r) => Kept(r)') /\ Kept(c)'
<1>t. TypeOK
  BY DEF IInv
<1>1. /\ \A r \in Call : PushedOut(r)' = PushedOut(r)
      /\ \A r : KeyOf(r)' = KeyOf(r)
  BY DEF PushedOut, Later, KeyOf
<1>2. /\ applied \subseteq Call /\ ops \subseteq Call
      /\ \A d \in Call : KeyOf(d) \in Key
      /\ store \in [Key -> Entry]
  BY <1>t, KeyType, Types DEF TypeOK
<1>3. ops' = ops \ {c}
  BY DEF CompleteOperation, Settle
<1> DEFINE k == KeyOf(c)
           st == [store EXCEPT ![k].done = TRUE]
<1>4. CASE store[k].op # c
  <2>1. store' = store
    BY <1>4 DEF CompleteOperation
  <2>2. PushedOut(c)
    BY <1>4 DEF IInv, StoreTells
  <2>3. \A j \in Key : store[j].op # c
    BY <1>4, <1>2, NoneAssumption DEF IInv, StoreTells
  <2>4. StoreTells'
    BY <1>1, <1>2, <1>3, <2>1, <2>3 DEF IInv, StoreTells
  <2> QED
    BY <1>1, <1>2, <2>1, <2>2, <2>4 DEF Kept
<1>5. CASE store[k].op = c
  <2>k. k \in Key
    BY <1>2
  <2>1. store' = Evict(st)
    BY <1>5 DEF CompleteOperation
  <2>2. st \in [Key -> Entry]
    BY <2>k, <1>2, <1>5, StoreType
  <2>e. store[k] \in [op : Call, done : BOOLEAN]
    BY <1>2, <1>5, <2>k, NoneAssumption DEF Entry, NoEntry
  <2>3. /\ st[k].op = c /\ st[k].done
        /\ \A j \in Key : st[j].op = store[j].op
        /\ \A j \in Key : j # k => st[j] = store[j]
    BY <1>2, <1>5, <2>k, <2>e
  <2> HIDE DEF st
  <2>4. \A j \in Key : st[j].op # None => KeyOf(st[j].op) = j
    BY <2>3 DEF IInv, StoreTells
  <2>5. ASSUME NEW j \in Key, store'[j] # st[j]
        PROVE  st[j].op \in Call /\ PushedOut(st[j].op) /\ store'[j] = NoEntry
    BY <1>t, <2>1, <2>2, <2>4, <2>5, EvictedIsPushedOut
  <2> HIDE DEF k
  <2>6. \A j \in Key : store'[j].op # None =>
            /\ KeyOf(store'[j].op) = j
            /\ number[store'[j].op] # 0
            /\ IF store'[j].done THEN store'[j].op \in applied \ ops'
               ELSE store'[j].op \in ops'
    <3> SUFFICES ASSUME NEW j \in Key, store'[j] = st[j], st[j].op # None
                 PROVE  /\ KeyOf(st[j].op) = j
                        /\ number[st[j].op] # 0
                        /\ IF st[j].done THEN st[j].op \in applied \ ops'
                           ELSE st[j].op \in ops'
      BY <2>5 DEF NoEntry
    <3>1. KeyOf(st[j].op) = j /\ number[st[j].op] # 0
      BY <2>3 DEF IInv, StoreTells
    <3>2. CASE j = k
      BY <3>1, <3>2, <2>3, <1>3
    <3>3. CASE j # k
      <4>1. st[j] = store[j]
        BY <3>3, <2>3
      <4>2. store[j].op # c
        BY <3>1, <4>1, <3>3 DEF k
      <4> QED
        BY <3>1, <4>1, <4>2, <1>3 DEF IInv, StoreTells
    <3> QED
      BY <3>2, <3>3
  <2>7. ASSUME NEW d \in ops' PROVE store'[KeyOf(d)].op = d \/ PushedOut(d)
    <3>1. d \in ops /\ d \in Call /\ KeyOf(d) \in Key
      BY <1>2, <1>3
    <3>2. store[KeyOf(d)].op = d \/ PushedOut(d)
      BY <3>1 DEF IInv, StoreTells
    <3> QED
      BY <3>1, <3>2, <2>3, <2>5
  <2>8. StoreTells'
    BY <1>1, <1>2, <1>3, <2>6, <2>7 DEF StoreTells
  <2>9. Kept(c)'
    BY <1>1, <1>2, <2>3, <2>5, <2>k DEF Kept, k
  <2>10. ASSUME NEW r \in applied, Kept(r) PROVE Kept(r)'
    <3>1. r \in Call /\ KeyOf(r) \in Key
      BY <1>2
    <3>2. CASE store[KeyOf(r)].op = r /\ store[KeyOf(r)].done
      <4>1. st[KeyOf(r)].op = r /\ st[KeyOf(r)].done
        BY <3>1, <3>2, <2>3
      <4> QED
        BY <3>1, <4>1, <2>5, <1>1 DEF Kept
    <3>3. CASE ~ (store[KeyOf(r)].op = r /\ store[KeyOf(r)].done)
      BY <2>10, <3>1, <3>3, <1>1 DEF Kept
    <3> QED
      BY <3>2, <3>3
  <2> QED
    BY <2>8, <2>9, <2>10
<1> QED
  BY <1>4, <1>5

\* A report of an operation that the host does not know changes nothing.
LEMMA RefuseKeeps ==
  ASSUME IInv, TypeOK', NEW c \in Call, NEW what \in {"complete", "fail"},
         Refuse(c, what),
         UNCHANGED <<pc, ask, at, answer, applied, worker, sequence, number, expired>>,
         \A v \in Worker : Sent(v)' \subseteq Sent(v) /\ OneBegin(v)'
  PROVE  IInv'
<1>t. TypeOK
  BY DEF IInv
<1>1. UNCHANGED <<store, ops, waits>> /\ Reply(c, what, "refused")
  BY DEF Refuse
<1>2. \A d \in Call : reply'[d] \in {"refused", reply[d]}
  BY <1>t, <1>1, Types DEF Reply
<1>3. MailInOrder'
  BY <1>t, <1>1, Types, SentTypes DEF IInv, MailInOrder
<1>4. CallsStarted'
  BY <1>t, <1>1, <1>2, Types DEF IInv, CallsStarted
<1>5. Numbered' /\ WaitersJoined'
  BY <1>1 DEF IInv, Numbered, WaitersJoined, KeyOf
<1>6. StoreTells'
  BY <1>t, <1>1, HostSame DEF IInv
<1>7. RepliesTell'
  BY <1>t, <1>1, <1>2, HostSame, Types, SaysAssumption DEF IInv, RepliesTell, Says
<1> QED
  BY <1>3, <1>4, <1>5, <1>6, <1>7 DEF IInv

\* The host is told of a failure.
LEMMA HostFailKeeps ==
  ASSUME IInv, TypeOK', NEW w \in Worker, HostFail(w) PROVE IInv'
<1>t. TypeOK
  BY DEF IInv
<1>c. PICK c \in Call : c = Head(mail[w]).call
  BY ReadFacts DEF HostFail
<1>1. /\ c \in Call /\ Head(mail[w]) \in Sent(w) /\ Head(mail[w]).what = "fail"
      /\ \A v \in Worker : Sent(v)' \subseteq Sent(v) /\ OneBegin(v)'
  BY <1>c, ReadFacts DEF HostFail
<1>2. pc[c] \notin {"begin", "run"}
  BY <1>1, <1>c DEF IInv, MailInOrder
<1>3. FailOperation(c) /\ UNCHANGED <<atWorkers, sequence, number, expired>>
  BY <1>c DEF HostFail
<1>4. CASE c \notin ops
  BY <1>1, <1>3, <1>4, RefuseKeeps DEF FailOperation, atWorkers
<1>5. CASE c \in ops
  <2>1. Settle({c}, "fail", "refused") /\ store' = Without({c})
    BY <1>3, <1>5 DEF FailOperation
  <2>2. StoreTells' /\ \A r \in applied : Kept(r) => Kept(r)'
    BY <1>3, <1>5, <2>1, <1>t, WithoutKeeps DEF Settle, IInv, atWorkers
  <2> QED
    BY <1>1, <1>2, <1>3, <1>5, <2>1, <2>2, EndKeeps, SaysAssumption DEF atWorkers, Says
<1> QED
  BY <1>4, <1>5

\* The host fails what a dead worker had begun.
LEMMA FailOwnerKeeps ==
  ASSUME IInv, TypeOK', NEW w \in Worker, FailOwner(w) PROVE IInv'
<1>t. TypeOK
  BY DEF IInv
<1>1. \A v \in Worker : Sent(v)' \subseteq Sent(v) /\ OneBegin(v)'
  <2>1. mail' = mail
    BY DEF FailOwner
  <2>2. \A v \in Worker : OneBegin(v)
    BY DEF IInv, MailInOrder
  <2> QED
    BY <2>1, <2>2 DEF Sent, OneBegin
<1>2. /\ worker[w] = "dead" /\ worker' = [worker EXCEPT ![w] = "failed"]
      /\ Settle(Owned(w), "fail", "refused") /\ store' = Without(Owned(w))
      /\ UNCHANGED <<pc, ask, at, answer, applied, sequence, number, expired>>
  BY DEF FailOwner
<1>3. Owned(w) \subseteq ops /\ \A d \in Owned(w) : at[d] = w
  BY DEF Owned
<1>4. \A d \in Owned(w) : pc[d] \notin {"begin", "run"}
  BY <1>t, <1>2, <1>3, Types DEF IInv, CallsStarted
<1>5. StoreTells' /\ \A r \in applied : Kept(r) => Kept(r)'
  BY <1>2, <1>3, <1>t, WithoutKeeps DEF Settle, IInv
<1>6. \A v \in Worker : worker[v] = "up" => worker'[v] = "up"
  BY <1>2, <1>t, Types
<1> QED
  BY <1>1, <1>2, <1>3, <1>4, <1>5, <1>6, EndKeeps

\* The host is told of a completion.
LEMMA HostCompleteKeeps ==
  ASSUME IInv, TypeOK', NEW w \in Worker, HostComplete(w) PROVE IInv'
<1>t. TypeOK
  BY DEF IInv
<1>c. PICK c \in Call : c = Head(mail[w]).call
  BY ReadFacts DEF HostComplete
<1>1. /\ c \in Call /\ Head(mail[w]) \in Sent(w) /\ Head(mail[w]).what = "complete"
      /\ \A v \in Worker : Sent(v)' \subseteq Sent(v) /\ OneBegin(v)'
  BY <1>c, ReadFacts DEF HostComplete
<1>2. pc[c] \notin {"begin", "run"} /\ c \in applied
  BY <1>1, <1>c DEF IInv, MailInOrder
<1>3. /\ CompleteOperation(c)
      /\ UNCHANGED <<pc, ask, at, answer, applied, worker, sequence, number, expired>>
  BY <1>c DEF HostComplete, atWorkers
<1>4. CASE c \notin ops
  BY <1>1, <1>3, <1>4, RefuseKeeps DEF CompleteOperation
<1>5. CASE c \in ops
  <2>1. Settle({c}, "complete", c)
    BY <1>3, <1>5 DEF CompleteOperation
  <2>2. StoreTells' /\ (\A r \in applied : Kept(r) => Kept(r)') /\ Kept(c)'
    BY <1>2, <1>3, <1>5, DoneKeeps
  <2>3. {c} \in SUBSET ops /\ \A d \in {c} : pc[d] \notin {"begin", "run"}
    BY <1>2, <1>5
  <2>4. \A r \in Call : r = c => {c} = {r} /\ r \in applied /\ Kept(r)'
    BY <1>2, <2>2
  <2>5. \A v \in Worker : worker[v] = "up" => worker'[v] = "up"
    BY <1>3
  <2> QED
    BY <1>1, <1>3, <2>1, <2>2, <2>3, <2>4, <2>5, EndKeeps
<1> QED
  BY <1>4, <1>5

\* The host starts, joins or answers a call by the entry of its key.
LEMMA HostBeginKeeps ==
  ASSUME IInv, TypeOK', NEW w \in Worker, HostBegin(w) PROVE IInv'
<1>t. TypeOK
  BY DEF IInv
<1>c. PICK c \in Call : c = Head(mail[w]).call
  BY ReadFacts DEF HostBegin
<1>1. /\ c \in Call /\ Head(mail[w]) \in Sent(w) /\ Head(mail[w]).what = "begin"
      /\ \A v \in Worker : Sent(v)' \subseteq Sent(v) /\ OneBegin(v)'
      /\ \A v \in Worker : \A m \in Sent(v)' : m.what = "begin" => m.call # c
  BY <1>c, ReadFacts DEF HostBegin
<1>2. number[c] = 0 /\ waits[c] = None
  BY <1>1, <1>c DEF IInv, MailInOrder
<1>3. UNCHANGED <<atWorkers, expired>>
  BY DEF HostBegin
<1>4. c \notin ops \cup applied \cup expired
  BY <1>2 DEF IInv, Numbered
<1>5. pc[c] \notin {"run", "report"}
  BY <1>1, <1>4 DEF IInv, CallsStarted
<1>6. Awaits(c, "begin") <=> pc[c] = "begin"
  BY DEF Awaits
<1>7. CASE Found(KeyOf(c)) = NoEntry
  <2>1. StartOperation(c)
    BY <1>c, <1>7 DEF HostBegin
  <2>2. /\ ops' = ops \cup {c} /\ waits' = waits
        /\ sequence' = sequence + 1 /\ number' = [number EXCEPT ![c] = sequence + 1]
        /\ reply' = IF pc[c] = "begin" THEN [reply EXCEPT ![c] = "started"] ELSE reply
    BY <2>1, <1>6 DEF StartOperation, Reply
  <2>3. /\ number' \in [Call -> Nat]
        /\ \A d \in Call : d # c => number'[d] = number[d]
        /\ number'[c] = sequence + 1
        /\ \A d \in Call : number'[d] >= number[d] /\ number'[d] <= sequence + 1
    BY <1>t, <1>1, <2>2, Types DEF IInv, Numbered
  <2>4. \A d \in Call : d # c /\ PushedOut(d) => PushedOut(d)'
    BY <1>3, <1>t, <2>3, Types, PushedOutStays DEF atWorkers
  <2>5. \A d : KeyOf(d)' = KeyOf(d)
    BY <1>3 DEF KeyOf, atWorkers
  <2>k. KeyOf(c) \in Key /\ (\A d \in Call : KeyOf(d) \in Key)
    BY <1>1, <1>t, KeyType
  <2>6. /\ store' = [store EXCEPT ![KeyOf(c)] = [op |-> c, done |-> FALSE]]
        /\ store \in [Key -> Entry]
    BY <2>1, <1>t DEF StartOperation, TypeOK
  <2>7. /\ store'[KeyOf(c)].op = c /\ store'[KeyOf(c)].done = FALSE
        /\ \A k \in Key : k # KeyOf(c) => store'[k] = store[k]
    BY <2>6, <2>k
  <2>8. store[KeyOf(c)].op \in expired \/ store[KeyOf(c)].op = None
    BY <1>7 DEF Found, NoEntry
  <2>9. \A r \in applied : Kept(r) => Kept(r)'
    BY <1>3, <1>4, <1>t, <2>4, <2>5, <2>7, <2>8, <2>k, NoneAssumption, Types
       DEF Kept, atWorkers
  <2>10. \A r, d \in Call : Answers(r, d) => Answers(r, d)'
    BY <2>5, <2>9, <1>3 DEF Answers, atWorkers
  <2>11. MailInOrder'
    <3> SUFFICES ASSUME NEW v \in Worker, NEW m \in Sent(v)'
                 PROVE  /\ at[m.call] = v
                        /\ m.what = "begin" => number'[m.call] = 0 /\ waits[m.call] = None
                        /\ m.what # "begin" => pc[m.call] \notin {"new", "begin", "run"}
                        /\ m.what = "complete" => m.call \in applied
      BY <1>1, <1>3, <2>2 DEF MailInOrder, atWorkers
    <3>1. m \in Sent(v) /\ m.call \in Call
      BY <1>1, <1>t, SentTypes
    <3>2. m.what = "begin" => number'[m.call] = number[m.call]
      BY <1>1, <2>3, <3>1
    <3> QED
      BY <3>1, <3>2 DEF IInv, MailInOrder
  <2>12. CallsStarted'
    <3>1. at[c] # None /\ pc[c] # "new"
      BY <1>1, <1>c, NoneAssumption DEF IInv, MailInOrder, CallsStarted
    <3>2. \A d \in Call : /\ d # c => reply'[d] = reply[d]
                          /\ reply'[c] = "started" => pc[c] = "begin"
      BY <1>t, <1>5, <2>2, Types DEF IInv, CallsStarted
    <3>3. \A d \in Call : waits[d] # None => d # c
      BY <1>2
    <3> QED
      BY <3>1, <3>2, <3>3, <1>3, <1>5, <2>2, <2>3 DEF IInv, CallsStarted, atWorkers
  <2>13. Numbered'
    BY <1>t, <1>1, <1>3, <1>4, <2>2, <2>3, Types DEF IInv, Numbered, atWorkers
  <2>14. StoreTells'
    <3>1. \A k \in Key : store'[k].op # None =>
            /\ KeyOf(store'[k].op) = k
            /\ number'[store'[k].op] # 0
            /\ IF store'[k].done THEN store'[k].op \in applied \ ops' ELSE store'[k].op \in ops'
      <4> SUFFICES ASSUME NEW k \in Key, k # KeyOf(c), store[k].op # None
                   PROVE  /\ KeyOf(store[k].op) = k
                          /\ number'[store[k].op] # 0
                          /\ IF store[k].done THEN store[k].op \in applied \ ops'
                             ELSE store[k].op \in ops'
        BY <1>t, <2>2, <2>3, <2>7, Types
      <4>1. store[k].op \in Call /\ store[k].op # c
        BY <2>6, <1>2 DEF Entry, NoEntry, IInv, StoreTells
      <4> QED
        BY <4>1, <2>2, <2>3 DEF IInv, StoreTells
    <3>2. ASSUME NEW d \in ops' PROVE store'[KeyOf(d)].op = d \/ PushedOut(d)'
      <4>1. CASE d = c
        BY <4>1, <2>7
      <4>2. CASE d # c
        <5>1. d \in ops /\ d \in Call
          BY <4>2, <2>2, <1>t, Types
        <5>2. store[KeyOf(d)].op = d \/ PushedOut(d)
          BY <5>1 DEF IInv, StoreTells
        <5>3. KeyOf(d) = KeyOf(c) => store[KeyOf(d)].op # d
          BY <5>1, <2>8, NoneAssumption DEF IInv, Numbered
        <5> QED
          BY <4>2, <5>1, <5>2, <5>3, <2>4, <2>7, <2>k
      <4> QED
        BY <4>1, <4>2
    <3> QED
      BY <3>1, <3>2, <2>5, <1>3 DEF StoreTells, atWorkers
  <2>15. RepliesTell'
    <3>1. \A d \in Call : pc[d] = "report" => d \in applied
      BY DEF IInv, CallsStarted
    <3>2. \A d \in Call : reply'[d] \in {"started", reply[d]}
      BY <2>2, <1>t, Types
    <3>3. "started" \notin Call
      BY SaysAssumption DEF Says
    <3> QED
      BY <3>1, <3>2, <3>3, <2>9, <2>10, <1>3 DEF IInv, RepliesTell, atWorkers
  <2>16. WaitersJoined'
    BY <2>2, <2>5, <1>3 DEF IInv, WaitersJoined, atWorkers
  <2> QED
    BY <2>11, <2>12, <2>13, <2>14, <2>15, <2>16 DEF IInv
<1>8. CASE Found(KeyOf(c)) # NoEntry
  <2>1. Join(c) /\ UNCHANGED <<store, ops, sequence, number>>
    BY <1>c, <1>8 DEF HostBegin
  <2>k. PICK k \in Key : k = KeyOf(c)
    BY <1>1, <1>t, KeyType
  <2>o. PICK op : op = store[k].op
    OBVIOUS
  <2>2. Found(k) = store[k] /\ op \notin expired /\ op # None /\ op \in Call
    <3>1. store[k].op \notin expired /\ store[k] # NoEntry
      BY <1>8, <2>k DEF Found
    <3>2. store[k] \in [op : Call, done : BOOLEAN]
      BY <1>t, <3>1 DEF Entry, TypeOK
    <3> QED
      BY <2>o, <3>1, <3>2, NoneAssumption DEF Found
  <2>3. KeyOf(op) = k /\ (IF store[k].done THEN op \in applied ELSE op \in ops)
    BY <2>2, <2>o DEF IInv, StoreTells
  <2>4. \/ Reply(c, "begin", "refused") /\ waits' = waits
        \/ /\ ask[op].print = ask[c].print /\ store[k].done
           /\ Reply(c, "begin", op) /\ waits' = waits
        \/ /\ ask[op].print = ask[c].print /\ ~ store[k].done
           /\ waits' = [waits EXCEPT ![c] = op] /\ reply' = reply
    BY <2>1, <2>2, <2>k, <2>o DEF Join
  <2>5. /\ \A d \in Call : d # c => reply'[d] = reply[d] /\ waits'[d] = waits[d]
        /\ \/ reply'[c] = reply[c]
           \/ reply'[c] = "refused"
           \/ pc[c] = "begin" /\ reply'[c] = op /\ Answers(op, c)
        /\ \/ waits'[c] = None
           \/ /\ waits'[c] = op /\ op \in ops /\ KeyOf(op) = KeyOf(c)
              /\ ask[op].print = ask[c].print
    <3>1. store[k].done => Kept(op)
      BY <2>3, <2>o DEF Kept
    <3>2. store[k].done /\ ask[op].print = ask[c].print => Answers(op, c)
      BY <2>3, <2>k, <3>1 DEF Answers
    <3>3. /\ reply \in [Call -> Says \cup Call \cup {None}]
          /\ waits \in [Call -> Call \cup {None}] /\ waits[c] = None /\ c \in Call
          /\ KeyOf(op) = KeyOf(c)
      BY <1>2, <1>t, <2>3, <2>k, Types
    <3>4. CASE Reply(c, "begin", "refused") /\ waits' = waits
      BY <3>3, <3>4 DEF Reply
    <3>5. CASE /\ ask[op].print = ask[c].print /\ store[k].done
               /\ Reply(c, "begin", op) /\ waits' = waits
      BY <3>2, <3>3, <3>5, <1>6 DEF Reply
    <3>6. CASE /\ ask[op].print = ask[c].print /\ ~ store[k].done
               /\ waits' = [waits EXCEPT ![c] = op] /\ reply' = reply
      BY <2>3, <3>3, <3>6
    <3> QED
      BY <2>4, <3>4, <3>5, <3>6
  <2>6. MailInOrder'
    BY <1>t, <1>1, <1>3, <2>1, <2>5, Types, SentTypes DEF IInv, MailInOrder, atWorkers
  <2>7. CallsStarted'
    <3>1. \A d \in Call : reply'[d] = "started" => reply[d] = "started"
      <4>1. "started" \notin Call
        BY SaysAssumption DEF Says
      <4> QED
        BY <2>2, <2>5, <4>1
    <3>2. pc[c] # "new" /\ \A d \in Call : waits'[d] # None => number[d] = 0 /\ pc[d] # "new"
      <4>1. at[c] # None /\ pc[c] # "new"
        BY <1>1, <1>c, NoneAssumption DEF IInv, MailInOrder, CallsStarted
      <4>2. \A d \in Call : waits[d] # None => number[d] = 0 /\ pc[d] # "new"
        BY DEF IInv, CallsStarted
      <4> QED
        BY <4>1, <4>2, <2>5, <1>2
    <3> QED
      BY <3>1, <3>2, <2>1, <1>3, <1>t, Types DEF IInv, CallsStarted, atWorkers
  <2>8. Numbered'
    BY <1>3, <2>1 DEF IInv, Numbered, atWorkers
  <2>9. StoreTells'
    BY <1>t, <1>3, <2>1, HostSame DEF IInv, atWorkers
  <2>10. RepliesTell'
    <3>1. \A r \in Call : Kept(r) => Kept(r)'
      BY <1>t, <1>3, <2>1, HostSame DEF atWorkers
    <3>2. \A r, d \in Call : Answers(r, d) => Answers(r, d)'
      BY <1>t, <1>3, <2>1, HostSame DEF atWorkers
    <3>3. ASSUME NEW d \in Call
          PROVE  /\ \A r \in Call : reply'[d] = r => pc[d] = "begin" /\ Answers(r, d)
                 /\ pc[d] = "report" /\ reply'[d] = "ack" => Kept(d)
      BY <2>2, <2>5, <1>1, <1>5, SaysAssumption DEF IInv, RepliesTell, Says
    <3> QED
      BY <3>1, <3>2, <3>3, <1>3 DEF IInv, RepliesTell, atWorkers
  <2>11. WaitersJoined'
    BY <1>1, <1>3, <2>1, <2>5 DEF IInv, WaitersJoined, atWorkers, KeyOf
  <2> QED
    BY <2>6, <2>7, <2>8, <2>9, <2>10, <2>11 DEF IInv
<1> QED
  BY <1>7, <1>8

\* A worker dies with its calls.
LEMMA DieKeeps ==
  ASSUME IInv, TypeOK', NEW w \in Worker, Die(w) PROVE IInv'
<1>t. TypeOK
  BY DEF IInv
<1>1. /\ \A v \in Worker : Sent(v)' = Sent(v) /\ OneBegin(v)' = OneBegin(v)
      /\ UNCHANGED <<ask, at, answer, applied, atHost>>
      /\ worker' = [worker EXCEPT ![w] = "dead"]
  BY DEF Die, Sent, OneBegin
<1>2. \A c \in Call :
        /\ pc'[c] = IF pc[c] \notin {"new", "ok", "error"} /\ at[c] = w
                    THEN "lost" ELSE pc[c]
        /\ reply'[c] = IF at[c] = w THEN None ELSE reply[c]
  BY DEF Die
<1>3. MailInOrder'
  BY <1>t, <1>1, <1>2, Types, SentTypes DEF IInv, MailInOrder, atHost
<1>4. CallsStarted'
  BY <1>t, <1>1, <1>2, Types, NoneAssumption DEF IInv, CallsStarted, atHost, Says
<1>5. Numbered' /\ WaitersJoined'
  BY <1>1 DEF IInv, Numbered, WaitersJoined, atHost, KeyOf
<1>6. StoreTells'
  BY <1>t, <1>1, HostSame DEF IInv, atHost
<1>7. RepliesTell'
  BY <1>t, <1>1, <1>2, HostSame, Types, NoneAssumption
     DEF IInv, RepliesTell, atHost, Says
<1> QED
  BY <1>3, <1>4, <1>5, <1>6, <1>7 DEF IInv

\* An entry expires.
LEMMA ExpireKeeps == ASSUME IInv, TypeOK', Expire PROVE IInv'
<1>t. TypeOK
  BY DEF IInv
<1>1. PICK k \in Key : store[k].done /\ expired' = expired \cup {store[k].op}
  BY DEF Expire
<1>2. /\ \A v \in Worker : Sent(v)' = Sent(v) /\ OneBegin(v)' = OneBegin(v)
      /\ UNCHANGED <<atWorkers, reply, store, ops, sequence, number, waits>>
  BY DEF Expire, Sent, OneBegin
<1>3. store[k].op # None
  <2>1. store[k] \in [op : Call, done : BOOLEAN] \/ store[k] = NoEntry
    BY <1>t DEF TypeOK, Entry
  <2>2. store[k] # NoEntry
    BY <1>1 DEF NoEntry
  <2> QED
    BY <2>1, <2>2, NoneAssumption
<1>4. store[k].op \in applied \ ops
  BY <1>1, <1>3 DEF IInv, StoreTells
<1>5. /\ \A r \in Call : PushedOut(r)' = PushedOut(r)
      /\ \A r : KeyOf(r)' = KeyOf(r)
  BY <1>2 DEF PushedOut, Later, KeyOf, atWorkers
<1>6. \A r \in Call : Kept(r) => Kept(r)'
  BY <1>1, <1>2, <1>5 DEF Kept
<1>7. \A r, c \in Call : Answers(r, c) => Answers(r, c)'
  BY <1>2, <1>5, <1>6 DEF Answers, atWorkers
<1>8. MailInOrder'
  BY <1>2 DEF IInv, MailInOrder, atWorkers
<1>9. CallsStarted'
  BY <1>2 DEF IInv, CallsStarted, atWorkers
<1>10. Numbered'
  BY <1>1, <1>2, <1>4 DEF IInv, Numbered, atWorkers
<1>11. StoreTells'
  BY <1>2, <1>5, <1>t, Types DEF IInv, StoreTells, atWorkers
<1>12. RepliesTell'
  BY <1>2, <1>6, <1>7 DEF IInv, RepliesTell, atWorkers
<1>13. WaitersJoined'
  BY <1>2, <1>5 DEF IInv, WaitersJoined, atWorkers
<1> QED
  BY <1>8, <1>9, <1>10, <1>11, <1>12, <1>13 DEF IInv

\* Steps that touch nothing the invariant speaks of.
LEMMA GateKeeps ==
  ASSUME IInv, TypeOK', UNCHANGED <<atWorkers, mail, reply, atHost>> PROVE IInv'
<1>t. TypeOK
  BY DEF IInv
<1>1. \A v \in Worker : Sent(v)' = Sent(v) /\ OneBegin(v)' = OneBegin(v)
  BY DEF Sent, OneBegin
<1>2. MailInOrder' /\ CallsStarted' /\ Numbered' /\ WaitersJoined'
  BY <1>1 DEF IInv, MailInOrder, CallsStarted, Numbered, WaitersJoined, atWorkers,
              atHost, KeyOf
<1>3. StoreTells' /\ RepliesTell'
  BY <1>t, HostSame DEF IInv, RepliesTell, atWorkers, atHost
<1> QED
  BY <1>2, <1>3 DEF IInv
-----------------------------------------------------------------------------
(* The invariant                                                            *)

\* All steps together.
LEMMA StepKeeps == ASSUME IInv, TypeOK', [Next]_vars PROVE IInv'
<1>1. ASSUME NEW c \in Call, Begin(c) \/ Proceed(c) \/ BeginTimesOut(c) PROVE IInv'
  BY <1>1, BeginKeeps, BeganKeeps, OperateKeeps, OperationFailsKeeps, CompletedKeeps,
     NotCompletedKeeps, FailedKeeps, BeginTimesOutKeeps DEF Proceed
<1>2. ASSUME NEW w \in Worker, HostReads(w) \/ FailOwner(w) \/ Die(w) PROVE IInv'
  BY <1>2, HostBeginKeeps, HostCompleteKeeps, HostFailKeeps, FailOwnerKeeps, DieKeeps
     DEF HostReads
<1>3. CASE Expire
  BY <1>3, ExpireKeeps
<1>4. CASE TakeGate \/ LeaveGate
  BY <1>4, GateKeeps DEF TakeGate, LeaveGate
<1>5. CASE UNCHANGED vars
  BY <1>5, GateKeeps DEF vars
<1> QED
  BY <1>1, <1>2, <1>3, <1>4, <1>5 DEF Next

\* What the messages, the entries and the promises tell of the calls stays true,
\* with whatever faults.
THEOREM Inductive == Spec => []IInv
<1>1. Init => TypeOK
  BY InitType
<1>2. Init /\ TypeOK => IInv
  <2> SUFFICES ASSUME Init, TypeOK PROVE IInv
    OBVIOUS
  <2>1. \A w \in Worker : Sent(w) = {} /\ OneBegin(w)
    BY DEF Init, Sent, OneBegin
  <2>2. MailInOrder
    BY <2>1 DEF MailInOrder
  <2>3. CallsStarted /\ RepliesTell
    BY NoneAssumption DEF Init, CallsStarted, RepliesTell, Says
  <2>4. Numbered /\ StoreTells /\ WaitersJoined
    BY DEF Init, Numbered, StoreTells, WaitersJoined, NoEntry
  <2> QED
    BY <2>2, <2>3, <2>4 DEF IInv
<1>3. IInv /\ TypeOK' /\ [Next]_vars => IInv'
  BY StepKeeps
<1> QED
  BY <1>1, <1>2, <1>3, TypeCorrect, PTL DEF Spec

\* Of two calls with one key, one at a time runs its operation, on whatever
\* workers they are, until the key was pushed out of the store: the key is taken
\* in HostIdempotencyCoordinator.begin and given back by the report.
THEOREM OneRunner == Spec => []SingleRunner
<1>1. IInv => SingleRunner
  BY DEF IInv, CallsStarted, StoreTells, SingleRunner
<1> QED
  BY <1>1, Inductive, PTL

\* A caller is told of an operation that took effect under its key and with its
\* parameters, whoever ran it and whatever was reported when.
THEOREM TrueAnswers == Spec => []AnswersTrue
<1>1. IInv => AnswersTrue
  BY DEF IInv, RepliesTell, Answers, AnswersTrue
<1> QED
  BY <1>1, Inductive, PTL

\* What a caller was told had succeeded is not started again for its key while
\* it is remembered: a late failure or a dead worker does not make the host
\* forget a completed operation.
THEOREM NotRepeated == Spec => DoneOnce
<1> DEFINE Once ==
      \A c, d \in Call :
        c \in ops' \ ops /\ pc[d] = "ok" /\ KeyOf(d) = KeyOf(c)
          => answer[d] \in expired \/ PushedOut(answer[d])
<1>1. IInv /\ [Next]_vars => Once
  <2> SUFFICES ASSUME IInv, [Next]_vars, NEW c \in Call, NEW d \in Call,
                      c \in ops', c \notin ops, pc[d] = "ok", KeyOf(d) = KeyOf(c)
               PROVE  answer[d] \in expired \/ PushedOut(answer[d])
    OBVIOUS
  <2>1. Answers(answer[d], d)
    BY DEF IInv, RepliesTell
  <2>2. PICK w \in Worker : HostBegin(w)
    <3>1. ASSUME NEW e \in Call PROVE ~ (Begin(e) \/ Proceed(e) \/ BeginTimesOut(e))
      BY DEF Begin, Proceed, Began, Operate, OperationFails, Completed, NotCompleted,
             Failed, BeginTimesOut, atHost
    <3>2. ASSUME NEW w \in Worker PROVE ~ (HostComplete(w) \/ HostFail(w) \/ FailOwner(w))
      BY DEF HostComplete, CompleteOperation, HostFail, FailOperation, FailOwner, Settle,
             Refuse
    <3>3. ASSUME NEW w \in Worker PROVE ~ Die(w)
      BY DEF Die, atHost
    <3>4. ~ (Expire \/ TakeGate \/ LeaveGate \/ UNCHANGED vars)
      BY DEF Expire, TakeGate, LeaveGate, atHost, vars
    <3> QED
      BY <3>1, <3>2, <3>3, <3>4 DEF Next, HostReads
  <2>3. PICK e : e = Head(mail[w]).call
    OBVIOUS
  <2>4. Found(KeyOf(e)) = NoEntry /\ c = e
    BY <2>2, <2>3 DEF HostBegin, StartOperation
  <2>5. store[KeyOf(d)].op \in expired \/ store[KeyOf(d)] = NoEntry
    BY <2>4 DEF Found
  <2> QED
    BY <2>1, <2>5 DEF Answers, Kept, NoEntry
<1>2. IInv /\ [Next]_vars => [Once]_vars
  BY <1>1
<1> QED
  BY <1>2, Inductive, PTL DEF Spec, DoneOnce

-----------------------------------------------------------------------------
(* What is taken is given back                                              *)

\* Somebody has the operation: its call, a report on its way, or a dead worker.
Held(c) ==
  \/ worker[at[c]] = "dead"
  \/ pc[c] = "begin" /\ reply[c] = "started"
  \/ pc[c] = "run"
  \/ \E m \in Sent(at[c]) : m.what # "begin" /\ m.call = c

\* A worker whose death the host knows has left no message; a begin that is on
\* its way has somebody who waits for the answer.
HInv ==
  /\ \A w \in Worker :
       /\ worker[w] = "failed" => Sent(w) = {}
       /\ \A m \in Sent(w) :
            m.what = "begin" /\ worker[w] = "up" =>
              pc[m.call] = "begin" /\ reply[m.call] = None
  /\ \A c \in ops : Held(c)

\* Empty mail holds no message.
LEMMA NothingSent == ASSUME NEW w, mail[w] = <<>> PROVE Sent(w) = {}
<1> DEFINE s == mail[w]
<1>1. Sent(w) = {s[i] : i \in DOMAIN s}
  BY DEF Sent
<1>2. s = <<>>
  OBVIOUS
<1> HIDE DEF s
<1>3. {s[i] : i \in DOMAIN s} = {}
  BY <1>2
<1> QED
  BY <1>1, <1>3

\* What HInv speaks of, after a message was sent.
LEMMA SentMore ==
  ASSUME IInv, HInv, NEW c \in Call, NEW w \in Worker, worker[w] = "up",
         NEW what \in {"begin", "complete", "fail"}, Send(c, what, w),
         pc' = [pc EXCEPT ![c] = IF what = "begin" THEN "begin" ELSE pc'[c]],
         c \in ops => what # "begin" /\ at[c] = w,
         \A d \in Call : d # c => at'[d] = at[d],
         c \in ops => at'[c] = at[c],
         \A v \in Worker : \A m \in Sent(v) : m.what = "begin" => m.call # c,
         UNCHANGED <<worker, ops>>
  PROVE  HInv'
<1> DEFINE m == [what |-> what, call |-> c]
<1>t. TypeOK
  BY DEF IInv
<1>1. m \in Message /\ m.what = what /\ m.call = c
      /\ mail' = [mail EXCEPT ![w] = Append(@, m)]
  BY DEF Message, Send
<1> HIDE DEF m
<1>2. \A v \in Worker : Sent(v)' = IF v = w THEN Sent(v) \cup {m} ELSE Sent(v)
  BY <1>t, <1>1, SendMail
<1>3. \A d \in Call : d # c => pc'[d] = pc[d] /\ reply'[d] = reply[d]
  BY <1>t, Types DEF Send
<1>4. what = "begin" => pc'[c] = "begin" /\ reply'[c] = None
  BY <1>t, Types DEF Send
<1>5. ASSUME NEW v \in Worker
      PROVE  /\ worker'[v] = "failed" => Sent(v)' = {}
             /\ \A n \in Sent(v)' :
                  n.what = "begin" /\ worker'[v] = "up" =>
                    pc'[n.call] = "begin" /\ reply'[n.call] = None
  BY <1>t, <1>1, <1>2, <1>3, <1>4, SentTypes DEF HInv
<1>6. ASSUME NEW d \in ops PROVE Held(d)'
  <2>1. d \in Call /\ Held(d) /\ at'[d] = at[d]
    BY <1>t, Types DEF HInv
  <2>2. CASE d = c
    BY <1>1, <1>2, <2>1, <2>2 DEF Held
  <2>3. CASE d # c
    <3>1. \A v \in Worker : Sent(v) \subseteq Sent(v)'
      BY <1>2
    <3>2. at[d] \in Worker
      BY <2>1, <1>t, Types DEF IInv, CallsStarted, Numbered
    <3> QED
      BY <1>3, <2>1, <2>3, <3>1, <3>2 DEF Held
  <2> QED
    BY <2>2, <2>3
<1> QED
  BY <1>5, <1>6 DEF HInv

\* After a step of one call that sends nothing.
LEMMA SentNothing ==
  ASSUME IInv, HInv, NEW c \in Call,
         \A d \in Call : d # c => pc'[d] = pc[d] /\ reply'[d] = reply[d],
         \A v \in Worker : \A m \in Sent(v) :
           m.what = "begin" /\ worker[v] = "up" => m.call # c,
         c \in ops => Held(c)',
         UNCHANGED <<mail, at, worker, ops>>
  PROVE  HInv'
<1>t. TypeOK
  BY DEF IInv
<1>1. \A v \in Worker : Sent(v)' = Sent(v)
  BY DEF Sent
<1>2. ASSUME NEW v \in Worker
      PROVE  /\ worker'[v] = "failed" => Sent(v)' = {}
             /\ \A n \in Sent(v)' :
                  n.what = "begin" /\ worker'[v] = "up" =>
                    pc'[n.call] = "begin" /\ reply'[n.call] = None
  BY <1>t, <1>1, SentTypes DEF HInv
<1>3. ASSUME NEW d \in ops, d # c PROVE Held(d)'
  <2>1. d \in Call /\ Held(d) /\ Sent(at[d])' = Sent(at[d])
    BY <1>t, Types DEF HInv, Sent
  <2> QED
    BY <1>3, <2>1 DEF Held
<1> QED
  BY <1>2, <1>3 DEF HInv

\* After the host settled the promises of some operations.
LEMMA Settled ==
  ASSUME IInv, HInv, NEW done \in SUBSET ops, NEW what \in {"complete", "fail"}, NEW says,
         Settle(done, what, says), UNCHANGED <<pc, at>>,
         \A v \in Worker : Sent(v)' \subseteq Sent(v),
         \A v \in Worker : \A m \in Sent(v) :
           m.what # "begin" /\ m.call \in ops' => m \in Sent(v)',
         \A v \in Worker :
           /\ worker'[v] = "up" => worker[v] = "up"
           /\ worker'[v] = "failed" => Sent(v)' = {},
         \A d \in ops' : worker[at[d]] = "dead" => worker'[at[d]] = "dead"
  PROVE  HInv'
<1>t. TypeOK
  BY DEF IInv
<1>1. \A c \in Call : c \notin done /\ waits[c] = None => reply'[c] = reply[c]
  BY <1>t, NoneAssumption, Types DEF Settle
<1>2. ASSUME NEW v \in Worker, NEW m \in Sent(v)', m.what = "begin", worker'[v] = "up"
      PROVE  pc'[m.call] = "begin" /\ reply'[m.call] = None
  <2>1. m \in Sent(v) /\ m.call \in Call /\ worker[v] = "up"
    BY <1>2, <1>t, SentTypes
  <2>2. pc[m.call] = "begin" /\ reply[m.call] = None
    BY <1>2, <2>1 DEF HInv
  <2>3. waits[m.call] = None /\ m.call \notin ops
    BY <1>2, <2>1 DEF IInv, MailInOrder, Numbered
  <2> QED
    BY <1>1, <2>1, <2>2, <2>3
<1>3. ASSUME NEW d \in ops' PROVE Held(d)'
  <2>1. d \in ops /\ d \notin done /\ d \in Call
    BY <1>t, <1>3, Types DEF Settle
  <2>2. waits[d] = None /\ at[d] \in Worker
    BY <2>1, <1>t, Types DEF IInv, CallsStarted, Numbered
  <2>3. reply'[d] = reply[d] /\ Held(d)
    BY <1>1, <2>1, <2>2 DEF HInv
  <2>4. (\E m \in Sent(at[d]) : m.what # "begin" /\ m.call = d) =>
           \E m \in Sent(at[d])' : m.what # "begin" /\ m.call = d
    BY <1>3, <2>2
  <2> QED
    BY <2>3, <2>4 DEF Held
<1> QED
  BY <1>2, <1>3 DEF HInv

\* A worker's call goes on.
LEMMA ProceedHolds ==
  ASSUME IInv, HInv, TypeOK', NEW c \in Call, Begin(c) \/ Proceed(c) \/ BeginTimesOut(c),
         "slow begin" \notin Fault
  PROVE  HInv'
<1>t. TypeOK
  BY DEF IInv
<1>1. c \in ops => number[c] # 0 /\ pc[c] # "new" /\ waits[c] = None /\ at[c] \in Worker
  BY <1>t, Types DEF IInv, CallsStarted, Numbered
<1>2. number[c] # 0 => \A v \in Worker : \A m \in Sent(v) : m.what = "begin" => m.call # c
  BY DEF IInv, MailInOrder
<1>3. ASSUME Begin(c) PROVE HInv'
  <2>1. PICK w \in Worker : worker[w] = "up" /\ at' = [at EXCEPT ![c] = w] /\ Send(c, "begin", w)
    BY <1>3 DEF Begin
  <2>2. /\ pc[c] = "new" /\ pc' = [pc EXCEPT ![c] = "begin"] /\ UNCHANGED <<worker, ops>>
        /\ at[c] = None
    BY <1>3 DEF Begin, Go, atHost, IInv, CallsStarted
  <2>3. \A v \in Worker : \A m \in Sent(v) : m.call # c
    BY <2>2, NoneAssumption DEF IInv, MailInOrder
  <2>4. \A d \in Call : d # c => at'[d] = at[d]
    BY <2>1, <1>t, Types
  <2> QED
    BY <1>1, <2>1, <2>2, <2>3, <2>4, SentMore
<1>4. ASSUME NEW what \in {"complete", "fail"}, Send(c, what, at[c]), pc[c] \in {"run", "report"},
             pc' = [pc EXCEPT ![c] = pc'[c]], UNCHANGED <<worker, ops, at>>
      PROVE  HInv'
  <2>1. at[c] \in Worker /\ worker[at[c]] = "up"
    BY <1>4 DEF IInv, CallsStarted
  <2>2. number[c] # 0
    BY <1>4 DEF IInv, CallsStarted, Numbered
  <2>3. PICK w \in Worker : w = at[c]
    BY <2>1
  <2> QED
    BY <1>2, <1>4, <2>1, <2>2, <2>3, SentMore
<1>5. ASSUME Operate(c) \/ OperationFails(c) \/ NotCompleted(c) PROVE HInv'
  <2>1. \E what \in {"complete", "fail"} : Send(c, what, at[c])
    BY <1>5 DEF Operate, OperationFails, NotCompleted
  <2>2. pc[c] \in {"run", "report"} /\ pc' = [pc EXCEPT ![c] = pc'[c]]
    BY <1>5, <1>t, Types DEF Operate, OperationFails, NotCompleted, Go
  <2>3. UNCHANGED <<worker, ops, at>>
    BY <1>5 DEF Operate, OperationFails, NotCompleted, atHost
  <2> QED
    BY <1>4, <2>1, <2>2, <2>3
<1>6. ASSUME Began(c) \/ Completed(c) \/ Failed(c) \/ BeginTimesOut(c) PROVE HInv'
  <2>1. /\ \A d \in Call : d # c => pc'[d] = pc[d] /\ reply'[d] = reply[d]
        /\ UNCHANGED <<mail, at, worker, ops>>
    BY <1>6, <1>t, Types DEF Began, Completed, Failed, BeginTimesOut, Go, Hears, atHost
  <2>2. pc[c] \in {"report", "abort"} \/ reply[c] # None \/ waits[c] # None
    BY <1>6 DEF Began, Completed, Failed, BeginTimesOut
  <2>3. \A v \in Worker : \A m \in Sent(v) :
          m.what = "begin" /\ worker[v] = "up" => m.call # c
    <3> SUFFICES ASSUME NEW v \in Worker, NEW m \in Sent(v), m.what = "begin",
                        worker[v] = "up", m.call = c
                 PROVE  FALSE
      OBVIOUS
    <3>1. pc[c] = "begin" /\ reply[c] = None
      BY DEF HInv
    <3>2. waits[c] = None
      BY DEF IInv, MailInOrder
    <3> QED
      BY <2>2, <3>1, <3>2
  <2>4. Sent(at[c])' = Sent(at[c]) /\ at'[c] = at[c] /\ worker' = worker
    BY <2>1 DEF Sent
  <2>5. ASSUME c \in ops PROVE Held(c)'
    <3>1. Held(c) /\ at[c] \in Worker
      BY <2>5, <1>1 DEF HInv
    <3>2. CASE pc[c] = "begin"
      <4>1. /\ worker[at[c]] = "up"
            /\ \A m \in Sent(at[c]) : m.what # "begin" => m.call # c
        <5>1. worker[at[c]] = "up"
          BY <3>2 DEF IInv, CallsStarted
        <5>2. \A v \in Worker : \A m \in Sent(v) : m.what # "begin" => m.call # c
          <6> SUFFICES ASSUME NEW v \in Worker, NEW m \in Sent(v), m.what # "begin",
                              m.call = c
                       PROVE  FALSE
            OBVIOUS
          <6>1. pc[m.call] # "begin"
            BY DEF IInv, MailInOrder
          <6> QED
            BY <3>2, <6>1
        <5> QED
          BY <3>1, <5>1, <5>2
      <4>2. reply[c] = "started" /\ Began(c)
        BY <1>6, <1>1, <2>5, <3>1, <3>2, <4>1
           DEF Held, Completed, Failed, BeginTimesOut
      <4>3. "started" \notin Call
        BY SaysAssumption DEF Says
      <4>4. pc'[c] = "run"
        BY <4>2, <4>3, <1>t, Types DEF Began, Go
      <4> QED
        BY <4>4 DEF Held
    <3>3. CASE pc[c] # "begin"
      <4>1. pc[c] # "run"
        BY <1>6, <3>3 DEF Began, Completed, Failed, BeginTimesOut
      <4> QED
        BY <3>1, <3>3, <4>1, <2>4 DEF Held
    <3> QED
      BY <3>2, <3>3
  <2> QED
    BY <2>1, <2>3, <2>5, SentNothing
<1> QED
  BY <1>3, <1>5, <1>6 DEF Proceed

\* A key that is taken anew has a runner.
LEMMA HostBeginHolds ==
  ASSUME IInv, HInv, NEW w \in Worker, HostBegin(w) PROVE HInv'
<1>t. TypeOK
  BY DEF IInv
<1>c. PICK c \in Call : c = Head(mail[w]).call
  BY ReadFacts DEF HostBegin
<1>1. /\ Head(mail[w]) \in Sent(w) /\ Head(mail[w]).what = "begin"
      /\ \A v \in Worker : Sent(v)' \subseteq Sent(v)
      /\ \A v \in Worker : \A m \in Sent(v)' : m.what = "begin" => m.call # c
  BY <1>c, ReadFacts DEF HostBegin
<1>2. \A v \in Worker : \A m \in Sent(v) : m.what # "begin" => m \in Sent(v)'
  BY <1>1, <1>t, ReadMail DEF HostBegin, Read
<1>3. number[c] = 0 /\ c \notin ops /\ at[c] = w
  BY <1>1, <1>c DEF IInv, MailInOrder, Numbered
<1>4. \A d \in Call : d # c => reply'[d] = reply[d]
  BY <1>c, <1>t, Types DEF HostBegin, StartOperation, Join, Reply
<1>5. UNCHANGED <<pc, at, worker>>
  BY DEF HostBegin, atWorkers
<1>6. \A v \in Worker : worker'[v] = "failed" => Sent(v)' = {}
  BY <1>1, <1>5 DEF HInv
<1>7. ASSUME NEW v \in Worker, NEW m \in Sent(v)', m.what = "begin", worker'[v] = "up"
      PROVE  pc'[m.call] = "begin" /\ reply'[m.call] = None
  BY <1>1, <1>4, <1>5, <1>7, <1>t, SentTypes DEF HInv
<1>8. ASSUME NEW d \in ops PROVE Held(d)'
  <2>1. d \in Call /\ d # c /\ Held(d) /\ at[d] \in Worker
    BY <1>3, <1>t, Types DEF HInv, IInv, CallsStarted, Numbered
  <2>2. (\E m \in Sent(at[d]) : m.what # "begin" /\ m.call = d) =>
           \E m \in Sent(at[d])' : m.what # "begin" /\ m.call = d
    BY <1>2, <1>5, <2>1
  <2> QED
    BY <1>4, <1>5, <2>1, <2>2 DEF Held
<1>9. ASSUME NEW d \in ops', d \notin ops PROVE Held(d)'
  <2>1. d = c /\ Reply(c, "begin", "started")
    BY <1>9, <1>c DEF HostBegin, StartOperation
  <2>2. worker[w] = "up" => reply'[c] = "started" /\ pc[c] = "begin"
    BY <1>1, <1>c, <1>t, <2>1, Types DEF HInv, Reply, Awaits
  <2>3. worker[w] # "failed"
    BY <1>1 DEF HInv
  <2> QED
    BY <1>3, <1>5, <1>t, <2>1, <2>2, <2>3, Types DEF Held
<1> QED
  BY <1>6, <1>7, <1>8, <1>9 DEF HInv

\* A report is read, or refused.
LEMMA HostReportHolds ==
  ASSUME IInv, HInv, NEW w \in Worker, HostComplete(w) \/ HostFail(w) PROVE HInv'
<1>t. TypeOK
  BY DEF IInv
<1>w. PICK what \in {"complete", "fail"} : Read(w, what)
  BY DEF HostComplete, HostFail
<1>c. PICK c \in Call : c = Head(mail[w]).call
  BY <1>w, ReadFacts
<1>1. \A v \in Worker : Sent(v)' \subseteq Sent(v)
  BY <1>w, ReadFacts
<1>2. \A v \in Worker : \A m \in Sent(v) : m.call # c => m \in Sent(v)'
  BY <1>c, <1>t, <1>w, ReadMail DEF Read
<1>3. UNCHANGED <<pc, at, worker>>
  BY DEF HostComplete, HostFail, atWorkers
<1>4. \A v \in Worker : worker'[v] = "failed" => Sent(v)' = {}
  BY <1>1, <1>3 DEF HInv
<1>5. CASE c \in ops
  <2>1. \E says, kind : kind \in {"complete", "fail"} /\ Settle({c}, kind, says)
    BY <1>5, <1>c DEF HostComplete, HostFail, CompleteOperation, FailOperation
  <2>2. PICK says, kind : kind \in {"complete", "fail"} /\ Settle({c}, kind, says)
    BY <2>1
  <2>3. ops' = ops \ {c} /\ {c} \in SUBSET ops
    BY <1>5, <2>2 DEF Settle
  <2> QED
    BY <1>1, <1>2, <1>3, <1>4, <2>2, <2>3, Settled
<1>6. CASE c \notin ops
  <2>1. PICK kind \in {"complete", "fail"} : Refuse(c, kind) /\ Read(w, kind)
    BY <1>6, <1>c DEF HostComplete, HostFail, CompleteOperation, FailOperation
  <2>2. /\ ops' = ops /\ \A d \in Call : d # c => reply'[d] = reply[d]
        /\ pc[c] = "begin" => reply' = reply
    BY <2>1, <1>t, Types DEF Refuse, Reply, Awaits
  <2>3. ASSUME NEW v \in Worker, NEW m \in Sent(v)', m.what = "begin", worker'[v] = "up"
        PROVE  pc'[m.call] = "begin" /\ reply'[m.call] = None
    BY <1>1, <1>3, <1>t, <2>2, <2>3, SentTypes DEF HInv
  <2>4. ASSUME NEW d \in ops' PROVE Held(d)'
    <3>1. d \in Call /\ d # c /\ Held(d) /\ at[d] \in Worker
      BY <1>6, <1>t, <2>2, <2>4, Types DEF HInv, IInv, CallsStarted, Numbered
    <3>2. (\E m \in Sent(at[d]) : m.what # "begin" /\ m.call = d) =>
             \E m \in Sent(at[d])' : m.what # "begin" /\ m.call = d
      BY <1>2, <1>3, <3>1
    <3> QED
      BY <1>3, <2>2, <3>1, <3>2 DEF Held
  <2> QED
    BY <1>4, <2>3, <2>4 DEF HInv
<1> QED
  BY <1>5, <1>6

\* A worker that is failed leaves no key taken.
LEMMA FailOwnerHolds ==
  ASSUME IInv, HInv, NEW w \in Worker, FailOwner(w), "early exit" \notin Fault PROVE HInv'
<1>t. TypeOK
  BY DEF IInv
<1>1. /\ mail[w] = <<>> /\ worker[w] = "dead" /\ worker' = [worker EXCEPT ![w] = "failed"]
      /\ Settle(Owned(w), "fail", "refused") /\ UNCHANGED <<pc, at, mail>>
  BY DEF FailOwner
<1>2. Sent(w) = {} /\ \A v \in Worker : Sent(v)' = Sent(v)
  <2>1. mail' = mail
    BY <1>1
  <2> QED
    BY <1>1, <2>1, NothingSent DEF Sent
<1>3. \A v \in Worker : /\ worker'[v] = "up" => worker[v] = "up"
                        /\ worker'[v] = "failed" => Sent(v)' = {}
  BY <1>1, <1>2, <1>t, Types DEF HInv
<1>4. Owned(w) \in SUBSET ops
  BY DEF Owned
<1>5. \A d \in ops' : worker[at[d]] = "dead" => worker'[at[d]] = "dead"
  <2>1. \A d \in ops' : d \in Call /\ at[d] # w /\ at[d] \in Worker
    BY <1>1, <1>t, Types DEF Settle, Owned, IInv, CallsStarted, Numbered
  <2> QED
    BY <1>1, <1>t, <2>1, Types
<1> QED
  BY <1>1, <1>2, <1>3, <1>4, <1>5, Settled

\* The keys of a worker that dies wait for the host to hear of it.
LEMMA DieHolds ==
  ASSUME IInv, HInv, NEW w \in Worker, Die(w) PROVE HInv'
<1>t. TypeOK
  BY DEF IInv
<1>1. /\ worker' = [worker EXCEPT ![w] = "dead"] /\ worker[w] = "up"
      /\ UNCHANGED <<at, ops, mail>>
  BY DEF Die, atHost
<1>2. \A v \in Worker : Sent(v)' = Sent(v)
  BY <1>1 DEF Sent
<1>3. \A d \in Call : at[d] # w => pc'[d] = pc[d] /\ reply'[d] = reply[d]
  BY DEF Die
<1>4. ASSUME NEW v \in Worker
      PROVE  /\ worker'[v] = "failed" => Sent(v)' = {}
             /\ \A m \in Sent(v)' :
                  m.what = "begin" /\ worker'[v] = "up" =>
                    pc'[m.call] = "begin" /\ reply'[m.call] = None
  <2>1. v # w => worker'[v] = worker[v]
    BY <1>1, <1>t, Types
  <2>2. worker'[w] = "dead"
    BY <1>1, <1>t, Types
  <2>3. v # w => \A m \in Sent(v) : m.call \in Call /\ at[m.call] # w
    BY <1>t, SentTypes DEF IInv, MailInOrder
  <2> QED
    BY <1>2, <1>3, <2>1, <2>2, <2>3 DEF HInv
<1>5. ASSUME NEW d \in ops PROVE Held(d)'
  <2>1. d \in Call /\ Held(d) /\ at[d] \in Worker /\ Sent(at[d])' = Sent(at[d])
    BY <1>1, <1>2, <1>t, Types DEF HInv, IInv, CallsStarted, Numbered
  <2>2. CASE at[d] = w
    BY <1>1, <1>t, <2>2, Types DEF Held
  <2>3. CASE at[d] # w
    BY <1>1, <1>3, <1>t, <2>1, <2>3, Types DEF Held
  <2> QED
    BY <2>2, <2>3
<1> QED
  BY <1>1, <1>4, <1>5 DEF HInv

\* An operation that was started is reported, or its worker is dead and what it
\* owned will be failed, and nobody waits for one that is over: unless the answer
\* to a begin is late, or a worker's exit is heard of before its last messages.
THEOREM KeysComeBack ==
  ASSUME "slow begin" \notin Fault, "early exit" \notin Fault
  PROVE  Spec => []KeysHeld
<1>1. Init => HInv
  <2> SUFFICES ASSUME Init PROVE HInv
    OBVIOUS
  <2>1. \A w \in Worker : Sent(w) = {}
    BY NothingSent DEF Init
  <2> QED
    BY <2>1 DEF Init, HInv
<1>2. IInv /\ HInv /\ TypeOK' /\ [Next]_vars => HInv'
  <2> SUFFICES ASSUME IInv, HInv, TypeOK', [Next]_vars PROVE HInv'
    OBVIOUS
  <2>1. ASSUME NEW c \in Call, Begin(c) \/ Proceed(c) \/ BeginTimesOut(c) PROVE HInv'
    BY <2>1, ProceedHolds
  <2>2. ASSUME NEW w \in Worker, HostReads(w) \/ FailOwner(w) \/ Die(w) PROVE HInv'
    BY <2>2, HostBeginHolds, HostReportHolds, FailOwnerHolds, DieHolds DEF HostReads
  <2>3. ASSUME UNCHANGED <<pc, at, worker, mail, reply, ops>> PROVE HInv'
    <3>1. \A w \in Worker : Sent(w)' = Sent(w)
      BY <2>3 DEF Sent
    <3>2. \A c \in ops : Sent(at[c])' = Sent(at[c])
      BY <2>3 DEF Sent
    <3>3. \A c \in ops : Held(c)' = Held(c)
      BY <2>3, <3>2 DEF Held
    <3> QED
      BY <2>3, <3>1, <3>3 DEF HInv
  <2> QED
    BY <2>1, <2>2, <2>3 DEF Next, Expire, TakeGate, LeaveGate, vars, atWorkers, atHost
<1>3. IInv /\ HInv => KeysHeld
  <2> SUFFICES ASSUME IInv, HInv PROVE KeysHeld
    OBVIOUS
  <2>1. ASSUME NEW c \in ops, NEW m \in Sent(at[c]), m.what # "begin", m.call = c
        PROVE  \E i \in DOMAIN mail[at[c]] :
                 mail[at[c]][i].what # "begin" /\ mail[at[c]][i].call = c
    BY <2>1 DEF Sent
  <2> QED
    BY <2>1 DEF HInv, Held, KeysHeld, IInv, WaitersJoined
<1> QED
  BY <1>1, <1>2, <1>3, Inductive, TypeCorrect, PTL DEF Spec
=============================================================================
