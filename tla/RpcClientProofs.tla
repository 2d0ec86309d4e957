-------------------------- MODULE RpcClientProofs --------------------------
(***************************************************************************)
(* RpcClient, for any callers, calls, connections of the channel and       *)
(* Connection objects: no assertion of the client's threads fails, done of *)
(* a one-way call runs once at most, and a call is woken by what is meant  *)
(* for it.                                                                 *)
(*                                                                         *)
(* A call is in one place at a time on its way from taskQueue_ to the      *)
(* server and back (PlaceInv).  The client knows a call without a timeout  *)
(* by its coroutine alone; this is enough because such a call is waited    *)
(* for as long as anything of it is left that can still be received or     *)
(* woken (PlainInv).                                                       *)
(***************************************************************************)
EXTENDS RpcClient, SeqLemmas

CallerTypes ==
    /\ n \in [Caller -> Nat] /\ \A c \in Caller : n[c] <= Len(Kind[c])
    /\ waiting \in [Caller -> BOOLEAN]
    /\ result \in [Call -> {"none", "ok", "failed", "timeout"}]
    /\ live \subseteq Call /\ late \subseteq Call /\ answered \subseteq Call
    /\ wakes \in Seq([call : Call, failed : BOOLEAN])
    /\ stray = FALSE

QueueTypes ==
    /\ taskQ \in Seq(Call) /\ connQ \in Seq([type : {"CONNECT", "CLOSE"}, conn : Conn])
    /\ slots \in Seq(Conn \cup {None}) /\ conIndex \in Nat /\ dropped \in BOOLEAN

ConnTypes ==
    /\ st \in [Conn -> {"unused", "CONNECTING", "CONNECTED", "CLOSED"}]
    /\ waitSend \in [Conn -> Seq(Call)]
    /\ waitResult \in [Conn -> [Caller -> Call \cup {None}]]
    /\ io \in [Conn -> {"new", "open", "closing", "closed"}]
    /\ sendQ \in [Conn -> Seq(Call)] /\ datas \in [Conn -> Seq(Call)]
    /\ wire \in [Conn -> SUBSET Call] /\ decoding \in [Conn -> Call \cup {None}]
    /\ thWait \in {None} \cup (Conn \X Call)
    /\ cr \in [at : {"idle", "connect", "drain", "drainLock"}, conn : Conn \cup {None},
               now : SUBSET Call]

DoneTypes == doneRuns \in [Call -> 0 .. 1]

ClientTypes == CallerTypes /\ QueueTypes /\ ConnTypes /\ DoneTypes

CloseOf(k) == [type |-> "CLOSE", conn |-> k]
ConnectOf(k) == [type |-> "CONNECT", conn |-> k]
Draining(k) == cr.at \in {"drain", "drainLock"} /\ cr.conn = k

\* The tasks of connectionRoutine, and how far a connection is.
ConnInv ==
    /\ IsInjective(connQ)
    /\ \A k \in Conn : CloseOf(k) \in Range(connQ) => io[k] = "closed"
    /\ \A k \in Conn : ConnectOf(k) \in Range(connQ) => st[k] = "CONNECTING" /\ ~IsAt("connect", k)
    /\ cr.at # "idle" => cr.conn \in Conn
    /\ cr.at = "connect" => st[cr.conn] = "CONNECTING"
    /\ \A k \in Conn : st[k] \in {"unused", "CONNECTING"} => io[k] = "new"
    /\ \A k \in Conn : st[k] = "CONNECTED" => io[k] # "new"
    /\ \A k \in Conn : waitSend[k] # <<>> => st[k] = "CONNECTING" \/ Draining(k)
    /\ cr.at \in {"drain", "drainLock"} => io[cr.conn] # "new"
    /\ thWait # None => io[thWait[1]] # "new"
    /\ \A k \in Conn : io[k] = "closed" => decoding[k] = None
    /\ \A k \in Conn : io[k] = "new" => \A c \in Caller : waitResult[k][c] = None

Plain(x) == KindOf(x) = "plain"
Places == {"new", "task", "lock", "wait", "send", "data", "wire", "got", "gone"}
          \X (Conn \cup {None})

\* Each call is in one place, at.
PlaceInv(at) ==
    /\ at \in [Call -> Places]
    /\ \A x \in Call : at[x][1] = "new" <=> x[2] > n[x[1]]
    /\ IsInjective(taskQ) /\ \A x \in Range(taskQ) : at[x] = <<"task", None>>
    /\ thWait # None => at[thWait[2]] = <<"lock", None>> /\ Care(thWait[2])
    /\ \A k \in Conn :
          /\ IsInjective(waitSend[k]) /\ \A x \in Range(waitSend[k]) : at[x] = <<"wait", k>>
          /\ IsInjective(sendQ[k]) /\ \A x \in Range(sendQ[k]) : at[x] = <<"send", k>>
          /\ IsInjective(datas[k]) /\ \A x \in Range(datas[k]) : at[x] = <<"data", k>>
          /\ \A x \in wire[k] : at[x] = <<"wire", k>> /\ Care(x)
          /\ decoding[k] # None => at[decoding[k]] = <<"got", k>> /\ Care(decoding[k])

WaitedFor(x) == waiting[x[1]] /\ n[x[1]] = x[2]
Woken == {wakes[i].call : i \in DOMAIN wakes}

\* Who wakes a coroutine, and for which call.
WakeInv ==
    /\ \A x \in late : KindOf(x) = "timed"
    /\ \A x \in Woken : Care(x) /\ (Plain(x) => WaitedFor(x))
    /\ \A i, j \in DOMAIN wakes : wakes[i].call = wakes[j].call /\ Plain(wakes[i].call) => i = j
    /\ \A k \in Conn, c \in Caller : waitResult[k][c] # None =>
          waitResult[k][c][1] = c /\ Care(waitResult[k][c])

Sent == {"send", "data", "wire", "got"}

\* A call without a timeout, at p, is waited for until it is woken.
PlainOK(p, x) ==
    /\ p[1] \in {"task", "lock", "wait"} =>
          WaitedFor(x) /\ x \notin Woken /\ \A k \in Conn : waitResult[k][x[1]] # x
    /\ p[1] \in Sent /\ p[2] \in Conn /\ io[p[2]] # "closed" => WaitedFor(x) /\ x \notin Woken
    /\ \A k \in Conn : waitResult[k][x[1]] = x =>
          /\ WaitedFor(x) /\ x \notin Woken
          /\ p[1] = "gone" \/ (p[1] \in Sent /\ p[2] = k)
          /\ \A l \in Conn : waitResult[l][x[1]] = x => l = k

PlainInv(at) == \A x \in Call : Plain(x) => PlainOK(at[x], x)

\* The CLOSE task of k has been handled.
Finished(k) == io[k] = "closed" /\ CloseOf(k) \notin Range(connQ)

\* done has not run for a one-way call, at p, that is still to be sent.
DoneOK(p, x) ==
    /\ p[1] \in {"new", "task", "wait", "send"} => doneRuns[x] = 0
    /\ \A k \in Conn : p = <<"data", k>> /\ ~Finished(k) => doneRuns[x] = 0

DoneInv(at) == \A x \in Call : ~Care(x) => DoneOK(at[x], x)

CallInv(at) == PlaceInv(at) /\ PlainInv(at) /\ DoneInv(at)

ClientInv == ClientTypes /\ ConnInv /\ WakeInv /\ \E at \in [Call -> Places] : CallInv(at)

-----------------------------------------------------------------------------
(* Calls.                                                                  *)

LEMMA CallFacts ==
    ASSUME NEW x \in Call
    PROVE  /\ x = <<x[1], x[2]>> /\ x[1] \in Caller /\ x[2] \in 1 .. Len(Kind[x[1]])
           /\ KindOf(x) \in {"plain", "timed", "oneway"}
           /\ Len(Kind[x[1]]) \in Nat
<1>1. PICK c \in Caller : \E i \in DOMAIN Kind[c] : x = <<c, i>>
  BY DEF Call
<1>2. PICK i \in DOMAIN Kind[c] : x = <<c, i>>
  BY <1>1
<1>3. Kind[c] \in Seq({"plain", "timed", "oneway"})
  BY RpcClientAssumption
<1>4. x[1] = c /\ x[2] = i /\ i \in 1 .. Len(Kind[c])
  BY <1>2, <1>3
<1> QED  BY <1>2, <1>3, <1>4 DEF KindOf

LEMMA NextCall ==
    ASSUME NEW c \in Caller, n[c] \in Nat, n[c] < Len(Kind[c])
    PROVE  <<c, n[c] + 1>> \in Call
<1>1. Kind[c] \in Seq({"plain", "timed", "oneway"})
  BY RpcClientAssumption
<1>2. n[c] + 1 \in DOMAIN Kind[c]
  BY <1>1
<1> QED  BY <1>2 DEF Call

\* A call with a timeout is told by its expire time, another by its coroutine.
LEMMA MatchesOwn ==
    ASSUME NEW x \in Call, NEW y \in Call, Care(x), Care(y), Expire(x) = Expire(y)
    PROVE  x = y \/ (Plain(x) /\ Plain(y))
<1>1. x # <<>> /\ y # <<>>
  BY CallFacts
<1> QED  BY <1>1, CallFacts DEF Expire, Care, Plain

-----------------------------------------------------------------------------
LEMMA ClientInit == Init => ClientInv
<1> SUFFICES ASSUME Init PROVE ClientInv
  OBVIOUS
<1>1. ClientTypes
  <2>1. CallerTypes
    <3>1. \A c \in Caller : Len(Kind[c]) \in Nat
      BY RpcClientAssumption
    <3> QED  BY <3>1 DEF Init, CallerTypes
  <2>2. QueueTypes
    <3>1. slots \in Seq(Conn \cup {None})
      BY RpcClientAssumption DEF Init
    <3>2. taskQ = <<>> /\ connQ = <<>> /\ conIndex = 1 /\ dropped = FALSE
      BY DEF Init
    <3>3. taskQ \in Seq(Call)
      BY <3>2
    <3>4. connQ \in Seq([type : {"CONNECT", "CLOSE"}, conn : Conn])
      BY <3>2
    <3>5. dropped \in BOOLEAN /\ conIndex \in Nat
      BY <3>2
    <3> QED  BY <3>1, <3>3, <3>4, <3>5 DEF QueueTypes
  <2>3. ConnTypes
    BY DEF Init, ConnTypes, Idle
  <2>4. DoneTypes
    BY DEF Init, DoneTypes
  <2> QED  BY <2>1, <2>2, <2>3, <2>4 DEF ClientTypes
<1>2. Range(connQ) = {} /\ Range(taskQ) = {} /\ IsInjective(connQ) /\ IsInjective(taskQ)
      /\ DOMAIN wakes = {}
  BY EmptyLink DEF Init
<1>3. ConnInv
  BY <1>2 DEF Init, ConnInv, Idle, IsAt, Draining
<1>4. WakeInv
  BY <1>2 DEF Init, WakeInv, Woken
<1> DEFINE at == [x \in Call |-> <<"new", None>>]
<1>5. at \in [Call -> Places]
  BY DEF Places
<1>6. PlaceInv(at)
  <2>1. \A x \in Call : x[2] > n[x[1]]
    BY CallFacts DEF Init
  <2>2. \A x \in Call : at[x][1] = "new"
    OBVIOUS
  <2>3. \A k \in Conn : /\ IsInjective(waitSend[k]) /\ Range(waitSend[k]) = {}
                        /\ IsInjective(sendQ[k]) /\ Range(sendQ[k]) = {}
                        /\ IsInjective(datas[k]) /\ Range(datas[k]) = {}
                        /\ wire[k] = {} /\ decoding[k] = None
    BY EmptyLink DEF Init
  <2>4. thWait = None
    BY DEF Init
  <2> HIDE DEF at
  <2> QED  BY <1>2, <1>5, <2>1, <2>2, <2>3, <2>4 DEF PlaceInv
<1>7. PlainInv(at)
  <2>1. \A x \in Call : at[x][1] = "new" /\ x[1] \in Caller
    BY CallFacts
  <2>2. \A x \in Call, k \in Conn : waitResult[k][x[1]] = None
    BY <2>1 DEF Init
  <2>3. None \notin Call
    BY RpcClientAssumption
  <2> HIDE DEF at
  <2> QED  BY <2>1, <2>2, <2>3 DEF PlainInv, PlainOK, Sent
<1>8. DoneInv(at)
  BY DEF DoneInv, DoneOK, Init
<1> HIDE DEF at
<1> QED  BY <1>1, <1>3, <1>4, <1>5, <1>6, <1>7, <1>8 DEF ClientInv, CallInv

-----------------------------------------------------------------------------
(* What a step leaves alone.                                               *)

LEMMA QueueSame == ASSUME QueueTypes, UNCHANGED qVars PROVE QueueTypes'
  BY DEF QueueTypes, qVars

LEMMA ConnTypesSame ==
    ASSUME ConnTypes, UNCHANGED <<connVars, ioVars, wire, decoding, thWait, cr>>
    PROVE  ConnTypes'
  BY DEF ConnTypes, connVars, ioVars

LEMMA DoneSame == ASSUME DoneTypes, doneRuns' = doneRuns PROVE DoneTypes'
  BY DEF DoneTypes

LEMMA ConnSame ==
    ASSUME ConnInv, UNCHANGED <<connVars, connQ, io, cr, thWait, decoding>>
    PROVE  ConnInv'
  BY DEF ConnInv, connVars, Draining, IsAt

LEMMA WokenFacts ==
    ASSUME CallerTypes
    PROVE  /\ Woken \subseteq Call
           /\ \A i \in DOMAIN wakes : wakes[i].call \in Call /\ wakes[i].failed \in BOOLEAN
<1> DEFINE E == [call : Call, failed : BOOLEAN]
<1>1. wakes \in Seq(E)
  BY DEF CallerTypes
<1>2. \A e \in E : e.call \in Call /\ e.failed \in BOOLEAN
  OBVIOUS
<1> HIDE DEF E
<1>3. \A i \in DOMAIN wakes : wakes[i] \in E
  BY <1>1
<1> QED  BY <1>2, <1>3 DEF Woken

\* Nobody is woken, and who is waited for without a timeout still is.
LEMMA WakeSame ==
    ASSUME WakeInv, UNCHANGED <<wakes, waitResult>>, \A x \in late' : KindOf(x) = "timed",
           \A x \in Woken : Plain(x) /\ WaitedFor(x) => WaitedFor(x)'
    PROVE  WakeInv'
<1>1. Woken' = Woken
  BY DEF Woken
<1> QED  BY <1>1 DEF WakeInv

\* The calls stay where they are.
LEMMA PlaceSame ==
    ASSUME NEW at, PlaceInv(at),
           UNCHANGED <<n, taskQ, thWait, waitSend, sendQ, datas, wire, decoding>>
    PROVE  PlaceInv(at)'
  BY DEF PlaceInv

LEMMA PlainSame ==
    ASSUME NEW at, PlainInv(at), UNCHANGED <<n, waiting, wakes, waitResult, io>>
    PROVE  PlainInv(at)'
<1>1. Woken' = Woken /\ \A x \in Call : WaitedFor(x)' <=> WaitedFor(x)
  BY DEF Woken, WaitedFor
<1> QED  BY <1>1 DEF PlainInv, PlainOK

LEMMA DoneInvSame ==
    ASSUME NEW at, DoneInv(at), UNCHANGED <<doneRuns, io, connQ>>
    PROVE  DoneInv(at)'
  BY DEF DoneInv, DoneOK, Finished

\* The places after x has moved to p.
Moved(at, x, p) == [y \in Call |-> IF y = x THEN p ELSE at[y]]

LEMMA MovedFacts ==
    ASSUME NEW at \in [Call -> Places], NEW x \in Call, NEW p \in Places
    PROVE  /\ Moved(at, x, p) \in [Call -> Places]
           /\ Moved(at, x, p)[x] = p
           /\ \A y \in Call : y # x => Moved(at, x, p)[y] = at[y]
  BY DEF Moved

\* q holds what is at w.  When x goes from f to p it becomes r.
Only(r, q, x, w, f, p) ==
    \/ r = q /\ f # w
    \/ IsInjective(r) /\ \A y \in Range(r) : (y = x /\ p = w) \/ (y # x /\ y \in Range(q))

Goes(x, f, p) ==
    /\ \A y \in Call : y # x => (y[2] > n'[y[1]] <=> y[2] > n[y[1]])
    /\ p[1] = "new" <=> x[2] > n'[x[1]]
    /\ Only(taskQ', taskQ, x, <<"task", None>>, f, p)
    /\ \/ thWait' = thWait /\ f # <<"lock", None>>
       \/ thWait' # None => thWait'[2] = x /\ p = <<"lock", None>> /\ Care(x)
    /\ \A k \in Conn :
          /\ Only(waitSend'[k], waitSend[k], x, <<"wait", k>>, f, p)
          /\ Only(sendQ'[k], sendQ[k], x, <<"send", k>>, f, p)
          /\ Only(datas'[k], datas[k], x, <<"data", k>>, f, p)
          /\ \A y \in wire'[k] : \/ y = x /\ p = <<"wire", k>> /\ Care(x)
                                 \/ y # x /\ y \in wire[k]
          /\ \/ decoding'[k] = decoding[k] /\ f # <<"got", k>>
             \/ decoding'[k] # None => decoding'[k] = x /\ p = <<"got", k>> /\ Care(x)

\* All of q is at w.
Holds(at, q, w) == IsInjective(q) /\ \A y \in Range(q) : at[y] = w

LEMMA OnlyFacts ==
    ASSUME NEW at \in [Call -> Places], NEW x \in Call, NEW p \in Places, NEW w,
           NEW q \in Seq(Call), NEW r, Holds(at, q, w), Only(r, q, x, w, at[x], p)
    PROVE  Holds(Moved(at, x, p), r, w)
<1> DEFINE b == Moved(at, x, p)
<1>1. b[x] = p /\ \A y \in Call : y # x => b[y] = at[y]
  BY MovedFacts
<1>2. \A y \in Range(q) : y \in Call /\ at[y] = w
  BY DEF Range, Holds
<1> HIDE DEF b
<1>3. Holds(b, r, w)
  <2>1. CASE r = q /\ at[x] # w
    BY <1>1, <1>2, <2>1 DEF Holds
  <2>2. CASE IsInjective(r) /\ \A y \in Range(r) : (y = x /\ p = w) \/ (y # x /\ y \in Range(q))
    BY <1>1, <1>2, <2>2 DEF Holds
  <2> QED  BY <2>1, <2>2 DEF Only
<1> QED  BY <1>3 DEF b

LEMMA PlaceMove ==
    ASSUME QueueTypes, ConnTypes, NEW at \in [Call -> Places], PlaceInv(at),
           NEW x \in Call, NEW p \in Places, Goes(x, at[x], p)
    PROVE  PlaceInv(Moved(at, x, p))'
<1> DEFINE b == Moved(at, x, p)
<1>1. b \in [Call -> Places] /\ b[x] = p /\ \A y \in Call : y # x => b[y] = at[y]
  BY MovedFacts
<1>2. \A y \in Call : b[y][1] = "new" <=> y[2] > n'[y[1]]
  BY <1>1 DEF Goes, PlaceInv
<1>3. Holds(b, taskQ', <<"task", None>>)
  <2>1. taskQ \in Seq(Call) /\ Holds(at, taskQ, <<"task", None>>)
    BY DEF PlaceInv, QueueTypes, Holds
  <2>2. Only(taskQ', taskQ, x, <<"task", None>>, at[x], p)
    BY DEF Goes
  <2> QED  BY <2>1, <2>2, OnlyFacts
<1>4. thWait' # None => b[thWait'[2]] = <<"lock", None>> /\ Care(thWait'[2])
  <2>1. thWait # None => thWait[2] \in Call /\ at[thWait[2]] = <<"lock", None>> /\ Care(thWait[2])
    BY DEF PlaceInv, ConnTypes
  <2>2. \/ thWait' = thWait /\ at[x] # <<"lock", None>>
        \/ thWait' # None => thWait'[2] = x /\ p = <<"lock", None>> /\ Care(x)
    BY DEF Goes
  <2> HIDE DEF b
  <2> QED  BY <1>1, <2>1, <2>2
<1>5. ASSUME NEW k \in Conn
      PROVE  /\ Holds(b, waitSend'[k], <<"wait", k>>)
             /\ Holds(b, sendQ'[k], <<"send", k>>)
             /\ Holds(b, datas'[k], <<"data", k>>)
  <2>1. waitSend[k] \in Seq(Call) /\ sendQ[k] \in Seq(Call) /\ datas[k] \in Seq(Call)
    BY DEF ConnTypes
  <2>2. /\ Only(waitSend'[k], waitSend[k], x, <<"wait", k>>, at[x], p)
        /\ Only(sendQ'[k], sendQ[k], x, <<"send", k>>, at[x], p)
        /\ Only(datas'[k], datas[k], x, <<"data", k>>, at[x], p)
    BY DEF Goes
  <2>3. /\ Holds(at, waitSend[k], <<"wait", k>>)
        /\ Holds(at, sendQ[k], <<"send", k>>)
        /\ Holds(at, datas[k], <<"data", k>>)
    BY DEF PlaceInv, Holds
  <2>4. Holds(b, waitSend'[k], <<"wait", k>>)
    BY <2>1, <2>2, <2>3, OnlyFacts
  <2>5. Holds(b, sendQ'[k], <<"send", k>>)
    BY <2>1, <2>2, <2>3, OnlyFacts
  <2>6. Holds(b, datas'[k], <<"data", k>>)
    BY <2>1, <2>2, <2>3, OnlyFacts
  <2> QED  BY <2>4, <2>5, <2>6
<1>6. ASSUME NEW k \in Conn
      PROVE  /\ \A y \in wire'[k] : b[y] = <<"wire", k>> /\ Care(y)
             /\ decoding'[k] # None => b[decoding'[k]] = <<"got", k>> /\ Care(decoding'[k])
  <2>1. /\ \A y \in wire[k] : y \in Call /\ at[y] = <<"wire", k>> /\ Care(y)
        /\ decoding[k] # None => /\ decoding[k] \in Call /\ at[decoding[k]] = <<"got", k>>
                                 /\ Care(decoding[k])
    BY DEF ConnTypes, PlaceInv
  <2>2. /\ \A y \in wire'[k] : \/ y = x /\ p = <<"wire", k>> /\ Care(x)
                               \/ y # x /\ y \in wire[k]
        /\ \/ decoding'[k] = decoding[k] /\ at[x] # <<"got", k>>
           \/ decoding'[k] # None => decoding'[k] = x /\ p = <<"got", k>> /\ Care(x)
    BY DEF Goes
  <2> HIDE DEF b
  <2> QED  BY <1>1, <2>1, <2>2
<1> HIDE DEF b
<1>7. PlaceInv(b)'
  BY <1>1, <1>2, <1>3, <1>4, <1>5, <1>6 DEF PlaceInv, Holds
<1> QED  BY <1>7 DEF b

\* What a step that moves x must keep of the other calls.
Keeps(x) ==
    /\ \A y \in Call : (y # x /\ Plain(y) /\ WaitedFor(y) /\ y \notin Woken) =>
          WaitedFor(y)' /\ y \notin Woken'
    /\ \A y \in Call, k \in Conn :
          (y # x /\ Plain(y) /\ waitResult'[k][y[1]] = y) => waitResult[k][y[1]] = y
    /\ \A k \in Conn : io'[k] # "closed" => io[k] # "closed"
    /\ \A y \in Call : y # x => doneRuns'[y] = doneRuns[y]
    /\ \A k \in Conn : Finished(k) => Finished(k)'

LEMMA PlainMove ==
    ASSUME NEW at \in [Call -> Places], PlainInv(at), NEW x \in Call, NEW p \in Places,
           Keeps(x), Plain(x) => PlainOK(p, x)'
    PROVE  PlainInv(Moved(at, x, p))'
<1> DEFINE b == Moved(at, x, p)
<1>1. b \in [Call -> Places] /\ b[x] = p /\ \A y \in Call : y # x => b[y] = at[y]
  BY MovedFacts
<1> HIDE DEF b
<1>2. ASSUME NEW y \in Call, Plain(y), y # x
      PROVE  PlainOK(at[y], y)'
  <2>1. PlainOK(at[y], y)
    BY <1>2 DEF PlainInv
  <2>2. WaitedFor(y) /\ y \notin Woken => WaitedFor(y)' /\ y \notin Woken'
    BY <1>2 DEF Keeps
  <2>3. \A k \in Conn : waitResult'[k][y[1]] = y => waitResult[k][y[1]] = y
    BY <1>2 DEF Keeps
  <2>4. \A k \in Conn : io'[k] # "closed" => io[k] # "closed"
    BY DEF Keeps
  <2> QED  BY <2>1, <2>2, <2>3, <2>4 DEF PlainOK
<1>3. \A y \in Call : Plain(y) => PlainOK(b[y], y)'
  BY <1>1, <1>2
<1>4. PlainInv(b)'
  BY <1>3 DEF PlainInv
<1> QED  BY <1>4 DEF b

LEMMA DoneMove ==
    ASSUME NEW at \in [Call -> Places], DoneInv(at), NEW x \in Call, NEW p \in Places,
           Keeps(x), ~Care(x) => DoneOK(p, x)'
    PROVE  DoneInv(Moved(at, x, p))'
<1> DEFINE b == Moved(at, x, p)
<1>1. b \in [Call -> Places] /\ b[x] = p /\ \A y \in Call : y # x => b[y] = at[y]
  BY MovedFacts
<1> HIDE DEF b
<1>2. ASSUME NEW y \in Call, ~Care(y), y # x
      PROVE  DoneOK(at[y], y)'
  <2>1. DoneOK(at[y], y)
    BY <1>2 DEF DoneInv
  <2>2. doneRuns'[y] = doneRuns[y] /\ \A k \in Conn : Finished(k) => Finished(k)'
    BY <1>2 DEF Keeps
  <2> QED  BY <2>1, <2>2 DEF DoneOK
<1>3. \A y \in Call : ~Care(y) => DoneOK(b[y], y)'
  BY <1>1, <1>2
<1>4. DoneInv(b)'
  BY <1>3 DEF DoneInv
<1> QED  BY <1>4 DEF b

LEMMA CallMove ==
    ASSUME QueueTypes, ConnTypes, NEW at \in [Call -> Places], CallInv(at),
           NEW x \in Call, NEW p \in Places, Goes(x, at[x], p), Keeps(x),
           Plain(x) => PlainOK(p, x)', ~Care(x) => DoneOK(p, x)'
    PROVE  \E b \in [Call -> Places] : CallInv(b)'
<1>1. PlaceInv(at) /\ PlainInv(at) /\ DoneInv(at)
  BY DEF CallInv
<1>2. PlaceInv(Moved(at, x, p))'
  BY <1>1, PlaceMove
<1>3. PlainInv(Moved(at, x, p))'
  BY <1>1, PlainMove
<1>4. DoneInv(Moved(at, x, p))'
  BY <1>1, DoneMove
<1>5. Moved(at, x, p) \in [Call -> Places]
  BY MovedFacts
<1> QED  BY <1>2, <1>3, <1>4, <1>5 DEF CallInv

\* The calls stay where they are, and only x is waited for no more.
LEMMA CallStay ==
    ASSUME NEW at \in [Call -> Places], CallInv(at),
           UNCHANGED <<n, taskQ, thWait, waitSend, sendQ, datas, wire, decoding>>,
           NEW x \in Call, Keeps(x), Plain(x) => PlainOK(at[x], x)', ~Care(x) => DoneOK(at[x], x)'
    PROVE  \E b \in [Call -> Places] : CallInv(b)'
<1>1. PlaceInv(at) /\ PlainInv(at) /\ DoneInv(at)
  BY DEF CallInv
<1>2. at[x] \in Places
  OBVIOUS
<1>3. Moved(at, x, at[x]) = at
  BY DEF Moved
<1>4. PlaceInv(at)'
  BY <1>1, PlaceSame
<1>5. PlainInv(Moved(at, x, at[x]))'
  BY <1>1, <1>2, PlainMove
<1>6. DoneInv(Moved(at, x, at[x]))'
  BY <1>1, <1>2, DoneMove
<1> QED  BY <1>3, <1>4, <1>5, <1>6 DEF CallInv

\* q is a queue of the calls at w: one is taken from it, or added to it.
LEMMA HeadOut ==
    ASSUME NEW at, NEW q \in Seq(Call), NEW w, Holds(at, q, w), q # <<>>, NEW x, x = Head(q)
    PROVE  /\ x \in Call /\ at[x] = w /\ Tail(q) \in Seq(Call)
           /\ \A p : Only(Tail(q), q, x, w, at[x], p)
<1>1. /\ x \in Range(q) /\ x \in Call /\ Tail(q) \in Seq(Call)
      /\ Range(Tail(q)) = Range(q) \ {x} /\ IsInjective(Tail(q))
  BY TailLink DEF Holds
<1> QED  BY <1>1 DEF Holds, Only

LEMMA TailIn ==
    ASSUME NEW at, NEW q \in Seq(Call), NEW w, Holds(at, q, w), NEW x \in Call, at[x] # w
    PROVE  Append(q, x) \in Seq(Call) /\ Only(Append(q, x), q, x, w, at[x], w)
<1>1. x \notin Range(q) /\ IsInjective(q)
  BY DEF Holds
<1>2. /\ Append(q, x) \in Seq(Call) /\ Range(Append(q, x)) = Range(q) \cup {x}
      /\ IsInjective(Append(q, x))
  BY <1>1, AppendLink
<1> QED  BY <1>1, <1>2 DEF Only

\* The same for a queue of each connection; t names the queue.
Queues(at, f, t) == f \in [Conn -> Seq(Call)] /\ \A k \in Conn : Holds(at, f[k], <<t, k>>)
Moves(g, f, x, t, w, p) == g \in [Conn -> Seq(Call)] /\ \A k \in Conn : Only(g[k], f[k], x, <<t, k>>, w, p)

TakenFrom(g, f, k, x) == f[k] # <<>> /\ x = Head(f[k]) /\ g = [f EXCEPT ![k] = Tail(@)]

LEMMA QueueOut ==
    ASSUME NEW at, NEW f, NEW t, Queues(at, f, t), NEW k \in Conn, NEW x, NEW g, TakenFrom(g, f, k, x)
    PROVE  /\ x \in Call /\ at[x] = <<t, k>>
           /\ \A p : Moves(g, f, x, t, at[x], p)
<1>0. f[k] # <<>> /\ x = Head(f[k]) /\ g = [f EXCEPT ![k] = Tail(@)]
  BY DEF TakenFrom
<1>1. /\ f \in [Conn -> Seq(Call)] /\ f[k] \in Seq(Call) /\ Holds(at, f[k], <<t, k>>)
  BY DEF Queues
<1>2. /\ x \in Call /\ at[x] = <<t, k>> /\ Tail(f[k]) \in Seq(Call)
      /\ \A p : Only(Tail(f[k]), f[k], x, <<t, k>>, at[x], p)
  BY <1>0, <1>1, HeadOut
<1>3. g[k] = Tail(f[k]) /\ \A j \in Conn : j # k => g[j] = f[j]
  BY <1>0, <1>1
<1>4. g \in [Conn -> Seq(Call)]
  BY <1>0, <1>1, <1>2
<1>5. ASSUME NEW j \in Conn, NEW p
      PROVE  Only(g[j], f[j], x, <<t, j>>, at[x], p)
  <2>1. CASE j = k
    BY <1>2, <1>3, <2>1
  <2>2. CASE j # k
    BY <1>2, <1>3, <2>2 DEF Only
  <2> QED  BY <2>1, <2>2
<1> QED  BY <1>2, <1>4, <1>5 DEF Moves

LEMMA QueueIn ==
    ASSUME NEW at, NEW f, NEW t, Queues(at, f, t), NEW k \in Conn, NEW x \in Call,
           at[x][1] # t, NEW g, g = [f EXCEPT ![k] = Append(@, x)]
    PROVE  Moves(g, f, x, t, at[x], <<t, k>>)
<1>1. /\ f \in [Conn -> Seq(Call)] /\ f[k] \in Seq(Call) /\ Holds(at, f[k], <<t, k>>)
  BY DEF Queues
<1>2. \A j : at[x] # <<t, j>>
  OBVIOUS
<1>3. Append(f[k], x) \in Seq(Call) /\ Only(Append(f[k], x), f[k], x, <<t, k>>, at[x], <<t, k>>)
  BY <1>1, <1>2, TailIn
<1>4. g[k] = Append(f[k], x) /\ \A j \in Conn : j # k => g[j] = f[j]
  BY <1>1
<1>5. g \in [Conn -> Seq(Call)]
  BY <1>1, <1>3
<1>6. \A j \in Conn : Only(g[j], f[j], x, <<t, j>>, at[x], <<t, k>>)
  <2> TAKE j \in Conn
  <2>1. CASE j = k
    BY <1>3, <1>4, <2>1
  <2>2. CASE j # k
    BY <1>2, <1>4, <2>2 DEF Only
  <2> QED  BY <2>1, <2>2
<1> QED  BY <1>5, <1>6 DEF Moves

LEMMA QueueSameMoves ==
    ASSUME NEW at, NEW f, NEW t, Queues(at, f, t), NEW x, at[x][1] # t, NEW p
    PROVE  Moves(f, f, x, t, at[x], p)
  BY DEF Queues, Moves, Only

LEMMA QueuesOf ==
    ASSUME ConnTypes, NEW at, PlaceInv(at)
    PROVE  Queues(at, waitSend, "wait") /\ Queues(at, sendQ, "send") /\ Queues(at, datas, "data")
  BY DEF ConnTypes, PlaceInv, Queues, Holds

\* A call that has been made goes on.
LEMMA GoesOn ==
    ASSUME NEW at \in [Call -> Places], PlaceInv(at), NEW x \in Call, NEW p \in Places, n' = n,
           at[x][1] # "new", p[1] # "new",
           Only(taskQ', taskQ, x, <<"task", None>>, at[x], p),
           \/ thWait' = thWait /\ at[x] # <<"lock", None>>
           \/ thWait' # None => thWait'[2] = x /\ p = <<"lock", None>> /\ Care(x),
           Moves(waitSend', waitSend, x, "wait", at[x], p),
           Moves(sendQ', sendQ, x, "send", at[x], p),
           Moves(datas', datas, x, "data", at[x], p),
           \A k \in Conn : \A y \in wire'[k] : \/ y = x /\ p = <<"wire", k>> /\ Care(x)
                                               \/ y # x /\ y \in wire[k],
           \A k \in Conn : \/ decoding'[k] = decoding[k] /\ at[x] # <<"got", k>>
                           \/ decoding'[k] # None => decoding'[k] = x /\ p = <<"got", k>> /\ Care(x)
    PROVE  Goes(x, at[x], p)
<1>1. p[1] = "new" <=> x[2] > n'[x[1]]
  BY DEF PlaceInv
<1>2. \A k \in Conn : /\ Only(waitSend'[k], waitSend[k], x, <<"wait", k>>, at[x], p)
                      /\ Only(sendQ'[k], sendQ[k], x, <<"send", k>>, at[x], p)
                      /\ Only(datas'[k], datas[k], x, <<"data", k>>, at[x], p)
  BY DEF Moves
<1> QED  BY <1>1, <1>2 DEF Goes

\* A call that is not on the way from the server.
LEMMA OffWire ==
    ASSUME NEW at, PlaceInv(at), NEW x, at[x][1] \notin {"wire", "got"},
           UNCHANGED <<wire, decoding>>, NEW p
    PROVE  /\ \A k \in Conn : \A y \in wire'[k] : \/ y = x /\ p = <<"wire", k>> /\ Care(x)
                                                  \/ y # x /\ y \in wire[k]
           /\ \A k \in Conn : \/ decoding'[k] = decoding[k] /\ at[x] # <<"got", k>>
                              \/ decoding'[k] # None => decoding'[k] = x /\ p = <<"got", k>> /\ Care(x)
  BY DEF PlaceInv

\* Nothing happens to any call.
LEMMA CallSame ==
    ASSUME NEW at \in [Call -> Places], CallInv(at),
           UNCHANGED <<n, taskQ, thWait, waitSend, sendQ, datas, wire, decoding>>,
           UNCHANGED <<waiting, wakes, waitResult, io, doneRuns, connQ>>
    PROVE  \E b \in [Call -> Places] : CallInv(b)'
  BY PlaceSame, PlainSame, DoneInvSame DEF CallInv

-----------------------------------------------------------------------------
(* The calling thread.                                                     *)

LEMMA CallMethodStep ==
    ASSUME ClientInv, NEW c \in Caller, CallMethod(c)
    PROVE  ClientInv'
<1>0. PICK m : m = n[c]
  OBVIOUS
<1> DEFINE x == <<c, m + 1>>
           p == <<"task", None>>
<1>t. CallerTypes /\ QueueTypes /\ ConnTypes /\ DoneTypes /\ ConnInv /\ WakeInv
  BY DEF ClientInv, ClientTypes
<1>1. PICK at \in [Call -> Places] : CallInv(at)
  BY DEF ClientInv
<1>2. /\ ~waiting[c] /\ m < Len(Kind[c]) /\ n' = [n EXCEPT ![c] = m + 1]
      /\ waiting' = [waiting EXCEPT ![c] = Care(x)]
      /\ live' = live \cup {x} /\ taskQ' = Append(taskQ, x)
      /\ UNCHANGED <<result, late, wakes, connQ, slots, conIndex, dropped, connVars,
                     th, cr, ioVars, srvVars, doneRuns, hist>>
  BY <1>0 DEF CallMethod
<1>u. /\ UNCHANGED <<wakes, waitResult, io, doneRuns, connQ, st, cr>>
      /\ UNCHANGED <<thWait, waitSend, sendQ, datas, wire, decoding>>
  BY <1>2 DEF th, connVars, ioVars, srvVars
<1>3. x \in Call /\ m \in Nat /\ x[1] = c /\ x[2] = m + 1
  BY <1>0, <1>t, <1>2, NextCall DEF CallerTypes
<1>4. \A d \in Caller : /\ n'[d] = IF d = c THEN m + 1 ELSE n[d]
                        /\ waiting'[d] = IF d = c THEN Care(x) ELSE waiting[d]
  BY <1>t, <1>2 DEF CallerTypes
<1>5. CallerTypes'
  <2>1. n' \in [Caller -> Nat] /\ waiting' \in [Caller -> BOOLEAN]
    BY <1>t, <1>2, <1>3 DEF CallerTypes, Care
  <2>2. \A d \in Caller : n'[d] <= Len(Kind[d])
    <3>1. \A d \in Caller : Len(Kind[d]) \in Nat
      BY RpcClientAssumption
    <3> QED  BY <1>t, <1>2, <1>3, <1>4, <3>1 DEF CallerTypes
  <2> HIDE DEF x
  <2> QED  BY <1>t, <1>2, <1>3, <2>1, <2>2 DEF CallerTypes, srvVars, hist
<1>p. PlaceInv(at) /\ PlainInv(at) /\ DoneInv(at)
  BY <1>1 DEF CallInv
<1>x. x = <<c, m + 1>>
  OBVIOUS
<1>b. p \in Places /\ p[1] = "task" /\ p[1] \notin Sent /\ p = <<"task", None>>
  BY DEF Places, Sent
<1> HIDE DEF x, p
<1>a. at[x][1] = "new"
  BY <1>0, <1>3, <1>p DEF PlaceInv
<1>6. /\ taskQ' \in Seq(Call) /\ IsInjective(taskQ') /\ Range(taskQ') = Range(taskQ) \cup {x}
  <2>1. taskQ \in Seq(Call) /\ IsInjective(taskQ) /\ x \notin Range(taskQ)
    BY <1>t, <1>a, <1>p DEF QueueTypes, PlaceInv
  <2> QED  BY <1>2, <1>3, <2>1, AppendLink
<1>7. QueueTypes'
  BY <1>t, <1>2, <1>6 DEF QueueTypes
<1>8. ConnTypes' /\ DoneTypes' /\ ConnInv'
  BY <1>t, <1>2, ConnTypesSame, DoneSame, ConnSame DEF ioVars, srvVars, th
<1>9. \A y \in Call : WaitedFor(y) => y # x /\ WaitedFor(y)'
  BY <1>0, <1>2, <1>3, <1>4, CallFacts DEF WaitedFor
<1>10. WakeInv'
  <2>1. Woken \subseteq Call
    BY <1>t, WokenFacts
  <2>2. UNCHANGED <<wakes, waitResult>> /\ late' = late
    BY <1>2 DEF connVars
  <2> QED  BY <1>t, <1>9, <2>1, <2>2, WakeSame DEF WakeInv
<1>11. Goes(x, at[x], p)
  <2>1. \A y \in Call : y # x => (y[2] > n'[y[1]] <=> y[2] > n[y[1]])
    <3> TAKE y \in Call
    <3>1. y = <<y[1], y[2]>> /\ y[2] \in Nat /\ y[1] \in Caller
      BY CallFacts
    <3> QED  BY <1>0, <1>3, <1>4, <1>x, <3>1
  <2>2. p[1] = "new" <=> x[2] > n'[x[1]]
    BY <1>3, <1>4, <1>b
  <2>4. Only(taskQ', taskQ, x, <<"task", None>>, at[x], p)
    <3>1. x \notin Range(taskQ)
      BY <1>a, <1>p DEF PlaceInv
    <3> QED  BY <1>6, <1>b, <3>1 DEF Only
  <2>5. \A k \in Conn : \A y \in wire[k] : y # x
    BY <1>a, <1>p DEF PlaceInv
  <2> QED  BY <1>a, <1>u, <2>1, <2>2, <2>4, <2>5 DEF Goes, Only
<1>12. Keeps(x)
  <2>1. Woken' = Woken /\ UNCHANGED <<waitResult, io, doneRuns, connQ>>
    BY <1>u DEF Woken
  <2> QED  BY <1>9, <2>1 DEF Keeps, Finished
<1>13. Plain(x) => PlainOK(p, x)'
  <2>1. Woken' = Woken /\ UNCHANGED <<waitResult, io>>
    BY <1>u DEF Woken
  <2>2. Plain(x) => WaitedFor(x)'
    BY <1>3, <1>4 DEF Plain, Care, WaitedFor
  <2>3. Plain(x) => x \notin Woken /\ \A k \in Conn : waitResult[k][x[1]] # x
    BY <1>t, <1>p, <1>3, <1>9 DEF WakeInv, PlainInv, PlainOK
  <2> QED  BY <1>b, <2>1, <2>2, <2>3 DEF PlainOK
<1>14. ~Care(x) => DoneOK(p, x)'
  <2>2. ~Care(x) => doneRuns[x] = 0
    BY <1>3, <1>a, <1>p DEF DoneInv, DoneOK
  <2> QED  BY <1>u, <1>b, <2>2 DEF DoneOK
<1>15. \E b \in [Call -> Places] : CallInv(b)'
  BY <1>t, <1>1, <1>3, <1>b, <1>11, <1>12, <1>13, <1>14, CallMove
<1> QED  BY <1>5, <1>7, <1>8, <1>10, <1>15 DEF ClientInv, ClientTypes

\* CallMethod() returns in a coroutine: only its last call is waited for no more.
LEMMA ReturnFacts ==
    ASSUME CallerTypes, NEW c \in Caller, NEW r \in {"ok", "failed", "timeout"}, Return(c, r), n' = n
    PROVE  /\ waiting' \in [Caller -> BOOLEAN]
           /\ result' \in [Call -> {"none", "ok", "failed", "timeout"}]
           /\ live' \subseteq Call
           /\ \A y \in Call : WaitedFor(y) /\ y # <<c, n[c]>> => WaitedFor(y)'
<1>1. waiting' = [waiting EXCEPT ![c] = FALSE] /\ live' = live \ {Current(c)}
  BY DEF Return
<1>2. waiting' \in [Caller -> BOOLEAN] /\ \A d \in Caller : d # c => waiting'[d] = waiting[d]
  BY <1>1 DEF CallerTypes
<1>3. live' \subseteq Call
  BY <1>1 DEF CallerTypes
<1>4. result' \in [Call -> {"none", "ok", "failed", "timeout"}]
  BY DEF CallerTypes, Return
<1>5. ASSUME NEW y \in Call, WaitedFor(y), y # <<c, n[c]>>
      PROVE  WaitedFor(y)'
  <2>1. y = <<y[1], y[2]>> /\ y[1] \in Caller /\ n[y[1]] = y[2]
    BY <1>5, CallFacts DEF WaitedFor
  <2>2. y[1] # c
    BY <1>5, <2>1
  <2> QED  BY <1>2, <1>5, <2>1, <2>2 DEF WaitedFor
<1> QED  BY <1>2, <1>3, <1>4, <1>5

LEMMA ExpiresStep ==
    ASSUME ClientInv, NEW x \in Call, Expires(x)
    PROVE  ClientInv'
<1>t. CallerTypes /\ QueueTypes /\ ConnTypes /\ DoneTypes /\ ConnInv /\ WakeInv
  BY DEF ClientInv, ClientTypes
<1>1. PICK at \in [Call -> Places] : CallInv(at)
  BY DEF ClientInv
<1>u. /\ UNCHANGED <<n, taskQ, thWait, waitSend, sendQ, datas, wire, decoding, answered>>
      /\ UNCHANGED <<waiting, wakes, waitResult, io, doneRuns, connQ, st, cr, stray, result, live>>
      /\ UNCHANGED <<qVars, connVars, ioVars>> /\ late' = late \cup {x} /\ KindOf(x) = "timed"
  BY DEF Expires, th, connVars, ioVars, srvVars, qVars, hist
<1>2. CallerTypes'
  BY <1>t, <1>u DEF CallerTypes
<1>3. QueueTypes' /\ ConnTypes' /\ DoneTypes' /\ ConnInv'
  BY <1>t, <1>u, QueueSame, ConnTypesSame, DoneSame, ConnSame
<1>4. WakeInv'
  BY <1>t, <1>u, WakeSame DEF WakeInv, WaitedFor
<1>5. \E b \in [Call -> Places] : CallInv(b)'
  BY <1>1, <1>u, CallSame
<1> QED  BY <1>2, <1>3, <1>4, <1>5 DEF ClientInv, ClientTypes

LEMMA TimeoutStep ==
    ASSUME ClientInv, NEW c \in Caller, Timeout(c)
    PROVE  ClientInv'
<1>t. CallerTypes /\ QueueTypes /\ ConnTypes /\ DoneTypes /\ ConnInv /\ WakeInv
  BY DEF ClientInv, ClientTypes
<1>1. PICK at \in [Call -> Places] : CallInv(at)
  BY DEF ClientInv
<1>0. PICK x : x = <<c, n[c]>>
  OBVIOUS
<1>u. /\ UNCHANGED <<n, taskQ, thWait, waitSend, sendQ, datas, wire, decoding, answered>>
      /\ UNCHANGED <<wakes, waitResult, io, doneRuns, connQ, st, cr, stray, late>>
      /\ UNCHANGED <<qVars, connVars, ioVars>> /\ x \in late /\ Return(c, "timeout")
  BY <1>0 DEF Timeout, Current, th, connVars, ioVars, srvVars, qVars, hist
<1>2. x \in Call /\ ~Plain(x) /\ Care(x)
  BY <1>t, <1>u DEF CallerTypes, WakeInv, Plain, Care
<1>r. /\ waiting' \in [Caller -> BOOLEAN]
      /\ result' \in [Call -> {"none", "ok", "failed", "timeout"}]
      /\ live' \subseteq Call
      /\ \A y \in Call : WaitedFor(y) /\ y # x => WaitedFor(y)'
  BY <1>0, <1>t, <1>u, ReturnFacts
<1>3. CallerTypes'
  BY <1>t, <1>u, <1>r DEF CallerTypes
<1>4. QueueTypes' /\ ConnTypes' /\ DoneTypes' /\ ConnInv'
  BY <1>t, <1>u, QueueSame, ConnTypesSame, DoneSame, ConnSame
<1>5. WakeInv'
  <2>1. \A y \in Woken : Plain(y) /\ WaitedFor(y) => WaitedFor(y)'
    BY <1>t, <1>2, <1>r, WokenFacts
  <2> QED  BY <1>t, <1>u, <2>1, WakeSame DEF WakeInv
<1>6. Keeps(x)
  <2>1. Woken' = Woken
    BY <1>u DEF Woken
  <2> QED  BY <1>u, <1>r, <2>1 DEF Keeps, Finished
<1>7. \E b \in [Call -> Places] : CallInv(b)'
  BY <1>1, <1>2, <1>u, <1>6, CallStay
<1> QED  BY <1>3, <1>4, <1>5, <1>7 DEF ClientInv, ClientTypes

\* What is left of wakes when its first element is taken.
LEMMA WakesTail ==
    ASSUME CallerTypes, WakeInv, wakes # <<>>, wakes' = Tail(wakes), NEW x, x = Head(wakes).call
    PROVE  /\ x \in Woken /\ Head(wakes).failed \in BOOLEAN
           /\ wakes' \in Seq([call : Call, failed : BOOLEAN])
           /\ \A y \in Woken' : y \in Woken /\ (Plain(y) => y # x)
           /\ \A i, j \in DOMAIN wakes' :
                 wakes'[i].call = wakes'[j].call /\ Plain(wakes'[i].call) => i = j
<1> DEFINE E == [call : Call, failed : BOOLEAN]
           m == Len(wakes)
<1>1. wakes \in Seq(E)
  BY DEF CallerTypes
<1>2. \A i \in DOMAIN wakes : wakes[i].failed \in BOOLEAN
  BY WokenFacts
<1>3. \A i, j \in DOMAIN wakes : wakes[i].call = wakes[j].call /\ Plain(wakes[i].call) => i = j
  BY DEF WakeInv
<1> HIDE DEF E
<1>4. /\ m \in Nat \ {0} /\ DOMAIN wakes = 1 .. m /\ DOMAIN wakes' = 1 .. m - 1
      /\ \A i \in 1 .. m - 1 : wakes'[i] = wakes[i + 1] 
      /\ Head(wakes) = wakes[1] /\ wakes' \in Seq(E)
  BY <1>1
<1> HIDE DEF m
<1>5. 1 \in 1 .. m /\ \A i \in 1 .. m - 1 : i + 1 \in 1 .. m /\ i + 1 # 1
  BY <1>4
<1>6. x \in Woken /\ Head(wakes).failed \in BOOLEAN
  BY <1>2, <1>4, <1>5 DEF Woken
<1>7. \A y \in Woken' : y \in Woken /\ (Plain(y) => y # x)
  BY <1>3, <1>4, <1>5 DEF Woken
<1>8. \A i, j \in DOMAIN wakes' :
         wakes'[i].call = wakes'[j].call /\ Plain(wakes'[i].call) => i = j
  <2> TAKE i, j \in DOMAIN wakes'
  <2>1. i \in 1 .. m - 1 /\ j \in 1 .. m - 1 /\ i + 1 \in 1 .. m /\ j + 1 \in 1 .. m
    BY <1>4, <1>5
  <2>2. wakes'[i] = wakes[i + 1] /\ wakes'[j] = wakes[j + 1]
    BY <1>4, <2>1
  <2>3. wakes'[i].call = wakes'[j].call /\ Plain(wakes'[i].call) => i + 1 = j + 1
    BY <1>3, <1>4, <2>1, <2>2
  <2> QED  BY <2>1, <2>3
<1> QED  BY <1>4, <1>6, <1>7, <1>8 DEF E

LEMMA ResumeStep ==
    ASSUME ClientInv, Resume
    PROVE  ClientInv'
<1>t. CallerTypes /\ QueueTypes /\ ConnTypes /\ DoneTypes /\ ConnInv /\ WakeInv
  BY DEF ClientInv, ClientTypes
<1>1. PICK at \in [Call -> Places] : CallInv(at)
  BY DEF ClientInv
<1>0. PICK x : x = Head(wakes).call
  OBVIOUS
<1>u. /\ UNCHANGED <<n, taskQ, thWait, waitSend, sendQ, datas, wire, decoding, answered>>
      /\ UNCHANGED <<waitResult, io, doneRuns, connQ, st, cr, late>>
      /\ UNCHANGED <<qVars, connVars, ioVars>> /\ wakes # <<>> /\ wakes' = Tail(wakes)
  BY DEF Resume, th, connVars, ioVars, srvVars, qVars
<1>w. /\ x \in Woken /\ Head(wakes).failed \in BOOLEAN
      /\ wakes' \in Seq([call : Call, failed : BOOLEAN])
      /\ \A y \in Woken' : y \in Woken /\ (Plain(y) => y # x)
      /\ \A i, j \in DOMAIN wakes' :
            wakes'[i].call = wakes'[j].call /\ Plain(wakes'[i].call) => i = j
  BY <1>0, <1>t, <1>u, WakesTail
<1>2. x \in Call /\ Care(x) /\ (Plain(x) => WaitedFor(x))
  BY <1>t, <1>w, WokenFacts DEF WakeInv
<1>x. x = <<x[1], x[2]>> /\ x[1] \in Caller /\ KindOf(x) \in {"plain", "timed", "oneway"}
  BY <1>2, CallFacts
\* The coroutine is resumed, and waits for x; or nothing happens.
<1>3. /\ waiting' \in [Caller -> BOOLEAN] /\ stray' = FALSE
      /\ result' \in [Call -> {"none", "ok", "failed", "timeout"}]
      /\ live' \subseteq Call
      /\ \A y \in Call : WaitedFor(y) /\ y # x => WaitedFor(y)'
  <2>1. CASE /\ Resumed(x) /\ Return(x[1], IF Head(wakes).failed THEN "failed" ELSE "ok")
             /\ stray' = (stray \/ ~waiting[x[1]] \/ Current(x[1]) # x)
    <3>1. WaitedFor(x)
      BY <1>2, <1>x, <2>1 DEF Resumed, Plain, Care, WaitedFor, Current
    <3>2. x = <<x[1], n[x[1]]>> /\ waiting[x[1]]
      BY <1>x, <3>1 DEF WaitedFor
    <3>3. stray' = FALSE
      BY <1>t, <2>1, <3>2 DEF CallerTypes, Current
    <3>4. PICK r \in {"ok", "failed", "timeout"} : Return(x[1], r)
      BY <2>1
    <3> QED  BY <1>t, <1>u, <1>x, <3>2, <3>3, <3>4, ReturnFacts
  <2>2. CASE UNCHANGED <<waiting, result, live, stray>>
    BY <1>t, <1>u, <2>2 DEF CallerTypes, WaitedFor
  <2> QED  BY <1>0, <2>1, <2>2 DEF Resume
<1>4. CallerTypes'
  BY <1>t, <1>u, <1>w, <1>3 DEF CallerTypes
<1>5. QueueTypes' /\ ConnTypes' /\ DoneTypes' /\ ConnInv'
  BY <1>t, <1>u, QueueSame, ConnTypesSame, DoneSame, ConnSame
<1>6. WakeInv'
  <2>1. \A y \in Woken' : y \in Call /\ Care(y) /\ (Plain(y) => WaitedFor(y)')
    BY <1>t, <1>w, <1>3, WokenFacts DEF WakeInv
  <2> QED  BY <1>t, <1>u, <1>w, <2>1 DEF WakeInv
<1>7. Keeps(x)
  BY <1>u, <1>w, <1>3 DEF Keeps, Finished
<1>8. Plain(x) => PlainOK(at[x], x)'
  <2>1. Plain(x) => PlainOK(at[x], x)
    BY <1>1, <1>2 DEF CallInv, PlainInv
  <2> QED  BY <1>u, <1>w, <2>1 DEF PlainOK
<1>9. \E b \in [Call -> Places] : CallInv(b)'
  BY <1>1, <1>2, <1>u, <1>7, <1>8, CallStay
<1> QED  BY <1>4, <1>5, <1>6, <1>9 DEF ClientInv, ClientTypes

-----------------------------------------------------------------------------
(* taskHandleRoutine.                                                      *)

LEMMA TaskFacts ==
    ASSUME QueueTypes, ConnTypes, NEW at \in [Call -> Places], PlaceInv(at), NEW x, TakeTask(x)
    PROVE  /\ x \in Call /\ at[x] = <<"task", None>> /\ thWait = None
           /\ taskQ' \in Seq(Call) /\ conIndex' \in Nat
           /\ \A p : Only(taskQ', taskQ, x, <<"task", None>>, at[x], p)
           /\ NextIndex \in DOMAIN slots
           /\ NextStatus # "CLOSED" => NextSlot \in Conn /\ st[NextSlot] = NextStatus
<1>1. taskQ \in Seq(Call) /\ Holds(at, taskQ, <<"task", None>>)
  BY DEF QueueTypes, PlaceInv, Holds
<1>2. taskQ # <<>> /\ x = Head(taskQ) /\ taskQ' = Tail(taskQ) /\ slots # <<>> /\ thWait = None
      /\ conIndex' = NextIndex
  BY DEF TakeTask
<1>3. /\ x \in Call /\ at[x] = <<"task", None>> /\ taskQ' \in Seq(Call)
      /\ \A p : Only(taskQ', taskQ, x, <<"task", None>>, at[x], p)
  BY <1>1, <1>2, HeadOut
<1>4. slots \in Seq(Conn \cup {None}) /\ Len(slots) \in Nat \ {0} /\ DOMAIN slots = 1 .. Len(slots)
  BY <1>2 DEF QueueTypes
<1>5. conIndex % Len(slots) \in 0 .. Len(slots) - 1
  BY <1>4 DEF QueueTypes
<1>6. NextIndex \in DOMAIN slots /\ NextIndex \in Nat
  BY <1>4, <1>5 DEF NextIndex
<1>7. NextSlot \in Conn \cup {None}
  BY <1>4, <1>6 DEF NextSlot
<1> QED  BY <1>2, <1>3, <1>6, <1>7 DEF NextStatus

\* What is known of a call without a timeout that taskHandleRoutine has.
LEMMA TaskPlain ==
    ASSUME NEW at, PlainInv(at), NEW x \in Call, at[x][1] \in {"task", "lock", "wait"}, Plain(x)
    PROVE  WaitedFor(x) /\ x \notin Woken /\ \A k \in Conn : waitResult[k][x[1]] # x
  BY DEF PlainInv, PlainOK

\* The call is still to be sent, so that done has not run.
LEMMA UnsentDone ==
    ASSUME NEW at, DoneInv(at), NEW x \in Call, at[x][1] \in {"new", "task", "wait", "send"}, ~Care(x)
    PROVE  doneRuns[x] = 0
  BY DEF DoneInv, DoneOK

LEMMA TaskConnectsStep ==
    ASSUME ClientInv, NEW x \in Call, TaskConnects(x)
    PROVE  ClientInv'
<1>t. CallerTypes /\ QueueTypes /\ ConnTypes /\ DoneTypes /\ ConnInv /\ WakeInv
  BY DEF ClientInv, ClientTypes
<1>1. PICK at \in [Call -> Places] : CallInv(at)
  BY DEF ClientInv
<1>p. PlaceInv(at) /\ PlainInv(at) /\ DoneInv(at)
  BY <1>1 DEF CallInv
<1>2. PICK k \in Conn :
          /\ st[k] = "unused"
          /\ slots' = [slots EXCEPT ![NextIndex] = k]
          /\ st' = [st EXCEPT ![k] = "CONNECTING"]
          /\ connQ' = Append(connQ, [type |-> "CONNECT", conn |-> k])
          /\ waitSend' = [waitSend EXCEPT ![k] = Append(@, x)]
  BY DEF TaskConnects
<1>u. /\ UNCHANGED <<n, waiting, result, live, late, wakes, dropped, waitResult, cr>>
      /\ UNCHANGED <<io, sendQ, datas, wire, answered, decoding, doneRuns, stray, thWait>>
      /\ TakeTask(x)
  BY DEF TaskConnects, TaskAtOnce, callVars, ioVars, srvVars, hist
<1>f. /\ at[x] = <<"task", None>> /\ taskQ' \in Seq(Call) /\ conIndex' \in Nat
      /\ \A p : Only(taskQ', taskQ, x, <<"task", None>>, at[x], p)
      /\ NextIndex \in DOMAIN slots
  BY <1>t, <1>p, <1>u, TaskFacts
<1>c. CallerTypes' /\ DoneTypes'
  BY <1>t, <1>u DEF CallerTypes, DoneTypes
<1>q. /\ connQ' \in Seq([type : {"CONNECT", "CLOSE"}, conn : Conn])
      /\ IsInjective(connQ') /\ Range(connQ') = Range(connQ) \cup {ConnectOf(k)}
  <2> DEFINE T == [type : {"CONNECT", "CLOSE"}, conn : Conn]
  <2>1. connQ \in Seq(T) /\ IsInjective(connQ)
    BY <1>t DEF QueueTypes, ConnInv
  <2>2. ConnectOf(k) \in T /\ ConnectOf(k) \notin Range(connQ)
    BY <1>t, <1>2 DEF ConnInv, ConnectOf
  <2>3. connQ' = Append(connQ, ConnectOf(k))
    BY <1>2 DEF ConnectOf
  <2> HIDE DEF T
  <2>4. /\ connQ' \in Seq(T) /\ IsInjective(connQ') /\ Range(connQ') = Range(connQ) \cup {ConnectOf(k)}
    BY <2>1, <2>2, <2>3, AppendLink
  <2> QED  BY <2>4 DEF T
<1>3. QueueTypes'
  <2>1. slots' \in Seq(Conn \cup {None})
    BY <1>t, <1>2, <1>f DEF QueueTypes
  <2> QED  BY <1>t, <1>u, <1>f, <1>q, <2>1 DEF QueueTypes
<1>m. Moves(waitSend', waitSend, x, "wait", at[x], <<"wait", k>>)
  <2>1. Queues(at, waitSend, "wait") /\ at[x][1] # "wait"
    BY <1>t, <1>p, <1>f, QueuesOf
  <2>2. waitSend' = [waitSend EXCEPT ![k] = Append(@, x)]
    BY <1>2
  <2> QED  BY <2>1, <2>2, QueueIn
<1>4. ConnTypes'
  <2>1. st' \in [Conn -> {"unused", "CONNECTING", "CONNECTED", "CLOSED"}]
    BY <1>t, <1>2 DEF ConnTypes
  <2> QED  BY <1>t, <1>u, <1>m, <2>1 DEF ConnTypes, Moves
<1>s. st'[k] = "CONNECTING" /\ \A j \in Conn : j # k => st'[j] = st[j] /\ waitSend'[j] = waitSend[j]
  BY <1>t, <1>2 DEF ConnTypes
<1>5. ConnInv'
  <2>1. \A j \in Conn : CloseOf(j) # ConnectOf(k) /\ (ConnectOf(j) = ConnectOf(k) => j = k)
    BY DEF CloseOf, ConnectOf
  <2>2. \A j \in Conn : CloseOf(j) \in Range(connQ') => io'[j] = "closed"
    BY <1>t, <1>u, <1>q, <2>1 DEF ConnInv
  <2>3. \A j \in Conn : ConnectOf(j) \in Range(connQ') => st'[j] = "CONNECTING" /\ ~IsAt("connect", j)'
    BY <1>t, <1>2, <1>u, <1>q, <1>s, <2>1 DEF ConnInv, IsAt
  <2>4. /\ cr'.at # "idle" => cr'.conn \in Conn
        /\ cr'.at = "connect" => st'[cr'.conn] = "CONNECTING"
        /\ cr'.at \in {"drain", "drainLock"} => io'[cr'.conn] # "new"
        /\ thWait' # None => io'[thWait'[1]] # "new"
    BY <1>t, <1>u, <1>s DEF ConnInv
  <2>5. \A j \in Conn : st'[j] \in {"unused", "CONNECTING"} => io'[j] = "new"
    BY <1>t, <1>u, <1>s, <1>2 DEF ConnInv
  <2>6. \A j \in Conn : st'[j] = "CONNECTED" => io'[j] # "new"
    BY <1>t, <1>u, <1>s DEF ConnInv
  <2>7. \A j \in Conn : waitSend'[j] # <<>> => st'[j] = "CONNECTING" \/ Draining(j)'
    BY <1>t, <1>u, <1>s DEF ConnInv, Draining
  <2>8. /\ \A j \in Conn : io'[j] = "closed" => decoding'[j] = None
        /\ \A j \in Conn : io'[j] = "new" => \A c \in Caller : waitResult'[j][c] = None
    BY <1>t, <1>u DEF ConnInv
  <2> QED  BY <1>q, <2>2, <2>3, <2>4, <2>5, <2>6, <2>7, <2>8 DEF ConnInv
<1>6. WakeInv'
  BY <1>t, <1>u, WakeSame DEF WakeInv, WaitedFor
<1> DEFINE p == <<"wait", k>>
<1>b. p \in Places /\ p[1] = "wait" /\ p = <<"wait", k>>
  BY DEF Places
<1> HIDE DEF p
<1>7. Goes(x, at[x], p)
  <2>1. /\ Moves(sendQ', sendQ, x, "send", at[x], p)
        /\ Moves(datas', datas, x, "data", at[x], p)
    <3>1. Queues(at, sendQ, "send") /\ Queues(at, datas, "data")
      BY <1>t, <1>p, QueuesOf
    <3>2. at[x][1] # "send" /\ at[x][1] # "data" /\ sendQ' = sendQ /\ datas' = datas
      BY <1>f, <1>u
    <3> QED  BY <3>1, <3>2, QueueSameMoves
  <2>2. n' = n /\ at[x][1] # "new" /\ p[1] # "new" /\ thWait' = thWait /\ at[x] # <<"lock", None>>
    BY <1>u, <1>f, <1>b
  <2>3. at[x][1] \notin {"wire", "got"} /\ UNCHANGED <<wire, decoding>>
    BY <1>u, <1>f
  <2>4. Only(taskQ', taskQ, x, <<"task", None>>, at[x], p)
    BY <1>f
  <2>5. Moves(waitSend', waitSend, x, "wait", at[x], p)
    BY <1>m, <1>b
  <2> QED  BY <1>1, <1>p, <1>b, <2>1, <2>2, <2>3, <2>4, <2>5, GoesOn, OffWire
<1>w. Woken' = Woken /\ \A y \in Call : WaitedFor(y)' <=> WaitedFor(y)
  BY <1>u DEF Woken, WaitedFor
<1>8. Keeps(x)
  <2>1. \A j \in Conn : Finished(j) => Finished(j)'
    BY <1>u, <1>q DEF Finished, CloseOf, ConnectOf
  <2> QED  BY <1>u, <1>w, <2>1 DEF Keeps
<1>9. Plain(x) => PlainOK(p, x)'
  <2>1. Plain(x) => WaitedFor(x) /\ x \notin Woken /\ \A j \in Conn : waitResult[j][x[1]] # x
    BY <1>p, <1>f, TaskPlain
  <2> QED  BY <1>b, <1>u, <1>w, <2>1 DEF PlainOK, Sent
<1>10. ~Care(x) => DoneOK(p, x)'
  <2>1. ~Care(x) => doneRuns[x] = 0
    BY <1>p, <1>f, UnsentDone
  <2> QED  BY <1>u, <2>1 DEF DoneOK
<1>11. \E b \in [Call -> Places] : CallInv(b)'
  BY <1>t, <1>1, <1>b, <1>7, <1>8, <1>9, <1>10, CallMove
<1> QED  BY <1>c, <1>3, <1>4, <1>5, <1>6, <1>11 DEF ClientInv, ClientTypes

LEMMA TaskWaitsStep ==
    ASSUME ClientInv, NEW x \in Call, TaskWaits(x)
    PROVE  ClientInv'
<1>t. CallerTypes /\ QueueTypes /\ ConnTypes /\ DoneTypes /\ ConnInv /\ WakeInv
  BY DEF ClientInv, ClientTypes
<1>1. PICK at \in [Call -> Places] : CallInv(at)
  BY DEF ClientInv
<1>p. PlaceInv(at) /\ PlainInv(at) /\ DoneInv(at)
  BY <1>1 DEF CallInv
<1>0. PICK k : k = NextSlot
  OBVIOUS
<1>u. /\ UNCHANGED <<n, waiting, result, live, late, wakes, dropped, waitResult, cr, connQ, slots, st>>
      /\ UNCHANGED <<io, sendQ, datas, wire, answered, decoding, doneRuns, stray, thWait>>
      /\ TakeTask(x) /\ NextStatus = "CONNECTING" /\ waitSend' = [waitSend EXCEPT ![k] = Append(@, x)]
  BY <1>0 DEF TaskWaits, TaskAtOnce, callVars, ioVars, srvVars, hist
<1>f. /\ at[x] = <<"task", None>> /\ taskQ' \in Seq(Call) /\ conIndex' \in Nat
      /\ \A p : Only(taskQ', taskQ, x, <<"task", None>>, at[x], p)
      /\ k \in Conn /\ st[k] = "CONNECTING"
  BY <1>0, <1>t, <1>p, <1>u, TaskFacts
<1>c. CallerTypes' /\ QueueTypes' /\ DoneTypes'
  BY <1>t, <1>u, <1>f DEF CallerTypes, QueueTypes, DoneTypes
<1>m. Moves(waitSend', waitSend, x, "wait", at[x], <<"wait", k>>)
  <2>1. Queues(at, waitSend, "wait") /\ at[x][1] # "wait" /\ k \in Conn
    BY <1>t, <1>p, <1>f, QueuesOf
  <2>2. waitSend' = [waitSend EXCEPT ![k] = Append(@, x)]
    BY <1>u
  <2> QED  BY <2>1, <2>2, QueueIn
<1>4. ConnTypes'
  BY <1>t, <1>u, <1>m DEF ConnTypes, Moves
<1>5. ConnInv'
  <2>1. \A j \in Conn : j # k => waitSend'[j] = waitSend[j]
    BY <1>t, <1>u DEF ConnTypes
  <2> QED  BY <1>t, <1>u, <1>f, <2>1 DEF ConnInv, Draining, IsAt
<1>6. WakeInv'
  BY <1>t, <1>u, WakeSame DEF WakeInv, WaitedFor
<1> DEFINE p == <<"wait", k>>
<1>b. p \in Places /\ p[1] = "wait" /\ p = <<"wait", k>>
  BY <1>f DEF Places
<1> HIDE DEF p
<1>7. Goes(x, at[x], p)
  <2>1. /\ Moves(sendQ', sendQ, x, "send", at[x], p)
        /\ Moves(datas', datas, x, "data", at[x], p)
    <3>1. Queues(at, sendQ, "send") /\ Queues(at, datas, "data")
      BY <1>t, <1>p, QueuesOf
    <3>2. at[x][1] # "send" /\ at[x][1] # "data" /\ sendQ' = sendQ /\ datas' = datas
      BY <1>f, <1>u
    <3> QED  BY <3>1, <3>2, QueueSameMoves
  <2>2. n' = n /\ at[x][1] # "new" /\ p[1] # "new" /\ thWait' = thWait /\ at[x] # <<"lock", None>>
    BY <1>u, <1>f, <1>b
  <2>3. at[x][1] \notin {"wire", "got"} /\ UNCHANGED <<wire, decoding>>
    BY <1>u, <1>f
  <2>4. Only(taskQ', taskQ, x, <<"task", None>>, at[x], p)
    BY <1>f
  <2>5. Moves(waitSend', waitSend, x, "wait", at[x], p)
    BY <1>m, <1>b
  <2> QED  BY <1>1, <1>p, <1>b, <2>1, <2>2, <2>3, <2>4, <2>5, GoesOn, OffWire
<1>w. Woken' = Woken /\ \A y \in Call : WaitedFor(y)' <=> WaitedFor(y)
  BY <1>u DEF Woken, WaitedFor
<1>8. Keeps(x)
  BY <1>u, <1>w DEF Keeps, Finished
<1>9. Plain(x) => PlainOK(p, x)'
  <2>1. Plain(x) => WaitedFor(x) /\ x \notin Woken /\ \A j \in Conn : waitResult[j][x[1]] # x
    BY <1>p, <1>f, TaskPlain
  <2> QED  BY <1>b, <1>u, <1>w, <2>1 DEF PlainOK, Sent
<1>10. ~Care(x) => DoneOK(p, x)'
  <2>1. ~Care(x) => doneRuns[x] = 0
    BY <1>p, <1>f, UnsentDone
  <2> QED  BY <1>u, <2>1 DEF DoneOK
<1>11. \E b \in [Call -> Places] : CallInv(b)'
  BY <1>t, <1>1, <1>b, <1>7, <1>8, <1>9, <1>10, CallMove
<1> QED  BY <1>c, <1>4, <1>5, <1>6, <1>11 DEF ClientInv, ClientTypes

\* At most x, on k, is added to the calls that wait for a result.
Awaits(k, x) ==
    \A j \in Conn, c \in Caller :
        \/ waitResult'[j][c] = waitResult[j][c]
        \/ j = k /\ c = x[1] /\ waitResult'[j][c] = x /\ Care(x)

LEMMA AwaitFacts ==
    ASSUME ConnTypes, NEW k \in Conn, NEW x \in Call,
           waitResult' = waitResult \/ (Care(x) /\ AwaitResult(k, x))
    PROVE  waitResult' \in [Conn -> [Caller -> Call \cup {None}]] /\ Awaits(k, x)
<1>1. waitResult \in [Conn -> [Caller -> Call \cup {None}]] /\ x[1] \in Caller
  BY CallFacts DEF ConnTypes
<1>2. CASE waitResult' = waitResult
  BY <1>1, <1>2 DEF Awaits
<1>3. CASE Care(x) /\ AwaitResult(k, x)
  BY <1>1, <1>3 DEF Awaits, AwaitResult
<1> QED  BY <1>2, <1>3

LEMMA WakeAwait ==
    ASSUME WakeInv, NEW k \in Conn, NEW x \in Call, Awaits(k, x),
           UNCHANGED <<n, waiting, late, wakes>>
    PROVE  WakeInv'
<1>1. Woken' = Woken /\ \A y : WaitedFor(y)' <=> WaitedFor(y)
  BY DEF Woken, WaitedFor
<1>2. ASSUME NEW j \in Conn, NEW c \in Caller, waitResult'[j][c] # None
      PROVE  waitResult'[j][c][1] = c /\ Care(waitResult'[j][c])
  <2>1. CASE waitResult'[j][c] = waitResult[j][c]
    BY <1>2, <2>1 DEF WakeInv
  <2>2. CASE c = x[1] /\ waitResult'[j][c] = x /\ Care(x)
    BY <2>2
  <2> QED  BY <2>1, <2>2 DEF Awaits
<1> QED  BY <1>1, <1>2 DEF WakeInv

LEMMA ConnAwait ==
    ASSUME ConnInv, NEW k \in Conn, NEW x \in Call, Awaits(k, x), io[k] # "new",
           UNCHANGED <<st, connQ, io, cr, decoding, waitSend>>, thWait' \in {thWait, None}
    PROVE  ConnInv'
<1>1. \A j \in Conn : io'[j] = "new" => \A c \in Caller : waitResult'[j][c] = None
  BY DEF ConnInv, Awaits
<1>2. thWait' # None => io'[thWait'[1]] # "new"
  BY DEF ConnInv
<1> QED  BY <1>1, <1>2 DEF ConnInv, Draining, IsAt

\* A call of the client's thread is submitted to the sender of k.
LEMMA SendMove ==
    ASSUME QueueTypes, ConnTypes, WakeInv, NEW at \in [Call -> Places], CallInv(at),
           NEW x \in Call, NEW k \in Conn, at[x][1] \in {"task", "lock", "wait"},
           at[x][1] = "lock" => Care(x), Awaits(k, x), Submit(k, x),
           UNCHANGED <<n, waiting, wakes, io, doneRuns, connQ>>,
           UNCHANGED <<datas, wire, decoding>>,
           Only(taskQ', taskQ, x, <<"task", None>>, at[x], <<"send", k>>),
           (thWait' = thWait /\ at[x] # <<"lock", None>>) \/ thWait' = None,
           Moves(waitSend', waitSend, x, "wait", at[x], <<"send", k>>)
    PROVE  sendQ' \in [Conn -> Seq(Call)] /\ \E b \in [Call -> Places] : CallInv(b)'
<1>p. PlaceInv(at) /\ PlainInv(at) /\ DoneInv(at)
  BY DEF CallInv
<1> DEFINE p == <<"send", k>>
<1>b. p \in Places /\ p[1] = "send" /\ p[2] = k /\ p = <<"send", k>>
  BY DEF Places
<1> HIDE DEF p
<1>q. Queues(at, sendQ, "send") /\ Queues(at, datas, "data")
  BY <1>p, QueuesOf
<1>1. Moves(sendQ', sendQ, x, "send", at[x], p)
  <2>1. sendQ' = [sendQ EXCEPT ![k] = Append(@, x)] /\ at[x][1] # "send"
    BY DEF Submit
  <2>2. Moves(sendQ', sendQ, x, "send", at[x], <<"send", k>>)
    BY <1>q, <2>1, QueueIn
  <2> QED  BY <1>b, <2>2
<1>2. Goes(x, at[x], p)
  <2>1. Moves(datas', datas, x, "data", at[x], p)
    <3>1. datas' = datas /\ at[x][1] # "data"
      OBVIOUS
    <3> QED  BY <1>q, <3>1, QueueSameMoves
  <2>2. n' = n /\ at[x][1] # "new" /\ p[1] # "new"
    BY <1>b
  <2>3. at[x][1] \notin {"wire", "got"} /\ UNCHANGED <<wire, decoding>>
    OBVIOUS
  <2>4. Only(taskQ', taskQ, x, <<"task", None>>, at[x], p)
    BY <1>b
  <2>5. Moves(waitSend', waitSend, x, "wait", at[x], p)
    BY <1>b
  <2>6. \/ thWait' = thWait /\ at[x] # <<"lock", None>>
        \/ thWait' # None => thWait'[2] = x /\ p = <<"lock", None>> /\ Care(x)
    OBVIOUS
  <2> QED  BY <1>p, <1>b, <1>1, <2>1, <2>2, <2>3, <2>4, <2>5, <2>6, GoesOn, OffWire
<1>w. Woken' = Woken /\ \A y \in Call : WaitedFor(y)' <=> WaitedFor(y)
  BY DEF Woken, WaitedFor
<1>a. \A y \in Call, j \in Conn : waitResult'[j][y[1]] = y =>
         waitResult[j][y[1]] = y \/ (y = x /\ j = k)
  BY CallFacts DEF Awaits
<1>3. Keeps(x)
  BY <1>w, <1>a DEF Keeps, Finished
<1>4. Plain(x) => PlainOK(p, x)'
  <2>1. Plain(x) => WaitedFor(x) /\ x \notin Woken /\ \A j \in Conn : waitResult[j][x[1]] # x
    BY <1>p, TaskPlain
  <2> QED  BY <1>b, <1>w, <1>a, <2>1 DEF PlainOK, Sent
<1>5. ~Care(x) => DoneOK(p, x)'
  <2>1. ~Care(x) => doneRuns[x] = 0
    BY <1>p, UnsentDone
  <2> QED  BY <2>1 DEF DoneOK
<1> QED  BY <1>b, <1>1, <1>2, <1>3, <1>4, <1>5, CallMove DEF Moves

LEMMA TaskSendsStep ==
    ASSUME ClientInv, NEW x \in Call, TaskSends(x)
    PROVE  ClientInv'
<1>t. CallerTypes /\ QueueTypes /\ ConnTypes /\ DoneTypes /\ ConnInv /\ WakeInv
  BY DEF ClientInv, ClientTypes
<1>1. PICK at \in [Call -> Places] : CallInv(at)
  BY DEF ClientInv
<1>p. PlaceInv(at)
  BY <1>1 DEF CallInv
<1>0. PICK k : k = NextSlot
  OBVIOUS
<1>u. /\ UNCHANGED <<n, waiting, result, live, late, wakes, dropped, cr, connQ, slots, st, waitSend>>
      /\ UNCHANGED <<io, datas, wire, answered, decoding, doneRuns, stray, thWait>>
      /\ TakeTask(x) /\ NextStatus = "CONNECTED" /\ Submit(k, x)
      /\ waitResult' = waitResult \/ (Care(x) /\ AwaitResult(k, x))
  BY <1>0 DEF TaskSends, TaskAtOnce, callVars, srvVars, hist
<1>f. /\ at[x] = <<"task", None>> /\ taskQ' \in Seq(Call) /\ conIndex' \in Nat
      /\ \A p : Only(taskQ', taskQ, x, <<"task", None>>, at[x], p)
      /\ k \in Conn /\ st[k] = "CONNECTED"
  BY <1>0, <1>t, <1>p, <1>u, TaskFacts
<1>c. CallerTypes' /\ QueueTypes' /\ DoneTypes'
  BY <1>t, <1>u, <1>f DEF CallerTypes, QueueTypes, DoneTypes
<1>a. waitResult' \in [Conn -> [Caller -> Call \cup {None}]] /\ Awaits(k, x)
  BY <1>t, <1>u, <1>f, AwaitFacts
<1>n. io[k] # "new"
  BY <1>t, <1>f DEF ConnInv
<1>2. ConnInv' /\ WakeInv'
  BY <1>t, <1>u, <1>f, <1>a, <1>n, ConnAwait, WakeAwait
<1>3. sendQ' \in [Conn -> Seq(Call)] /\ \E b \in [Call -> Places] : CallInv(b)'
  <2>1. Moves(waitSend', waitSend, x, "wait", at[x], <<"send", k>>)
    <3>1. Queues(at, waitSend, "wait") /\ waitSend' = waitSend /\ at[x][1] # "wait"
      BY <1>t, <1>p, <1>u, <1>f, QueuesOf
    <3> QED  BY <3>1, QueueSameMoves
  <2>2. at[x][1] \in {"task", "lock", "wait"} /\ at[x][1] # "lock" /\ at[x] # <<"lock", None>>
    BY <1>f
  <2> QED  BY <1>t, <1>1, <1>u, <1>f, <1>a, <2>1, <2>2, SendMove
<1>4. ConnTypes'
  BY <1>t, <1>u, <1>a, <1>3 DEF ConnTypes
<1> QED  BY <1>c, <1>2, <1>3, <1>4 DEF ClientInv, ClientTypes

LEMMA TaskLockedStep ==
    ASSUME ClientInv, TaskLocked
    PROVE  ClientInv'
<1>t. CallerTypes /\ QueueTypes /\ ConnTypes /\ DoneTypes /\ ConnInv /\ WakeInv
  BY DEF ClientInv, ClientTypes
<1>1. PICK at \in [Call -> Places] : CallInv(at)
  BY DEF ClientInv
<1>p. PlaceInv(at)
  BY <1>1 DEF CallInv
<1>0. PICK k, x : k = thWait[1] /\ x = thWait[2]
  OBVIOUS
<1>u. /\ UNCHANGED <<n, waiting, result, live, late, wakes, qVars, cr, st, waitSend>>
      /\ UNCHANGED <<io, datas, wire, answered, decoding, doneRuns, stray, connQ, taskQ>>
      /\ thWait # None /\ thWait' = None /\ Submit(k, x) /\ AwaitResult(k, x)
  BY <1>0 DEF TaskLocked, callVars, srvVars, hist, qVars
<1>f. k \in Conn /\ x \in Call /\ at[x] = <<"lock", None>> /\ Care(x) /\ io[k] # "new"
  BY <1>0, <1>t, <1>p, <1>u DEF ConnTypes, PlaceInv, ConnInv
<1>c. CallerTypes' /\ QueueTypes' /\ DoneTypes'
  BY <1>t, <1>u, QueueSame DEF CallerTypes, DoneTypes
<1>a. waitResult' \in [Conn -> [Caller -> Call \cup {None}]] /\ Awaits(k, x)
  BY <1>t, <1>u, <1>f, AwaitFacts
<1>2. ConnInv' /\ WakeInv'
  BY <1>t, <1>u, <1>f, <1>a, ConnAwait, WakeAwait
<1>3. sendQ' \in [Conn -> Seq(Call)] /\ \E b \in [Call -> Places] : CallInv(b)'
  <2>1. Moves(waitSend', waitSend, x, "wait", at[x], <<"send", k>>)
    <3>1. Queues(at, waitSend, "wait") /\ waitSend' = waitSend /\ at[x][1] # "wait"
      BY <1>t, <1>p, <1>u, <1>f, QueuesOf
    <3> QED  BY <3>1, QueueSameMoves
  <2>2. at[x][1] \in {"task", "lock", "wait"} /\ at[x] # <<"task", None>>
    BY <1>f
  <2>3. Only(taskQ', taskQ, x, <<"task", None>>, at[x], <<"send", k>>)
    BY <1>u, <2>2 DEF Only
  <2> QED  BY <1>t, <1>1, <1>u, <1>f, <1>a, <2>1, <2>2, <2>3, SendMove
<1>4. ConnTypes'
  BY <1>t, <1>u, <1>a, <1>3 DEF ConnTypes
<1> QED  BY <1>c, <1>2, <1>3, <1>4 DEF ClientInv, ClientTypes

\* A task is dropped, or waits with taskHandleRoutine for the mutex.
LEMMA TaskKept ==
    ASSUME ClientInv, NEW x \in Call, TaskExpired(x) \/ TaskLock(x)
    PROVE  ClientInv'
<1>t. CallerTypes /\ QueueTypes /\ ConnTypes /\ DoneTypes /\ ConnInv /\ WakeInv
  BY DEF ClientInv, ClientTypes
<1>1. PICK at \in [Call -> Places] : CallInv(at)
  BY DEF ClientInv
<1>p. PlaceInv(at) /\ PlainInv(at) /\ DoneInv(at)
  BY <1>1 DEF CallInv
<1>0. PICK k : k = NextSlot
  OBVIOUS
<1>u. /\ UNCHANGED <<n, waiting, result, live, late, wakes, dropped, cr, connQ, slots, st, waitSend>>
      /\ UNCHANGED <<io, datas, sendQ, wire, answered, decoding, doneRuns, stray, waitResult>>
      /\ TakeTask(x) /\ NextStatus = "CONNECTED"
      /\ (TaskExpired(x) /\ thWait' = thWait) \/ (thWait' = <<k, x>> /\ Care(x))
  BY <1>0 DEF TaskExpired, TaskLock, TaskAtOnce, callVars, srvVars, hist, connVars, ioVars
<1>f. /\ at[x] = <<"task", None>> /\ taskQ' \in Seq(Call) /\ conIndex' \in Nat /\ thWait = None
      /\ \A p : Only(taskQ', taskQ, x, <<"task", None>>, at[x], p)
      /\ k \in Conn /\ st[k] = "CONNECTED"
  BY <1>0, <1>t, <1>p, <1>u, TaskFacts
<1>c. CallerTypes' /\ QueueTypes' /\ DoneTypes'
  BY <1>t, <1>u, <1>f DEF CallerTypes, QueueTypes, DoneTypes
<1>n. io[k] # "new"
  BY <1>t, <1>f DEF ConnInv
<1>2. ConnTypes'
  <2>1. thWait' \in {None} \cup (Conn \X Call)
    BY <1>t, <1>u, <1>f DEF ConnTypes
  <2> QED  BY <1>t, <1>u, <2>1 DEF ConnTypes
<1>3. ConnInv'
  <2>1. thWait' # None => io'[thWait'[1]] # "new"
    BY <1>u, <1>f, <1>n
  <2> QED  BY <1>t, <1>u, <2>1 DEF ConnInv, Draining, IsAt
<1>4. WakeInv'
  BY <1>t, <1>u, WakeSame DEF WakeInv, WaitedFor
<1>5. PICK p \in Places : /\ p[1] \in {"gone", "lock"}
                          /\ thWait' # None => thWait'[2] = x /\ p = <<"lock", None>> /\ Care(x)
  <2>1. <<"gone", None>> \in Places /\ <<"lock", None>> \in Places
    BY DEF Places
  <2> QED  BY <1>u, <1>f, <2>1
<1>7. Goes(x, at[x], p)
  <2>1. /\ Moves(sendQ', sendQ, x, "send", at[x], p)
        /\ Moves(datas', datas, x, "data", at[x], p)
        /\ Moves(waitSend', waitSend, x, "wait", at[x], p)
    <3>1. Queues(at, sendQ, "send") /\ Queues(at, datas, "data") /\ Queues(at, waitSend, "wait")
      BY <1>t, <1>p, QueuesOf
    <3>2. /\ at[x][1] # "send" /\ at[x][1] # "data" /\ at[x][1] # "wait"
          /\ sendQ' = sendQ /\ datas' = datas /\ waitSend' = waitSend
      BY <1>f, <1>u
    <3> QED  BY <3>1, <3>2, QueueSameMoves
  <2>2. n' = n /\ at[x][1] # "new" /\ p[1] # "new"
    BY <1>u, <1>f, <1>5
  <2>3. at[x][1] \notin {"wire", "got"} /\ UNCHANGED <<wire, decoding>>
    BY <1>u, <1>f
  <2>4. Only(taskQ', taskQ, x, <<"task", None>>, at[x], p)
    BY <1>f
  <2> QED  BY <1>1, <1>p, <1>5, <2>1, <2>2, <2>3, <2>4, GoesOn, OffWire
<1>w. Woken' = Woken /\ \A y \in Call : WaitedFor(y)' <=> WaitedFor(y)
  BY <1>u DEF Woken, WaitedFor
<1>8. Keeps(x)
  BY <1>u, <1>w DEF Keeps, Finished
<1>9. Plain(x) => PlainOK(p, x)'
  <2>1. Plain(x) => WaitedFor(x) /\ x \notin Woken /\ \A j \in Conn : waitResult[j][x[1]] # x
    BY <1>p, <1>f, TaskPlain
  <2> QED  BY <1>5, <1>u, <1>w, <2>1 DEF PlainOK, Sent
<1>10. ~Care(x) => DoneOK(p, x)'
  BY <1>5 DEF DoneOK
<1>11. \E b \in [Call -> Places] : CallInv(b)'
  BY <1>t, <1>1, <1>5, <1>7, <1>8, <1>9, <1>10, CallMove
<1> QED  BY <1>c, <1>2, <1>3, <1>4, <1>11 DEF ClientInv, ClientTypes

-----------------------------------------------------------------------------
(* connectionRoutine.                                                      *)

ConnTask == [type : {"CONNECT", "CLOSE"}, conn : Conn]

LEMMA PopFacts ==
    ASSUME QueueTypes, ConnInv, NEW t, NEW k, PopConnTask(t, k)
    PROVE  /\ connQ' \in Seq(ConnTask) /\ IsInjective(connQ')
           /\ [type |-> t, conn |-> k] \in Range(connQ)
           /\ Range(connQ') = Range(connQ) \ {[type |-> t, conn |-> k]}
           /\ cr = Idle /\ cr.at = "idle"
<1>1. connQ \in Seq(ConnTask) /\ IsInjective(connQ)
  BY DEF QueueTypes, ConnInv, ConnTask
<1>2. /\ connQ # <<>> /\ Head(connQ) = [type |-> t, conn |-> k] /\ connQ' = Tail(connQ)
      /\ cr = Idle
  BY DEF PopConnTask
<1>3. cr.at = "idle"
  BY <1>2 DEF Idle
<1> QED  BY <1>1, <1>2, <1>3, TailLink

\* Some calls are woken.
CallsOf(w) == {w[i].call : i \in DOMAIN w}
PlainOnce(w) == \A i, j \in DOMAIN w : w[i].call = w[j].call /\ Plain(w[i].call) => i = j

LEMMA MoreCalls ==
    ASSUME NEW E, NEW w \in Seq(E), NEW v \in Seq(E), NEW xs \in Seq(Call), IsInjective(xs),
           Len(v) = Len(xs), \A i \in 1 .. Len(xs) : v[i].call = xs[i],
           PlainOnce(w), \A x \in Range(xs) : Plain(x) => x \notin CallsOf(w), NEW r, r = w \o v
    PROVE  r \in Seq(E) /\ CallsOf(r) = CallsOf(w) \cup Range(xs) /\ PlainOnce(r)
<1> DEFINE m == Len(w)
           l == Len(xs)
<1>1. DOMAIN w = 1 .. m /\ DOMAIN xs = 1 .. l /\ m \in Nat /\ l \in Nat
  OBVIOUS
<1>2. r \in Seq(E) /\ Len(r) = m + l /\ DOMAIN r = 1 .. m + l
  <2>1. r \in Seq(E) /\ Len(r) = m + Len(v)
    BY ConcatProperties
  <2> QED  BY <2>1
<1>3. \A i \in 1 .. m + l : r[i] = IF i <= m THEN w[i] ELSE v[i - m]
  BY ConcatProperties
<1> HIDE DEF m, l
<1>4. \A i \in 1 .. m : i \in 1 .. m + l /\ r[i].call = w[i].call
  <2> TAKE i \in 1 .. m
  <2>1. i \in 1 .. m + l /\ i <= m
    BY <1>1
  <2> QED  BY <1>3, <2>1
<1>5. \A i \in 1 .. l : m + i \in 1 .. m + l /\ r[m + i].call = xs[i]
  <2> TAKE i \in 1 .. l
  <2>1. m + i \in 1 .. m + l /\ ~(m + i <= m) /\ (m + i) - m = i
    BY <1>1
  <2>2. r[m + i] = v[i]
    BY <1>3, <2>1
  <2> QED  BY <2>1, <2>2 DEF l
<1>6. \A i \in 1 .. m + l : i \in 1 .. m \/ (\E j \in 1 .. l : i = m + j)
  <2> TAKE i \in 1 .. m + l
  <2>1. i \in 1 .. m \/ (i - m \in 1 .. l /\ i = m + (i - m))
    BY <1>1
  <2> QED  BY <2>1
<1>7. ASSUME NEW y PROVE y \in CallsOf(r) <=> y \in CallsOf(w) \/ y \in Range(xs)
  <2>1. y \in CallsOf(r) => y \in CallsOf(w) \/ y \in Range(xs)
    <3> SUFFICES ASSUME NEW i \in 1 .. m + l, y = r[i].call PROVE y \in CallsOf(w) \/ y \in Range(xs)
      BY <1>2 DEF CallsOf
    <3>1. CASE i \in 1 .. m
      BY <1>1, <1>4, <3>1 DEF CallsOf
    <3>2. CASE \E j \in 1 .. l : i = m + j
      BY <1>1, <1>5, <3>2 DEF Range
    <3> QED  BY <1>6, <3>1, <3>2
  <2>2. y \in CallsOf(w) => y \in CallsOf(r)
    BY <1>1, <1>2, <1>4 DEF CallsOf
  <2>3. y \in Range(xs) => y \in CallsOf(r)
    <3> SUFFICES ASSUME NEW i \in 1 .. l, y = xs[i] PROVE y \in CallsOf(r)
      BY <1>1 DEF Range
    <3>1. m + i \in DOMAIN r /\ y = r[m + i].call
      BY <1>2, <1>5
    <3> QED  BY <3>1 DEF CallsOf
  <2> QED  BY <2>1, <2>2, <2>3
<1>8. PlainOnce(r)
  <2> SUFFICES ASSUME NEW i \in 1 .. m + l, NEW j \in 1 .. m + l,
                      r[i].call = r[j].call, Plain(r[i].call)
               PROVE  i = j
    BY <1>2 DEF PlainOnce
  <2>1. \A a \in 1 .. m : w[a].call \in CallsOf(w)
    BY <1>1 DEF CallsOf
  <2>2. \A b \in 1 .. l : Plain(xs[b]) => xs[b] \notin CallsOf(w)
    BY <1>1 DEF Range
  <2>3. \A a, b \in 1 .. l : xs[a] = xs[b] => a = b
    BY <1>1 DEF IsInjective
  <2>4. CASE i \in 1 .. m /\ j \in 1 .. m
    BY <1>1, <1>4, <2>4 DEF PlainOnce
  <2>5. ASSUME NEW b \in 1 .. l, j = m + b, i \in 1 .. m PROVE FALSE
    BY <1>4, <1>5, <2>1, <2>2, <2>5
  <2>6. ASSUME NEW b \in 1 .. l, i = m + b, j \in 1 .. m PROVE FALSE
    BY <1>4, <1>5, <2>1, <2>2, <2>6
  <2>7. ASSUME NEW a \in 1 .. l, NEW b \in 1 .. l, i = m + a, j = m + b PROVE i = j
    <3>1. xs[a] = xs[b]
      BY <1>5, <2>7
    <3> QED  BY <2>3, <2>7, <3>1
  <2> QED  BY <1>6, <2>4, <2>5, <2>6, <2>7
<1> QED  BY <1>2, <1>7, <1>8

LEMMA WakesMore ==
    ASSUME CallerTypes, WakeInv, NEW xs \in Seq(Call), NEW bad, IsInjective(xs),
           \A x \in Range(xs) : Plain(x) => x \notin Woken,
           wakes' = wakes \o WakeAll(xs, bad)
    PROVE  /\ wakes' \in Seq([call : Call, failed : BOOLEAN])
           /\ Woken' = Woken \cup Range(xs)
           /\ \A i, j \in DOMAIN wakes' :
                 wakes'[i].call = wakes'[j].call /\ Plain(wakes'[i].call) => i = j
<1> DEFINE E == [call : Call, failed : BOOLEAN]
           v == WakeAll(xs, bad)
           l == Len(xs)
<1>1. wakes \in Seq(E)
  BY DEF CallerTypes
<1>2. \A i \in DOMAIN xs : xs[i] \in Call
  OBVIOUS
<1>3. v = [i \in 1 .. l |-> [call |-> xs[i], failed |-> xs[i] \in bad]] /\ DOMAIN xs = 1 .. l /\ l \in Nat
  BY DEF WakeAll
<1>4. \A i \in 1 .. l : v[i] \in E /\ v[i].call = xs[i]
  BY <1>2, <1>3
<1>5. PlainOnce(wakes) /\ \A x \in Range(xs) : Plain(x) => x \notin CallsOf(wakes)
  BY DEF WakeInv, PlainOnce, Woken, CallsOf
<1> HIDE DEF E
<1>6. v \in Seq(E) /\ Len(v) = l
  <2>1. v = [i \in 1 .. l |-> v[i]]
    BY <1>3
  <2> HIDE DEF v
  <2> QED  BY <1>3, <1>4, <2>1
<1>7. wakes' = wakes \o v
  OBVIOUS
<1> HIDE DEF v
<1>8. wakes' \in Seq(E) /\ CallsOf(wakes') = CallsOf(wakes) \cup Range(xs) /\ PlainOnce(wakes')
  BY <1>1, <1>4, <1>5, <1>6, <1>7, MoreCalls
<1> QED  BY <1>8 DEF E, Woken, CallsOf, PlainOnce

\* done runs for the one-way calls of q.
LEMMA DoneFacts ==
    ASSUME DoneTypes, CallerTypes, NEW q \in Seq(Call), RunDone(q),
           \A x \in Range(q) : ~Care(x) => doneRuns[x] = 0
    PROVE  /\ DoneTypes' /\ live' \subseteq Call
           /\ \A y \in Call : (y \notin Range(q) \/ Care(y)) => doneRuns'[y] = doneRuns[y]
<1>1. ToSet(q) = Range(q)
  BY DEF ToSet, Range
<1>2. /\ doneRuns' = [x \in Call |-> doneRuns[x] + IF x \in {y \in Range(q) : ~Care(y)} THEN 1 ELSE 0]
      /\ live' = live \ {y \in Range(q) : ~Care(y)}
  BY <1>1 DEF RunDone
<1>3. \A y \in Call : doneRuns[y] \in 0 .. 1
  BY DEF DoneTypes
<1>4. \A y \in Call : (y \notin Range(q) \/ Care(y)) => doneRuns'[y] = doneRuns[y]
  BY <1>2, <1>3
<1>5. \A y \in Call : doneRuns'[y] \in 0 .. 1
  BY <1>2, <1>3
<1>6. DoneTypes'
  BY <1>2, <1>5 DEF DoneTypes
<1> QED  BY <1>2, <1>4, <1>6 DEF CallerTypes

\* The calls stay where they are, and whatever is to be done for them stays.
LEMMA CallKept ==
    ASSUME NEW at \in [Call -> Places], CallInv(at),
           UNCHANGED <<n, taskQ, thWait, waitSend, sendQ, datas, wire, decoding>>,
           UNCHANGED <<waiting, wakes, waitResult, doneRuns>>,
           \A k \in Conn : io'[k] # "closed" => io[k] # "closed",
           \A k \in Conn : Finished(k) => Finished(k)'
    PROVE  \E b \in [Call -> Places] : CallInv(b)'
<1>1. PlaceInv(at)'
  BY PlaceSame DEF CallInv
<1>2. Woken' = Woken /\ \A y \in Call : WaitedFor(y)' <=> WaitedFor(y)
  BY DEF Woken, WaitedFor
<1>3. PlainInv(at)'
  <2> SUFFICES ASSUME NEW x \in Call, Plain(x) PROVE PlainOK(at[x], x)'
    BY DEF PlainInv
  <2>1. PlainOK(at[x], x)
    BY DEF PlainInv, CallInv
  <2> QED  BY <1>2, <2>1 DEF PlainOK
<1>4. DoneInv(at)'
  BY DEF CallInv, DoneInv, DoneOK
<1> QED  BY <1>1, <1>3, <1>4 DEF CallInv

LEMMA ConnectTaskStep ==
    ASSUME ClientInv, NEW k \in Conn, ConnectTask(k)
    PROVE  ClientInv'
<1>t. CallerTypes /\ QueueTypes /\ ConnTypes /\ DoneTypes /\ ConnInv /\ WakeInv
  BY DEF ClientInv, ClientTypes
<1>1. PICK at \in [Call -> Places] : CallInv(at)
  BY DEF ClientInv
<1>u. /\ UNCHANGED <<n, taskQ, thWait, waitSend, sendQ, datas, wire, decoding, answered, late>>
      /\ UNCHANGED <<waiting, wakes, waitResult, io, doneRuns, st, stray, result, live>>
      /\ UNCHANGED <<slots, conIndex, dropped>> /\ cr' = At("connect", k) /\ PopConnTask("CONNECT", k)
  BY DEF ConnectTask, th, connVars, ioVars, srvVars, callVars, hist
<1>q. /\ connQ' \in Seq(ConnTask) /\ IsInjective(connQ')
      /\ ConnectOf(k) \in Range(connQ) /\ Range(connQ') = Range(connQ) \ {ConnectOf(k)}
      /\ cr.at = "idle"
  BY <1>t, <1>u, PopFacts DEF ConnectOf
<1>r. cr'.at = "connect" /\ cr'.conn = k /\ cr'.now = {}
      /\ cr' \in [at : {"idle", "connect", "drain", "drainLock"}, conn : Conn \cup {None}, now : SUBSET Call]
  BY <1>u DEF At
<1>2. CallerTypes' /\ DoneTypes' /\ QueueTypes'
  BY <1>t, <1>u, <1>q DEF CallerTypes, DoneTypes, QueueTypes, ConnTask
<1>3. ConnTypes'
  BY <1>t, <1>u, <1>r DEF ConnTypes
<1>4. ConnInv'
  <2>1. \A j \in Conn : CloseOf(j) # ConnectOf(k) /\ (ConnectOf(j) = ConnectOf(k) => j = k)
    BY DEF CloseOf, ConnectOf
  <2>2. \A j \in Conn : ConnectOf(j) \in Range(connQ') => st'[j] = "CONNECTING" /\ ~IsAt("connect", j)'
    BY <1>t, <1>u, <1>q, <1>r, <2>1 DEF ConnInv, IsAt
  <2>3. st'[k] = "CONNECTING"
    BY <1>t, <1>u, <1>q DEF ConnInv
  <2>4. \A j \in Conn : waitSend'[j] # <<>> => st'[j] = "CONNECTING" \/ Draining(j)'
    BY <1>t, <1>u, <1>q DEF ConnInv, Draining
  <2> QED  BY <1>t, <1>u, <1>q, <1>r, <2>1, <2>2, <2>3, <2>4 DEF ConnInv
<1>5. WakeInv'
  BY <1>t, <1>u, WakeSame DEF WakeInv, WaitedFor
<1>6. \A j \in Conn : Finished(j) => Finished(j)'
  BY <1>u, <1>q DEF Finished
<1>7. \E b \in [Call -> Places] : CallInv(b)'
  BY <1>1, <1>u, <1>6, CallKept
<1> QED  BY <1>2, <1>3, <1>4, <1>5, <1>7 DEF ClientInv, ClientTypes

\* The calls w has for the coroutines in T, in the order cs.
LEMMA CallsInOrder ==
    ASSUME NEW T, NEW cs \in Seq(Caller), IsInjective(cs), Range(cs) = T, NEW w,
           \A c \in T : w[c] \in Call /\ w[c][1] = c,
           NEW xs \in [DOMAIN cs -> Call], \A i \in DOMAIN cs : xs[i] = w[cs[i]]
    PROVE  /\ xs \in Seq(Call) /\ IsInjective(xs)
           /\ \A x : x \in Range(xs) <=> x[1] \in T /\ w[x[1]] = x
<1> DEFINE l == Len(cs)
<1>1. l \in Nat /\ DOMAIN cs = 1 .. l
  OBVIOUS
<1> HIDE DEF l
<1>2. \A i \in 1 .. l : cs[i] \in T
  BY <1>1 DEF Range
<1>3. DOMAIN xs = 1 .. l /\ \A i \in 1 .. l : xs[i] = w[cs[i]]
  BY <1>1
<1>4. \A i \in 1 .. l : xs[i] \in Call /\ xs[i][1] = cs[i]
  BY <1>2, <1>3
<1>5. xs \in Seq(Call)
  <2>1. xs \in [1 .. l -> Call]
    BY <1>1, <1>3, <1>4
  <2> QED  BY <1>1, <2>1
<1>6. IsInjective(xs)
  <2> SUFFICES ASSUME NEW i \in 1 .. l, NEW j \in 1 .. l, xs[i] = xs[j] PROVE i = j
    BY <1>3 DEF IsInjective
  <2>1. cs[i] = cs[j]
    BY <1>4
  <2> QED  BY <1>1, <2>1 DEF IsInjective
<1>7. ASSUME NEW x PROVE x \in Range(xs) <=> x[1] \in T /\ w[x[1]] = x
  <2>1. x \in Range(xs) <=> \E i \in 1 .. l : x = xs[i]
    BY <1>3 DEF Range
  <2>2. ASSUME NEW i \in 1 .. l, x = xs[i] PROVE x[1] \in T /\ w[x[1]] = x
    BY <1>2, <1>3, <1>4, <2>2
  <2>3. ASSUME x[1] \in T, w[x[1]] = x PROVE \E i \in 1 .. l : x = xs[i]
    <3>1. PICK i \in 1 .. l : cs[i] = x[1]
      BY <1>1, <2>3 DEF Range
    <3> QED  BY <1>3, <2>3, <3>1
  <2> QED  BY <2>1, <2>2, <2>3
<1> QED  BY <1>5, <1>6, <1>7

\* The calls that wait for a result on k, in the order they are woken.
WaitOrder(k) ==
    LET cs == SetToSeq({c \in Caller : waitResult[k][c] # None})
    IN  [i \in DOMAIN cs |-> waitResult[k][cs[i]]]

LEMMA WaitingCalls ==
    ASSUME ConnTypes, WakeInv, NEW k \in Conn, NEW xs, xs = WaitOrder(k)
    PROVE  /\ xs \in Seq(Call) /\ IsInjective(xs) /\ \A x \in Range(xs) : x \in Call /\ Care(x)
           /\ \A x \in Call : x \in Range(xs) <=> waitResult[k][x[1]] = x
<1> DEFINE T == {c \in Caller : waitResult[k][c] # None}
           w == waitResult[k]
<1>0. PICK cs : cs = SetToSeq(T)
  OBVIOUS
<1>1. cs \in Seq(Caller) /\ Range(cs) = T /\ IsInjective(cs)
  <2>1. IsFiniteSet(T) /\ T \in SUBSET Caller
    BY RpcClientAssumption, FS_Subset
  <2> HIDE DEF T
  <2> QED  BY <1>0, <2>1, SetToSeqLink
<1>2. \A c \in T : w[c] \in Call /\ w[c][1] = c /\ Care(w[c])
  BY DEF ConnTypes, WakeInv
<1>3. \A c : c \in T <=> c \in Caller /\ w[c] # None
  OBVIOUS
<1>4. xs = [i \in DOMAIN cs |-> w[cs[i]]]
  BY <1>0 DEF WaitOrder
<1> HIDE DEF T, w
<1>5. \A i \in DOMAIN cs : cs[i] \in T
  BY <1>1 DEF Range
<1>6. xs \in [DOMAIN cs -> Call] /\ \A i \in DOMAIN cs : xs[i] = w[cs[i]]
  BY <1>2, <1>4, <1>5
<1>7. /\ xs \in Seq(Call) /\ IsInjective(xs)
      /\ \A x : x \in Range(xs) <=> x[1] \in T /\ w[x[1]] = x
  BY <1>1, <1>2, <1>6, CallsInOrder
<1>8. \A x \in Range(xs) : x \in Call /\ Care(x)
  <2> TAKE x \in Range(xs)
  <2>1. x[1] \in T /\ w[x[1]] = x
    BY <1>7, Zenon
  <2> QED  BY <1>2, <2>1
<1>9. \A x \in Call : x \in Range(xs) <=> w[x[1]] = x
  <2> TAKE x \in Call
  <2>1. x \in Range(xs) <=> x[1] \in T /\ w[x[1]] = x
    BY <1>7, Zenon
  <2>2. x[1] \in Caller /\ x # None
    BY CallFacts, RpcClientAssumption
  <2>3. x[1] \in T <=> x[1] \in Caller /\ w[x[1]] # None
    BY <1>3, Zenon
  <2> QED  BY <2>1, <2>2, <2>3, Zenon
<1> QED  BY <1>7, <1>8, <1>9 DEF w

LEMMA CloseTaskStep ==
    ASSUME ClientInv, NEW k \in Conn, CloseTask(k)
    PROVE  ClientInv'
<1>t. CallerTypes /\ QueueTypes /\ ConnTypes /\ DoneTypes /\ ConnInv /\ WakeInv
  BY DEF ClientInv, ClientTypes
<1>1. PICK at \in [Call -> Places] : CallInv(at)
  BY DEF ClientInv
<1>p. PlaceInv(at) /\ PlainInv(at) /\ DoneInv(at)
  BY <1>1 DEF CallInv
<1>x. PICK xs : xs = WaitOrder(k)
  OBVIOUS
<1>u. /\ UNCHANGED <<n, taskQ, thWait, waitSend, sendQ, datas, wire, decoding, answered, late>>
      /\ UNCHANGED <<waiting, io, stray, result, cr>>
      /\ UNCHANGED <<slots, conIndex, dropped>> /\ PopConnTask("CLOSE", k)
      /\ st' = [st EXCEPT ![k] = "CLOSED"] /\ RunDone(datas[k])
      /\ waitResult' = [waitResult EXCEPT ![k] = [c \in Caller |-> None]]
  BY DEF CloseTask, FailWaiting, th, ioVars, srvVars, hist
<1>v. wakes' = wakes \o WakeAll(xs, Call)
  BY <1>x DEF CloseTask, FailWaiting, WaitOrder
<1>q. /\ connQ' \in Seq(ConnTask) /\ IsInjective(connQ')
      /\ CloseOf(k) \in Range(connQ) /\ Range(connQ') = Range(connQ) \ {CloseOf(k)}
      /\ cr.at = "idle" /\ io[k] = "closed"
  BY <1>t, <1>u, PopFacts DEF CloseOf, ConnInv
<1>w. /\ xs \in Seq(Call) /\ IsInjective(xs) /\ \A x \in Range(xs) : x \in Call /\ Care(x)
      /\ \A x \in Call : x \in Range(xs) <=> waitResult[k][x[1]] = x
  BY <1>x, <1>t, WaitingCalls
\* Who waits for a result on k.
<1>l. \A x \in Range(xs) : Plain(x) => WaitedFor(x) /\ x \notin Woken
  BY <1>p, <1>w DEF PlainInv, PlainOK
<1>2. /\ wakes' \in Seq([call : Call, failed : BOOLEAN])
      /\ Woken' = Woken \cup Range(xs)
      /\ \A i, j \in DOMAIN wakes' :
            wakes'[i].call = wakes'[j].call /\ Plain(wakes'[i].call) => i = j
  BY <1>t, <1>v, <1>w, <1>l, WakesMore
<1>d. \A x \in Range(datas[k]) : ~Care(x) => doneRuns[x] = 0
  <2> SUFFICES ASSUME NEW x \in Range(datas[k]), ~Care(x) PROVE doneRuns[x] = 0
    OBVIOUS
  <2>1. at[x] = <<"data", k>>
    BY <1>p DEF PlaceInv
  <2>2. x \in Call
    BY <1>t DEF ConnTypes, Range
  <2>3. ~Finished(k)
    BY <1>q DEF Finished
  <2>4. DoneOK(at[x], x)
    BY <1>p, <2>2 DEF DoneInv
  <2> QED  BY <2>1, <2>3, <2>4 DEF DoneOK
<1>3. /\ DoneTypes' /\ live' \subseteq Call
      /\ \A y \in Call : (y \notin Range(datas[k]) \/ Care(y)) => doneRuns'[y] = doneRuns[y]
  <2>1. datas[k] \in Seq(Call)
    BY <1>t DEF ConnTypes
  <2> QED  BY <1>t, <1>u, <1>d, <2>1, DoneFacts
<1>4. CallerTypes' /\ QueueTypes'
  BY <1>t, <1>u, <1>q, <1>2, <1>3 DEF CallerTypes, QueueTypes, ConnTask
<1>r. /\ \A j \in Conn, c \in Caller : waitResult'[j][c] = IF j = k THEN None ELSE waitResult[j][c]
      /\ \A j \in Conn : st'[j] = IF j = k THEN "CLOSED" ELSE st[j]
  BY <1>t, <1>u DEF ConnTypes
<1>5. ConnTypes'
  <2>1. st' \in [Conn -> {"unused", "CONNECTING", "CONNECTED", "CLOSED"}]
    BY <1>t, <1>u DEF ConnTypes
  <2>2. waitResult' \in [Conn -> [Caller -> Call \cup {None}]]
    BY <1>t, <1>u DEF ConnTypes
  <2> QED  BY <1>t, <1>u, <2>1, <2>2 DEF ConnTypes
<1>6. ConnInv'
  <2>1. \A j \in Conn : CloseOf(k) # ConnectOf(j)
    BY DEF CloseOf, ConnectOf
  <2>2. st[k] \notin {"unused", "CONNECTING"} /\ waitSend[k] = <<>>
    BY <1>t, <1>q DEF ConnInv, Draining
  <2>3. \A j \in Conn : ConnectOf(j) \in Range(connQ') => st'[j] = "CONNECTING" /\ ~IsAt("connect", j)'
    BY <1>t, <1>u, <1>q, <1>r, <2>2 DEF ConnInv, IsAt
  <2>4. \A j \in Conn : waitSend'[j] # <<>> => st'[j] = "CONNECTING" \/ Draining(j)'
    BY <1>t, <1>u, <1>r, <2>2 DEF ConnInv, Draining
  <2>5. \A j \in Conn : CloseOf(j) \in Range(connQ') => io'[j] = "closed"
    BY <1>t, <1>u, <1>q DEF ConnInv
  <2>6. /\ \A j \in Conn : st'[j] \in {"unused", "CONNECTING"} => io'[j] = "new"
        /\ \A j \in Conn : st'[j] = "CONNECTED" => io'[j] # "new"
        /\ \A j \in Conn : io'[j] = "closed" => decoding'[j] = None
        /\ \A j \in Conn : io'[j] = "new" => \A c \in Caller : waitResult'[j][c] = None
        /\ thWait' # None => io'[thWait'[1]] # "new"
    BY <1>t, <1>u, <1>r DEF ConnInv
  <2>7. cr'.at = "idle"
    BY <1>u, <1>q
  <2> QED  BY <1>q, <2>3, <2>4, <2>5, <2>6, <2>7 DEF ConnInv
<1>f. \A y : WaitedFor(y)' <=> WaitedFor(y)
  BY <1>u DEF WaitedFor
<1>7. WakeInv'
  <2>1. \A x \in Woken' : Care(x) /\ (Plain(x) => WaitedFor(x)')
    BY <1>t, <1>w, <1>2, <1>f, <1>l DEF WakeInv
  <2>2. \A j \in Conn, c \in Caller : waitResult'[j][c] # None =>
          waitResult'[j][c][1] = c /\ Care(waitResult'[j][c])
    BY <1>t, <1>r DEF WakeInv
  <2> QED  BY <1>t, <1>u, <1>2, <2>1, <2>2 DEF WakeInv
<1>8. PlaceInv(at)'
  BY <1>p, <1>u, PlaceSame
<1>9. PlainInv(at)'
  <2> SUFFICES ASSUME NEW y \in Call, Plain(y) PROVE PlainOK(at[y], y)'
    BY DEF PlainInv
  <2>1. PlainOK(at[y], y)
    BY <1>p DEF PlainInv
  <2>2. \A j \in Conn : waitResult'[j][y[1]] = y => j # k /\ waitResult[j][y[1]] = y
    BY <1>r, CallFacts, RpcClientAssumption
  <2>3. y \in Woken' <=> y \in Woken \/ waitResult[k][y[1]] = y
    BY <1>2, <1>w
  <2>4. io' = io /\ io[k] = "closed"
    BY <1>u, <1>q
  <2> QED  BY <1>f, <2>1, <2>2, <2>3, <2>4 DEF PlainOK, Sent
<1>10. DoneInv(at)'
  <2> SUFFICES ASSUME NEW y \in Call, ~Care(y) PROVE DoneOK(at[y], y)'
    BY DEF DoneInv
  <2>1. DoneOK(at[y], y)
    BY <1>p DEF DoneInv
  <2>2. \A j \in Conn : Finished(j) => Finished(j)'
    BY <1>u, <1>q DEF Finished
  <2>3. Finished(k)'
    BY <1>u, <1>q DEF Finished
  <2>4. CASE y \in Range(datas[k])
    <3>1. at[y] = <<"data", k>>
      BY <1>p, <2>4 DEF PlaceInv
    <3> QED  BY <2>3, <3>1 DEF DoneOK
  <2>5. CASE y \notin Range(datas[k])
    <3>1. doneRuns'[y] = doneRuns[y]
      BY <1>3, <2>5
    <3> QED  BY <2>1, <2>2, <3>1 DEF DoneOK
  <2> QED  BY <2>4, <2>5
<1> QED  BY <1>1, <1>3, <1>4, <1>5, <1>6, <1>7, <1>8, <1>9, <1>10 DEF ClientInv, ClientTypes, CallInv

LEMMA CaredFacts ==
    ASSUME NEW q \in Seq(Call), IsInjective(q), NEW xs, xs = Cared(q)
    PROVE  xs \in Seq(Call) /\ IsInjective(xs) /\ Range(xs) = {x \in Range(q) : Care(x)}
<1>1. xs = Purged(q, OneWay)
  BY DEF Cared, Purged
<1>2. xs \in Seq(Call) /\ Range(xs) = Range(q) \ OneWay /\ IsInjective(xs)
  BY <1>1, PurgedLink
<1>3. \A x \in Range(q) : x \in OneWay <=> ~Care(x)
  BY DEF OneWay, Range
<1> QED  BY <1>2, <1>3

\* Where the calls are when those in W are given up.
GivenUp(at, W) == [y \in Call |-> IF y \in W THEN <<"gone", None>> ELSE at[y]]

LEMMA ConnectFailsStep ==
    ASSUME ClientInv, NEW k \in Conn, ConnectFails(k)
    PROVE  ClientInv'
<1>t. CallerTypes /\ QueueTypes /\ ConnTypes /\ DoneTypes /\ ConnInv /\ WakeInv
  BY DEF ClientInv, ClientTypes
<1>1. PICK at \in [Call -> Places] : CallInv(at)
  BY DEF ClientInv
<1>p. PlaceInv(at) /\ PlainInv(at) /\ DoneInv(at)
  BY <1>1 DEF CallInv
<1>x. PICK xs, W : xs = Cared(waitSend[k]) /\ W = Range(waitSend[k])
  OBVIOUS
<1>u. /\ UNCHANGED <<n, taskQ, thWait, sendQ, datas, wire, decoding, answered, late>>
      /\ UNCHANGED <<waiting, io, stray, result, waitResult, connQ>> /\ UNCHANGED qVars
      /\ st' = [st EXCEPT ![k] = "CLOSED"] /\ waitSend' = [waitSend EXCEPT ![k] = <<>>]
      /\ cr = At("connect", k) /\ cr' = Idle
  BY DEF ConnectFails, th, ioVars, srvVars, hist, qVars
<1>v. PICK errno \in {0, 1} : FailUnsent(k, errno)
  BY DEF ConnectFails
<1>e. /\ RunDone(waitSend[k])
      /\ wakes' = wakes \o WakeAll(xs, {x \in Call : KindOf(x) = "plain" \/ errno # 0})
  BY <1>v, <1>x DEF FailUnsent
<1>r. cr.at = "connect" /\ cr.conn = k /\ st[k] = "CONNECTING" /\ io[k] = "new"
  BY <1>t, <1>u DEF At, ConnInv
<1>f. /\ waitSend[k] \in Seq(Call) /\ IsInjective(waitSend[k])
      /\ \A x \in W : x \in Call /\ at[x] = <<"wait", k>>
  <2>1. waitSend[k] \in Seq(Call)
    BY <1>t DEF ConnTypes
  <2>2. \A x \in W : x \in Call
    BY <1>x, <2>1 DEF Range
  <2> QED  BY <1>p, <1>x, <2>1, <2>2 DEF PlaceInv
<1>w. xs \in Seq(Call) /\ IsInjective(xs) /\ Range(xs) = {x \in W : Care(x)}
  BY <1>x, <1>f, CaredFacts
<1>l. \A x \in W : Plain(x) =>
         WaitedFor(x) /\ x \notin Woken /\ \A j \in Conn : waitResult[j][x[1]] # x
  BY <1>p, <1>f, TaskPlain
<1>2. /\ wakes' \in Seq([call : Call, failed : BOOLEAN])
      /\ Woken' = Woken \cup Range(xs)
      /\ \A i, j \in DOMAIN wakes' :
            wakes'[i].call = wakes'[j].call /\ Plain(wakes'[i].call) => i = j
  BY <1>t, <1>e, <1>w, <1>l, WakesMore
<1>3. /\ DoneTypes' /\ live' \subseteq Call
      /\ \A y \in Call : (y \notin W \/ Care(y)) => doneRuns'[y] = doneRuns[y]
  <2>1. \A x \in W : ~Care(x) => doneRuns[x] = 0
    BY <1>p, <1>f, UnsentDone
  <2> QED  BY <1>t, <1>e, <1>f, <1>x, <2>1, DoneFacts
<1>4. CallerTypes' /\ QueueTypes'
  BY <1>t, <1>u, <1>2, <1>3, QueueSame DEF CallerTypes
<1>s. \A j \in Conn : /\ st'[j] = IF j = k THEN "CLOSED" ELSE st[j]
                      /\ waitSend'[j] = IF j = k THEN <<>> ELSE waitSend[j]
  BY <1>t, <1>u DEF ConnTypes
<1>i. cr'.at = "idle" /\ cr'.conn = None /\ cr' = [at |-> "idle", conn |-> None, now |-> {}]
  BY <1>u DEF Idle
<1>5. ConnTypes'
  <2>1. st' \in [Conn -> {"unused", "CONNECTING", "CONNECTED", "CLOSED"}]
    BY <1>t, <1>u DEF ConnTypes
  <2>2. waitSend' \in [Conn -> Seq(Call)]
    BY <1>t, <1>u DEF ConnTypes
  <2>3. cr' \in [at : {"idle", "connect", "drain", "drainLock"}, conn : Conn \cup {None}, now : SUBSET Call]
    BY <1>i
  <2> QED  BY <1>t, <1>u, <2>1, <2>2, <2>3 DEF ConnTypes
<1>6. ConnInv'
  <2>1. \A j \in Conn : ConnectOf(j) \in Range(connQ') => st'[j] = "CONNECTING" /\ ~IsAt("connect", j)'
    BY <1>t, <1>u, <1>r, <1>s, <1>i DEF ConnInv, IsAt
  <2>2. \A j \in Conn : waitSend'[j] # <<>> => st'[j] = "CONNECTING" \/ Draining(j)'
    BY <1>t, <1>s, <1>r DEF ConnInv, Draining
  <2>3. /\ IsInjective(connQ')
        /\ \A j \in Conn : CloseOf(j) \in Range(connQ') => io'[j] = "closed"
        /\ \A j \in Conn : st'[j] \in {"unused", "CONNECTING"} => io'[j] = "new"
        /\ \A j \in Conn : st'[j] = "CONNECTED" => io'[j] # "new"
        /\ \A j \in Conn : io'[j] = "closed" => decoding'[j] = None
        /\ \A j \in Conn : io'[j] = "new" => \A c \in Caller : waitResult'[j][c] = None
        /\ thWait' # None => io'[thWait'[1]] # "new"
    BY <1>t, <1>u, <1>s DEF ConnInv
  <2> QED  BY <1>i, <2>1, <2>2, <2>3 DEF ConnInv
<1>g. \A y : WaitedFor(y)' <=> WaitedFor(y)
  BY <1>u DEF WaitedFor
<1>7. WakeInv'
  <2>1. \A x \in Woken' : Care(x) /\ (Plain(x) => WaitedFor(x)')
    BY <1>t, <1>w, <1>2, <1>g, <1>l DEF WakeInv
  <2>2. \A j \in Conn, c \in Caller : waitResult'[j][c] # None =>
          waitResult'[j][c][1] = c /\ Care(waitResult'[j][c])
    BY <1>t, <1>u DEF WakeInv
  <2> QED  BY <1>t, <1>u, <1>2, <2>1, <2>2 DEF WakeInv
<1> DEFINE b == GivenUp(at, W)
<1>b. /\ \A y \in Call : b[y] = IF y \in W THEN <<"gone", None>> ELSE at[y]
      /\ b \in [Call -> Places]
  BY DEF GivenUp, Places
<1>c. b = GivenUp(at, W)
  OBVIOUS
<1> HIDE DEF b
<1>8. PlaceInv(GivenUp(at, W))'
  <2>1. \A y \in Call : b[y][1] = "new" <=> y[2] > n'[y[1]]
    BY <1>p, <1>u, <1>b, <1>f DEF PlaceInv
  <2>2. \A y \in Call : at[y] # <<"wait", k>> => b[y] = at[y]
    BY <1>b, <1>f
  <2>3. IsInjective(taskQ') /\ \A y \in Range(taskQ') : b[y] = <<"task", None>>
    <3>1. \A y \in Range(taskQ) : y \in Call
      BY <1>t DEF QueueTypes, Range
    <3> QED  BY <1>p, <1>u, <2>2, <3>1 DEF PlaceInv
  <2>4. thWait' # None => b[thWait'[2]] = <<"lock", None>> /\ Care(thWait'[2])
    <3>1. thWait # None => thWait[2] \in Call
      BY <1>t DEF ConnTypes
    <3> QED  BY <1>p, <1>u, <2>2, <3>1 DEF PlaceInv
  <2>5. ASSUME NEW j \in Conn
        PROVE  IsInjective(waitSend'[j]) /\ \A x \in Range(waitSend'[j]) : b[x] = <<"wait", j>>
    <3>1. CASE j = k
      BY <1>s, <3>1, EmptyLink
    <3>2. CASE j # k
      <4>1. \A y \in Range(waitSend[j]) : y \in Call
        BY <1>t DEF ConnTypes, Range
      <4> QED  BY <1>p, <1>s, <2>2, <3>2, <4>1 DEF PlaceInv
    <3> QED  BY <3>1, <3>2
  <2>6. ASSUME NEW j \in Conn
        PROVE  /\ IsInjective(sendQ'[j]) /\ \A x \in Range(sendQ'[j]) : b[x] = <<"send", j>>
               /\ IsInjective(datas'[j]) /\ \A x \in Range(datas'[j]) : b[x] = <<"data", j>>
               /\ \A x \in wire'[j] : b[x] = <<"wire", j>> /\ Care(x)
               /\ decoding'[j] # None => b[decoding'[j]] = <<"got", j>> /\ Care(decoding'[j])
    <3>1. /\ \A y \in Range(sendQ[j]) : y \in Call
          /\ \A y \in Range(datas[j]) : y \in Call
      BY <1>t DEF ConnTypes, Range
    <3>2. (\A y \in wire[j] : y \in Call) /\ (decoding[j] # None => decoding[j] \in Call)
      BY <1>t DEF ConnTypes
    <3> QED  BY <1>p, <1>u, <2>2, <3>1, <3>2 DEF PlaceInv
  <2>7. PlaceInv(b)'
    BY <1>b, <2>1, <2>3, <2>4, <2>5, <2>6 DEF PlaceInv
  <2> QED  BY <1>c, <2>7
<1>9. PlainInv(GivenUp(at, W))'
  <2>1. ASSUME NEW y \in Call, Plain(y) PROVE PlainOK(b[y], y)'
    <3>1. PlainOK(at[y], y)
      BY <1>p, <2>1 DEF PlainInv
    <3>2. CASE y \in W
      <4>1. b[y] = <<"gone", None>> /\ \A j \in Conn : waitResult'[j][y[1]] # y
        BY <1>b, <1>l, <1>u, <2>1, <3>2
      <4> QED  BY <4>1 DEF PlainOK, Sent
    <3>3. CASE y \notin W
      <4>1. b[y] = at[y] /\ (y \in Woken' <=> y \in Woken) /\ io' = io /\ waitResult' = waitResult
        BY <1>b, <1>w, <1>2, <1>u, <3>3
      <4> QED  BY <1>g, <3>1, <4>1 DEF PlainOK
    <3> QED  BY <3>2, <3>3
  <2>2. PlainInv(b)'
    BY <2>1 DEF PlainInv
  <2> QED  BY <1>c, <2>2
<1>10. DoneInv(GivenUp(at, W))'
  <2>1. ASSUME NEW y \in Call, ~Care(y) PROVE DoneOK(b[y], y)'
    <3>1. DoneOK(at[y], y)
      BY <1>p, <2>1 DEF DoneInv
    <3>2. CASE y \in W
      <4>1. b[y] = <<"gone", None>>
        BY <1>b, <3>2
      <4> QED  BY <4>1 DEF DoneOK
    <3>3. CASE y \notin W
      <4>1. b[y] = at[y] /\ doneRuns'[y] = doneRuns[y] /\ io' = io /\ connQ' = connQ
        BY <1>b, <1>3, <1>u, <3>3
      <4> QED  BY <3>1, <4>1 DEF DoneOK, Finished
    <3> QED  BY <3>2, <3>3
  <2>2. DoneInv(b)'
    BY <2>1 DEF DoneInv
  <2> QED  BY <1>c, <2>2
<1>11. \E a \in [Call -> Places] : CallInv(a)'
  BY <1>b, <1>c, <1>8, <1>9, <1>10 DEF CallInv
<1> QED  BY <1>3, <1>4, <1>5, <1>6, <1>7, <1>11 DEF ClientInv, ClientTypes

LEMMA ConnectedStep ==
    ASSUME ClientInv, NEW k \in Conn, Connected(k)
    PROVE  ClientInv'
<1>t. CallerTypes /\ QueueTypes /\ ConnTypes /\ DoneTypes /\ ConnInv /\ WakeInv
  BY DEF ClientInv, ClientTypes
<1>1. PICK at \in [Call -> Places] : CallInv(at)
  BY DEF ClientInv
<1>u. /\ UNCHANGED <<n, taskQ, thWait, waitSend, sendQ, datas, wire, decoding, answered, late>>
      /\ UNCHANGED <<waiting, wakes, waitResult, doneRuns, stray, result, live, connQ>>
      /\ UNCHANGED qVars /\ cr = At("connect", k) /\ cr' = [At("drain", k) EXCEPT !.now = late]
      /\ st' = [st EXCEPT ![k] = "CONNECTED"] /\ io' = [io EXCEPT ![k] = "open"]
  BY DEF Connected, th, srvVars, callVars, hist, qVars
<1>r. /\ cr.at = "connect" /\ cr.conn = k /\ st[k] = "CONNECTING" /\ io[k] = "new"
      /\ cr'.at = "drain" /\ cr'.conn = k /\ cr' = [at |-> "drain", conn |-> k, now |-> late]
  BY <1>t, <1>u DEF At, ConnInv
<1>s. \A j \in Conn : /\ st'[j] = IF j = k THEN "CONNECTED" ELSE st[j]
                      /\ io'[j] = IF j = k THEN "open" ELSE io[j]
  BY <1>t, <1>u DEF ConnTypes
<1>2. CallerTypes' /\ DoneTypes' /\ QueueTypes'
  BY <1>t, <1>u, QueueSame DEF CallerTypes, DoneTypes
<1>3. ConnTypes'
  <2>1. cr' \in [at : {"idle", "connect", "drain", "drainLock"}, conn : Conn \cup {None}, now : SUBSET Call]
    BY <1>t, <1>r DEF CallerTypes
  <2>2. /\ st' \in [Conn -> {"unused", "CONNECTING", "CONNECTED", "CLOSED"}]
        /\ io' \in [Conn -> {"new", "open", "closing", "closed"}]
    BY <1>t, <1>u DEF ConnTypes
  <2> QED  BY <1>t, <1>u, <2>1, <2>2 DEF ConnTypes
<1>4. ConnInv'
  <2>1. \A j \in Conn : ConnectOf(j) \in Range(connQ') => st'[j] = "CONNECTING" /\ ~IsAt("connect", j)'
    BY <1>t, <1>u, <1>r, <1>s DEF ConnInv, IsAt
  <2>2. \A j \in Conn : waitSend'[j] # <<>> => st'[j] = "CONNECTING" \/ Draining(j)'
    BY <1>t, <1>u, <1>s, <1>r DEF ConnInv, Draining
  <2>3. /\ IsInjective(connQ')
        /\ \A j \in Conn : CloseOf(j) \in Range(connQ') => io'[j] = "closed"
        /\ \A j \in Conn : io'[j] = "closed" => decoding'[j] = None
        /\ \A j \in Conn : io'[j] = "new" => \A c \in Caller : waitResult'[j][c] = None
    BY <1>t, <1>u, <1>s, <1>r DEF ConnInv
  <2>4. /\ \A j \in Conn : st'[j] \in {"unused", "CONNECTING"} => io'[j] = "new"
        /\ \A j \in Conn : st'[j] = "CONNECTED" => io'[j] # "new"
    BY <1>t, <1>s DEF ConnInv
  <2>5. thWait' # None => io'[thWait'[1]] # "new"
    <3>1. thWait # None => thWait[1] \in Conn
      BY <1>t DEF ConnTypes
    <3> QED  BY <1>t, <1>u, <1>s, <3>1 DEF ConnInv
  <2>6. cr'.conn \in Conn /\ io'[cr'.conn] # "new" /\ cr'.at = "drain"
    BY <1>r, <1>s
  <2> QED  BY <2>1, <2>2, <2>3, <2>4, <2>5, <2>6 DEF ConnInv
<1>5. WakeInv'
  BY <1>t, <1>u, WakeSame DEF WakeInv, WaitedFor
<1>6. /\ \A j \in Conn : Finished(j) => Finished(j)'
      /\ \A j \in Conn : io'[j] # "closed" => io[j] # "closed"
  BY <1>u, <1>s, <1>r DEF Finished
<1>7. \E b \in [Call -> Places] : CallInv(b)'
  BY <1>1, <1>u, <1>6, CallKept
<1> QED  BY <1>2, <1>3, <1>4, <1>5, <1>7 DEF ClientInv, ClientTypes

\* connectionRoutine goes on with waitSendTaskCoList_.
LEMMA DrainConn ==
    ASSUME ConnInv, ConnTypes, NEW k \in Conn, Draining(k), NEW a \in {"drain", "drainLock"},
           cr' = [cr EXCEPT !.at = a],
           UNCHANGED <<st, connQ, io, decoding, thWait>>,
           \A j \in Conn : j # k => waitSend'[j] = waitSend[j],
           \A j \in Conn : io[j] = "new" => \A c \in Caller : waitResult'[j][c] = None
    PROVE  ConnInv' /\ cr' \in [at : {"idle", "connect", "drain", "drainLock"},
                                conn : Conn \cup {None}, now : SUBSET Call]
<1>1. /\ cr \in [at : {"idle", "connect", "drain", "drainLock"}, conn : Conn \cup {None}, now : SUBSET Call]
      /\ cr.conn = k /\ cr.at \in {"drain", "drainLock"}
  BY DEF ConnTypes, Draining
<1>2. cr'.conn = k /\ cr'.at = a /\ cr' \in [at : {"idle", "connect", "drain", "drainLock"},
                               conn : Conn \cup {None}, now : SUBSET Call]
  BY <1>1
<1>3. \A j \in Conn : ConnectOf(j) \in Range(connQ') => st'[j] = "CONNECTING" /\ ~IsAt("connect", j)'
  BY <1>2 DEF ConnInv, IsAt
<1>4. \A j \in Conn : waitSend'[j] # <<>> => st'[j] = "CONNECTING" \/ Draining(j)'
  BY <1>1, <1>2 DEF ConnInv, Draining
<1>5. /\ IsInjective(connQ')
      /\ \A j \in Conn : CloseOf(j) \in Range(connQ') => io'[j] = "closed"
      /\ \A j \in Conn : st'[j] \in {"unused", "CONNECTING"} => io'[j] = "new"
      /\ \A j \in Conn : st'[j] = "CONNECTED" => io'[j] # "new"
      /\ \A j \in Conn : io'[j] = "closed" => decoding'[j] = None
      /\ thWait' # None => io'[thWait'[1]] # "new"
      /\ cr'.at \in {"drain", "drainLock"} => io'[cr'.conn] # "new"
  BY <1>1, <1>2 DEF ConnInv
<1>6. ConnInv'
  BY <1>2, <1>3, <1>4, <1>5 DEF ConnInv
<1> QED  BY <1>2, <1>6

LEMMA DrainSendsStep ==
    ASSUME ClientInv, NEW k \in Conn, DrainSends(k)
    PROVE  ClientInv'
<1>t. CallerTypes /\ QueueTypes /\ ConnTypes /\ DoneTypes /\ ConnInv /\ WakeInv
  BY DEF ClientInv, ClientTypes
<1>1. PICK at \in [Call -> Places] : CallInv(at)
  BY DEF ClientInv
<1>p. PlaceInv(at)
  BY <1>1 DEF CallInv
<1>0. PICK x : x = Head(waitSend[k])
  OBVIOUS
<1>u. /\ UNCHANGED <<n, taskQ, thWait, datas, wire, decoding, answered, late>>
      /\ UNCHANGED <<waiting, wakes, io, doneRuns, stray, result, live, connQ, st>>
      /\ UNCHANGED qVars /\ cr' = [cr EXCEPT !.at = "drain"] /\ Submit(k, x)
      /\ waitSend[k] # <<>> /\ waitSend' = [waitSend EXCEPT ![k] = Tail(@)]
      /\ Draining(k) /\ (waitResult' = waitResult \/ (Care(x) /\ AwaitResult(k, x)))
  BY <1>0 DEF DrainSends, th, srvVars, callVars, hist, qVars, Draining, IsAt
<1>f. x \in Call /\ at[x] = <<"wait", k>> /\ \A p : Moves(waitSend', waitSend, x, "wait", at[x], p)
  <2>1. Queues(at, waitSend, "wait")
    BY <1>t, <1>p, QueuesOf
  <2>2. TakenFrom(waitSend', waitSend, k, x)
    BY <1>0, <1>u DEF TakenFrom
  <2> QED  BY <2>1, <2>2, QueueOut
<1>c. CallerTypes' /\ QueueTypes' /\ DoneTypes'
  BY <1>t, <1>u, QueueSame DEF CallerTypes, DoneTypes
<1>a. waitResult' \in [Conn -> [Caller -> Call \cup {None}]] /\ Awaits(k, x)
  BY <1>t, <1>u, <1>f, AwaitFacts
<1>n. io[k] # "new"
  BY <1>t, <1>u DEF ConnInv, Draining
<1>2. ConnInv' /\ cr' \in [at : {"idle", "connect", "drain", "drainLock"},
                           conn : Conn \cup {None}, now : SUBSET Call]
  <2>1. \A j \in Conn : j # k => waitSend'[j] = waitSend[j]
    BY <1>t, <1>u DEF ConnTypes
  <2>2. \A j \in Conn : io[j] = "new" => \A c \in Caller : waitResult'[j][c] = None
    BY <1>t, <1>a, <1>n DEF ConnInv, Awaits
  <2>3. cr' = [cr EXCEPT !.at = "drain"]
    BY <1>u
  <2> QED  BY <1>t, <1>u, <2>1, <2>2, <2>3, DrainConn
<1>3. WakeInv'
  BY <1>t, <1>u, <1>f, <1>a, WakeAwait
<1>4. sendQ' \in [Conn -> Seq(Call)] /\ \E b \in [Call -> Places] : CallInv(b)'
  <2>1. Moves(waitSend', waitSend, x, "wait", at[x], <<"send", k>>)
    BY <1>f
  <2>2. at[x][1] \in {"task", "lock", "wait"} /\ at[x][1] # "lock" /\ at[x] # <<"task", None>>
        /\ at[x] # <<"lock", None>>
    BY <1>f
  <2>3. Only(taskQ', taskQ, x, <<"task", None>>, at[x], <<"send", k>>)
    BY <1>u, <2>2 DEF Only
  <2> QED  BY <1>t, <1>1, <1>u, <1>f, <1>a, <2>1, <2>2, <2>3, SendMove
<1>5. ConnTypes'
  BY <1>t, <1>u, <1>a, <1>f, <1>2, <1>4 DEF ConnTypes, Moves
<1> QED  BY <1>c, <1>2, <1>3, <1>4, <1>5 DEF ClientInv, ClientTypes

LEMMA DrainExpiredStep ==
    ASSUME ClientInv, NEW k \in Conn, DrainExpired(k)
    PROVE  ClientInv'
<1>t. CallerTypes /\ QueueTypes /\ ConnTypes /\ DoneTypes /\ ConnInv /\ WakeInv
  BY DEF ClientInv, ClientTypes
<1>1. PICK at \in [Call -> Places] : CallInv(at)
  BY DEF ClientInv
<1>p. PlaceInv(at) /\ PlainInv(at) /\ DoneInv(at)
  BY <1>1 DEF CallInv
<1>0. PICK x : x = Head(waitSend[k])
  OBVIOUS
<1>u. /\ UNCHANGED <<n, taskQ, thWait, sendQ, datas, wire, decoding, answered, late>>
      /\ UNCHANGED <<waiting, wakes, io, doneRuns, stray, result, live, connQ, st, waitResult, cr>>
      /\ UNCHANGED qVars /\ Draining(k)
      /\ waitSend[k] # <<>> /\ waitSend' = [waitSend EXCEPT ![k] = Tail(@)]
  BY DEF DrainExpired, th, srvVars, callVars, hist, qVars, ioVars, Draining, IsAt
<1>f. x \in Call /\ at[x] = <<"wait", k>> /\ \A p : Moves(waitSend', waitSend, x, "wait", at[x], p)
  <2>1. Queues(at, waitSend, "wait")
    BY <1>t, <1>p, QueuesOf
  <2>2. TakenFrom(waitSend', waitSend, k, x)
    BY <1>0, <1>u DEF TakenFrom
  <2> QED  BY <2>1, <2>2, QueueOut
<1>c. CallerTypes' /\ QueueTypes' /\ DoneTypes'
  BY <1>t, <1>u, QueueSame DEF CallerTypes, DoneTypes
<1>2. ConnInv'
  <2>1. \A j \in Conn : j # k => waitSend'[j] = waitSend[j]
    BY <1>t, <1>u DEF ConnTypes
  <2> QED  BY <1>t, <1>u, <2>1 DEF ConnInv, Draining, IsAt
<1>3. WakeInv'
  BY <1>t, <1>u, WakeSame DEF WakeInv, WaitedFor
<1>4. ConnTypes'
  BY <1>t, <1>u, <1>f DEF ConnTypes, Moves
<1> DEFINE p == <<"gone", None>>
<1>b. p \in Places /\ p[1] = "gone"
  BY DEF Places
<1> HIDE DEF p
<1>7. Goes(x, at[x], p)
  <2>1. /\ Moves(sendQ', sendQ, x, "send", at[x], p)
        /\ Moves(datas', datas, x, "data", at[x], p)
    <3>1. Queues(at, sendQ, "send") /\ Queues(at, datas, "data")
      BY <1>t, <1>p, QueuesOf
    <3>2. at[x][1] # "send" /\ at[x][1] # "data" /\ sendQ' = sendQ /\ datas' = datas
      BY <1>f, <1>u
    <3> QED  BY <3>1, <3>2, QueueSameMoves
  <2>2. n' = n /\ at[x][1] # "new" /\ p[1] # "new" /\ thWait' = thWait /\ at[x] # <<"lock", None>>
    BY <1>u, <1>f, <1>b
  <2>3. at[x][1] \notin {"wire", "got"} /\ UNCHANGED <<wire, decoding>>
    BY <1>u, <1>f
  <2>4. Only(taskQ', taskQ, x, <<"task", None>>, at[x], p)
    BY <1>u, <1>f DEF Only
  <2>5. Moves(waitSend', waitSend, x, "wait", at[x], p)
    BY <1>f
  <2> QED  BY <1>1, <1>p, <1>b, <1>f, <2>1, <2>2, <2>3, <2>4, <2>5, GoesOn, OffWire
<1>w. Woken' = Woken /\ \A y \in Call : WaitedFor(y)' <=> WaitedFor(y)
  BY <1>u DEF Woken, WaitedFor
<1>8. Keeps(x)
  BY <1>u, <1>w DEF Keeps, Finished
<1>9. Plain(x) => PlainOK(p, x)'
  <2>1. Plain(x) => \A j \in Conn : waitResult[j][x[1]] # x
    BY <1>p, <1>f, TaskPlain
  <2> QED  BY <1>b, <1>u, <2>1 DEF PlainOK, Sent
<1>10. ~Care(x) => DoneOK(p, x)'
  BY <1>b DEF DoneOK
<1>11. \E b \in [Call -> Places] : CallInv(b)'
  BY <1>t, <1>1, <1>b, <1>f, <1>7, <1>8, <1>9, <1>10, CallMove
<1> QED  BY <1>c, <1>2, <1>3, <1>4, <1>11 DEF ClientInv, ClientTypes

LEMMA DrainEnds ==
    ASSUME ClientInv, NEW k \in Conn, DrainLock(k) \/ Drained(k)
    PROVE  ClientInv'
<1>t. CallerTypes /\ QueueTypes /\ ConnTypes /\ DoneTypes /\ ConnInv /\ WakeInv
  BY DEF ClientInv, ClientTypes
<1>1. PICK at \in [Call -> Places] : CallInv(at)
  BY DEF ClientInv
<1>u. /\ UNCHANGED <<n, taskQ, thWait, sendQ, datas, wire, decoding, answered, late, waitSend>>
      /\ UNCHANGED <<waiting, wakes, io, doneRuns, stray, result, live, connQ, st, waitResult>>
      /\ UNCHANGED qVars /\ Draining(k)
      /\ cr' = [cr EXCEPT !.at = "drainLock"] \/ (cr' = Idle /\ waitSend[k] = <<>>)
  BY DEF DrainLock, Drained, th, srvVars, callVars, hist, qVars, ioVars, connVars, Draining, IsAt
<1>c. CallerTypes' /\ QueueTypes' /\ DoneTypes' /\ WakeInv'
  BY <1>t, <1>u, QueueSame, WakeSame DEF CallerTypes, DoneTypes, WakeInv, WaitedFor
<1>2. ConnInv' /\ cr' \in [at : {"idle", "connect", "drain", "drainLock"},
                           conn : Conn \cup {None}, now : SUBSET Call]
  <2>1. CASE cr' = [cr EXCEPT !.at = "drainLock"]
    <3>2. \A j \in Conn : io[j] = "new" => \A c \in Caller : waitResult'[j][c] = None
      BY <1>t, <1>u DEF ConnInv
    <3> QED  BY <1>t, <1>u, <2>1, <3>2, DrainConn
  <2>2. CASE cr' = Idle /\ waitSend[k] = <<>>
    <3>1. cr'.at = "idle" /\ cr' \in [at : {"idle", "connect", "drain", "drainLock"},
                                      conn : Conn \cup {None}, now : SUBSET Call]
      BY <2>2 DEF Idle
    <3>2. \A j \in Conn : waitSend'[j] # <<>> => st'[j] = "CONNECTING" \/ Draining(j)'
      BY <1>t, <1>u, <2>2 DEF ConnInv, Draining
    <3>3. \A j \in Conn : ConnectOf(j) \in Range(connQ') => st'[j] = "CONNECTING" /\ ~IsAt("connect", j)'
      BY <1>t, <1>u, <3>1 DEF ConnInv, IsAt
    <3> QED  BY <1>t, <1>u, <3>1, <3>2, <3>3 DEF ConnInv
  <2> QED  BY <1>u, <2>1, <2>2
<1>3. ConnTypes'
  BY <1>t, <1>u, <1>2 DEF ConnTypes
<1>4. \E b \in [Call -> Places] : CallInv(b)'
  BY <1>1, <1>u, CallSame
<1> QED  BY <1>c, <1>2, <1>3, <1>4 DEF ClientInv, ClientTypes

\* clearChannelRoutine changes nothing of any call.
LEMMA ChannelStep ==
    ASSUME ClientInv, DropChannel \/ ClearChannel
    PROVE  ClientInv'
<1>t. CallerTypes /\ QueueTypes /\ ConnTypes /\ DoneTypes /\ ConnInv /\ WakeInv
  BY DEF ClientInv, ClientTypes
<1>1. PICK at \in [Call -> Places] : CallInv(at)
  BY DEF ClientInv
<1>u. /\ UNCHANGED <<n, taskQ, thWait, sendQ, datas, wire, decoding, answered, late, waitSend>>
      /\ UNCHANGED <<waiting, wakes, io, doneRuns, stray, result, live, connQ, st, waitResult, cr>>
      /\ UNCHANGED <<connVars, ioVars, conIndex>>
      /\ (slots' = slots /\ dropped' = TRUE) \/ (slots' = <<>> /\ dropped' = dropped)
  BY DEF DropChannel, ClearChannel, th, srvVars, callVars, hist, ioVars, connVars
<1>2. QueueTypes'
  <2>1. slots' \in Seq(Conn \cup {None}) /\ dropped' \in BOOLEAN
    BY <1>t, <1>u, EmptyLink DEF QueueTypes
  <2> QED  BY <1>t, <1>u, <2>1 DEF QueueTypes
<1>3. CallerTypes' /\ ConnTypes' /\ DoneTypes' /\ WakeInv' /\ ConnInv'
  BY <1>t, <1>u, ConnTypesSame, DoneSame, ConnSame, WakeSame DEF CallerTypes, WakeInv, WaitedFor
<1>4. \E b \in [Call -> Places] : CallInv(b)'
  BY <1>1, <1>u, CallSame
<1> QED  BY <1>2, <1>3, <1>4 DEF ClientInv, ClientTypes

-----------------------------------------------------------------------------
(* The IO layer.                                                           *)

LEMMA OneDone ==
    ASSUME DoneTypes, CallerTypes, NEW x \in Call, RunDone(<<x>>), ~Care(x) => doneRuns[x] = 0
    PROVE  /\ DoneTypes' /\ live' \subseteq Call
           /\ \A y \in Call : y # x => doneRuns'[y] = doneRuns[y]
<1>1. <<x>> \in Seq(Call) /\ Range(<<x>>) = {x}
  BY DEF Range
<1>2. PICK q : q = <<x>>
  OBVIOUS
<1>3. q \in Seq(Call) /\ Range(q) = {x} /\ RunDone(q)
  BY <1>1, <1>2
<1> QED  BY <1>3, DoneFacts

\* What is known of a call without a timeout that has been sent on k.
LEMMA SentPlain ==
    ASSUME NEW at, PlainInv(at), NEW x \in Call, Plain(x), NEW k \in Conn, NEW s \in Sent, at[x] = <<s, k>>
    PROVE  /\ io[k] # "closed" => WaitedFor(x) /\ x \notin Woken
           /\ \A j \in Conn : waitResult[j][x[1]] = x => j = k /\ WaitedFor(x) /\ x \notin Woken
<1>1. PlainOK(at[x], x) /\ at[x][1] = s /\ at[x][2] = k
  BY DEF PlainInv
<1>2. s # "gone"
  BY DEF Sent
<1>3. io[k] # "closed" => WaitedFor(x) /\ x \notin Woken
  BY <1>1 DEF PlainOK
<1>4. \A j \in Conn : waitResult[j][x[1]] = x => j = k /\ WaitedFor(x) /\ x \notin Woken
  BY <1>1, <1>2 DEF PlainOK
<1> QED  BY <1>3, <1>4

\* It goes on, on k or for good.
LEMMA SentOn ==
    ASSUME NEW at, PlainInv(at), NEW x \in Call, Plain(x), NEW k \in Conn, NEW s \in Sent, at[x] = <<s, k>>,
           NEW p, p[1] = "gone" \/ (p[1] \in Sent /\ p[2] = k),
           UNCHANGED <<n, waiting, wakes, waitResult, io>>
    PROVE  PlainOK(p, x)'
<1>1. /\ io[k] # "closed" => WaitedFor(x) /\ x \notin Woken
      /\ \A j \in Conn : waitResult[j][x[1]] = x => j = k /\ WaitedFor(x) /\ x \notin Woken
  BY SentPlain
<1>2. Woken' = Woken /\ (WaitedFor(x)' <=> WaitedFor(x))
  BY DEF Woken, WaitedFor
<1>3. p[1] \notin {"task", "lock", "wait"}
  BY DEF Sent
<1>4. p[1] \in Sent /\ io'[p[2]] # "closed" => WaitedFor(x)' /\ x \notin Woken'
  BY <1>1, <1>2 DEF Sent
<1>5. \A j \in Conn : waitResult'[j][x[1]] = x =>
          /\ WaitedFor(x)' /\ x \notin Woken'
          /\ p[1] = "gone" \/ (p[1] \in Sent /\ p[2] = j)
          /\ \A l \in Conn : waitResult'[l][x[1]] = x => l = j
  BY <1>1, <1>2
<1> QED  BY <1>3, <1>4, <1>5 DEF PlainOK

LEMMA IoAcceptStep ==
    ASSUME ClientInv, NEW k \in Conn, IoAccept(k)
    PROVE  ClientInv'
<1>t. CallerTypes /\ QueueTypes /\ ConnTypes /\ DoneTypes /\ ConnInv /\ WakeInv
  BY DEF ClientInv, ClientTypes
<1>1. PICK at \in [Call -> Places] : CallInv(at)
  BY DEF ClientInv
<1>p. PlaceInv(at) /\ PlainInv(at) /\ DoneInv(at)
  BY <1>1 DEF CallInv
<1>0. PICK x : x = Head(sendQ[k])
  OBVIOUS
<1>u. /\ UNCHANGED <<n, taskQ, thWait, waitSend, wire, decoding, answered, late>>
      /\ UNCHANGED <<waiting, wakes, io, doneRuns, stray, result, live, connQ, st, waitResult, cr>>
      /\ UNCHANGED <<qVars, connVars>> /\ TakenFrom(sendQ', sendQ, k, x)
      /\ datas' = [datas EXCEPT ![k] = Append(@, x)]
  BY <1>0 DEF IoAccept, th, srvVars, callVars, hist, qVars, connVars, TakenFrom
<1>q. Queues(at, sendQ, "send") /\ Queues(at, datas, "data") /\ Queues(at, waitSend, "wait")
  BY <1>t, <1>p, QueuesOf
<1>f. x \in Call /\ at[x] = <<"send", k>> /\ \A p : Moves(sendQ', sendQ, x, "send", at[x], p)
  BY <1>q, <1>u, QueueOut
<1> DEFINE p == <<"data", k>>
<1>b. p \in Places /\ p[1] = "data" /\ p[2] = k /\ p = <<"data", k>>
  BY DEF Places
<1> HIDE DEF p
<1>d. Moves(datas', datas, x, "data", at[x], p)
  <2>1. at[x][1] # "data" /\ datas' = [datas EXCEPT ![k] = Append(@, x)]
    BY <1>u, <1>f
  <2>2. Moves(datas', datas, x, "data", at[x], <<"data", k>>)
    BY <1>q, <1>f, <2>1, QueueIn
  <2> QED  BY <1>b, <2>2
<1>c. CallerTypes' /\ QueueTypes' /\ DoneTypes' /\ ConnInv' /\ WakeInv'
  BY <1>t, <1>u, QueueSame, ConnSame, WakeSame DEF CallerTypes, DoneTypes, WakeInv, WaitedFor
<1>2. ConnTypes'
  BY <1>t, <1>u, <1>f, <1>d DEF ConnTypes, Moves
<1>3. Goes(x, at[x], p)
  <2>1. Moves(waitSend', waitSend, x, "wait", at[x], p)
    <3>1. at[x][1] # "wait" /\ waitSend' = waitSend
      BY <1>f, <1>u
    <3> QED  BY <1>q, <3>1, QueueSameMoves
  <2>2. n' = n /\ at[x][1] # "new" /\ p[1] # "new" /\ thWait' = thWait /\ at[x] # <<"lock", None>>
    BY <1>u, <1>f, <1>b
  <2>3. at[x][1] \notin {"wire", "got"} /\ UNCHANGED <<wire, decoding>>
    BY <1>u, <1>f
  <2>4. Only(taskQ', taskQ, x, <<"task", None>>, at[x], p)
    BY <1>u, <1>f DEF Only
  <2>5. Moves(sendQ', sendQ, x, "send", at[x], p)
    BY <1>f
  <2> QED  BY <1>1, <1>p, <1>b, <1>d, <1>f, <2>1, <2>2, <2>3, <2>4, <2>5, GoesOn, OffWire
<1>w. Woken' = Woken /\ \A y \in Call : WaitedFor(y)' <=> WaitedFor(y)
  BY <1>u DEF Woken, WaitedFor
<1>4. Keeps(x)
  BY <1>u, <1>w DEF Keeps, Finished
<1>5. Plain(x) => PlainOK(p, x)'
  <2>1. "send" \in Sent /\ (p[1] = "gone" \/ (p[1] \in Sent /\ p[2] = k))
    BY <1>b DEF Sent
  <2> QED  BY <1>p, <1>f, <1>u, <2>1, SentOn
<1>6. ~Care(x) => DoneOK(p, x)'
  <2>1. ~Care(x) => doneRuns[x] = 0
    BY <1>p, <1>f, UnsentDone
  <2> QED  BY <1>u, <2>1 DEF DoneOK
<1>7. \E b \in [Call -> Places] : CallInv(b)'
  BY <1>t, <1>1, <1>b, <1>f, <1>3, <1>4, <1>5, <1>6, CallMove
<1> QED  BY <1>c, <1>2, <1>7 DEF ClientInv, ClientTypes

LEMMA IoCleanStep ==
    ASSUME ClientInv, NEW k \in Conn, IoClean(k)
    PROVE  ClientInv'
<1>t. CallerTypes /\ QueueTypes /\ ConnTypes /\ DoneTypes /\ ConnInv /\ WakeInv
  BY DEF ClientInv, ClientTypes
<1>1. PICK at \in [Call -> Places] : CallInv(at)
  BY DEF ClientInv
<1>p. PlaceInv(at) /\ PlainInv(at) /\ DoneInv(at)
  BY <1>1 DEF CallInv
<1>0. PICK x : x = Head(sendQ[k])
  OBVIOUS
<1>u. /\ UNCHANGED <<n, taskQ, thWait, waitSend, wire, decoding, answered, late, datas>>
      /\ UNCHANGED <<waiting, wakes, io, stray, result, connQ, st, waitResult, cr>>
      /\ UNCHANGED <<qVars, connVars>> /\ TakenFrom(sendQ', sendQ, k, x) /\ RunDone(<<x>>)
  BY <1>0 DEF IoClean, CleanDataOnClosing, th, srvVars, hist, qVars, connVars, TakenFrom
<1>q. Queues(at, sendQ, "send") /\ Queues(at, datas, "data") /\ Queues(at, waitSend, "wait")
  BY <1>t, <1>p, QueuesOf
<1>f. x \in Call /\ at[x] = <<"send", k>> /\ \A p : Moves(sendQ', sendQ, x, "send", at[x], p)
  BY <1>q, <1>u, QueueOut
<1>d. /\ DoneTypes' /\ live' \subseteq Call
      /\ \A y \in Call : y # x => doneRuns'[y] = doneRuns[y]
  <2>1. ~Care(x) => doneRuns[x] = 0
    BY <1>p, <1>f, UnsentDone
  <2> QED  BY <1>t, <1>u, <1>f, <2>1, OneDone
<1> DEFINE p == <<"gone", None>>
<1>b. p \in Places /\ p[1] = "gone"
  BY DEF Places
<1> HIDE DEF p
<1>c. CallerTypes' /\ QueueTypes' /\ ConnInv' /\ WakeInv'
  BY <1>t, <1>u, <1>d, QueueSame, ConnSame, WakeSame DEF CallerTypes, WakeInv, WaitedFor
<1>2. ConnTypes'
  BY <1>t, <1>u, <1>f DEF ConnTypes, Moves
<1>3. Goes(x, at[x], p)
  <2>1. /\ Moves(waitSend', waitSend, x, "wait", at[x], p)
        /\ Moves(datas', datas, x, "data", at[x], p)
    <3>1. at[x][1] # "wait" /\ waitSend' = waitSend /\ at[x][1] # "data" /\ datas' = datas
      BY <1>f, <1>u
    <3> QED  BY <1>q, <3>1, QueueSameMoves
  <2>2. n' = n /\ at[x][1] # "new" /\ p[1] # "new" /\ thWait' = thWait /\ at[x] # <<"lock", None>>
    BY <1>u, <1>f, <1>b
  <2>3. at[x][1] \notin {"wire", "got"} /\ UNCHANGED <<wire, decoding>>
    BY <1>u, <1>f
  <2>4. Only(taskQ', taskQ, x, <<"task", None>>, at[x], p)
    BY <1>u, <1>f DEF Only
  <2>5. Moves(sendQ', sendQ, x, "send", at[x], p)
    BY <1>f
  <2> QED  BY <1>1, <1>p, <1>b, <1>f, <2>1, <2>2, <2>3, <2>4, <2>5, GoesOn, OffWire
<1>w. Woken' = Woken /\ \A y \in Call : WaitedFor(y)' <=> WaitedFor(y)
  BY <1>u DEF Woken, WaitedFor
<1>4. Keeps(x)
  BY <1>u, <1>w, <1>d DEF Keeps, Finished
<1>5. Plain(x) => PlainOK(p, x)'
  <2>1. "send" \in Sent /\ (p[1] = "gone" \/ (p[1] \in Sent /\ p[2] = k))
    BY <1>b DEF Sent
  <2> QED  BY <1>p, <1>f, <1>u, <2>1, SentOn
<1>6. ~Care(x) => DoneOK(p, x)'
  BY <1>b DEF DoneOK
<1>7. \E b \in [Call -> Places] : CallInv(b)'
  BY <1>t, <1>1, <1>b, <1>f, <1>3, <1>4, <1>5, <1>6, CallMove
<1> QED  BY <1>c, <1>d, <1>2, <1>7 DEF ClientInv, ClientTypes

LEMMA EncodeStep ==
    ASSUME ClientInv, NEW k \in Conn, Encode(k)
    PROVE  ClientInv'
<1>t. CallerTypes /\ QueueTypes /\ ConnTypes /\ DoneTypes /\ ConnInv /\ WakeInv
  BY DEF ClientInv, ClientTypes
<1>1. PICK at \in [Call -> Places] : CallInv(at)
  BY DEF ClientInv
<1>p. PlaceInv(at) /\ PlainInv(at) /\ DoneInv(at)
  BY <1>1 DEF CallInv
<1>0. PICK x : x = Head(datas[k])
  OBVIOUS
<1>u. /\ UNCHANGED <<n, taskQ, thWait, waitSend, decoding, answered, late, sendQ>>
      /\ UNCHANGED <<waiting, wakes, io, stray, result, connQ, st, waitResult, cr>>
      /\ UNCHANGED <<qVars, connVars>> /\ TakenFrom(datas', datas, k, x) /\ RunDone(<<x>>)
      /\ wire' = [wire EXCEPT ![k] = IF Care(x) THEN @ \cup {x} ELSE @]
      /\ io[k] \in {"open", "closing"}
  BY <1>0 DEF Encode, th, qVars, connVars, TakenFrom
<1>q. Queues(at, sendQ, "send") /\ Queues(at, datas, "data") /\ Queues(at, waitSend, "wait")
  BY <1>t, <1>p, QueuesOf
<1>f. x \in Call /\ at[x] = <<"data", k>> /\ \A p : Moves(datas', datas, x, "data", at[x], p)
  BY <1>q, <1>u, QueueOut
<1>d. /\ DoneTypes' /\ live' \subseteq Call
      /\ \A y \in Call : y # x => doneRuns'[y] = doneRuns[y]
  <2>1. ~Care(x) => DoneOK(<<"data", k>>, x)
    BY <1>p, <1>f DEF DoneInv
  <2>2. ~Finished(k)
    BY <1>u DEF Finished
  <2>3. ~Care(x) => doneRuns[x] = 0
    BY <2>1, <2>2 DEF DoneOK
  <2> QED  BY <1>t, <1>u, <1>f, <2>3, OneDone
<1>v. /\ wire' \in [Conn -> SUBSET Call]
      /\ \A j \in Conn : \A y \in wire'[j] : y \in wire[j] \/ (y = x /\ j = k /\ Care(x))
  BY <1>t, <1>u, <1>f DEF ConnTypes
<1>n. \A j \in Conn : x \notin wire[j]
  BY <1>p, <1>f DEF PlaceInv
<1> DEFINE p == IF Care(x) THEN <<"wire", k>> ELSE <<"gone", None>>
<1>b. /\ p \in Places /\ p[1] \in {"wire", "gone"} /\ (p[1] = "wire" => p[2] = k)
      /\ (Care(x) => p = <<"wire", k>>) /\ (~Care(x) => p[1] = "gone")
  BY DEF Places
<1> HIDE DEF p
<1>c. CallerTypes' /\ QueueTypes' /\ ConnInv' /\ WakeInv'
  BY <1>t, <1>u, <1>d, QueueSame, ConnSame, WakeSame DEF CallerTypes, WakeInv, WaitedFor
<1>2. ConnTypes'
  BY <1>t, <1>u, <1>f, <1>v DEF ConnTypes, Moves
<1>3. Goes(x, at[x], p)
  <2>1. /\ Moves(waitSend', waitSend, x, "wait", at[x], p)
        /\ Moves(sendQ', sendQ, x, "send", at[x], p)
    <3>1. at[x][1] # "wait" /\ waitSend' = waitSend /\ at[x][1] # "send" /\ sendQ' = sendQ
      BY <1>f, <1>u
    <3> QED  BY <1>q, <3>1, QueueSameMoves
  <2>2. n' = n /\ at[x][1] # "new" /\ p[1] # "new" /\ thWait' = thWait /\ at[x] # <<"lock", None>>
    BY <1>u, <1>f, <1>b
  <2>3. \A j \in Conn : decoding'[j] = decoding[j] /\ at[x] # <<"got", j>>
    BY <1>u, <1>f
  <2>4. Only(taskQ', taskQ, x, <<"task", None>>, at[x], p)
    BY <1>u, <1>f DEF Only
  <2>5. Moves(datas', datas, x, "data", at[x], p)
    BY <1>f
  <2>6. \A j \in Conn : \A y \in wire'[j] : \/ y = x /\ p = <<"wire", j>> /\ Care(x)
                                            \/ y # x /\ y \in wire[j]
    BY <1>v, <1>n, <1>b
  <2> QED  BY <1>1, <1>p, <1>b, <1>f, <2>1, <2>2, <2>3, <2>4, <2>5, <2>6, GoesOn
<1>w. Woken' = Woken /\ \A y \in Call : WaitedFor(y)' <=> WaitedFor(y)
  BY <1>u DEF Woken, WaitedFor
<1>4. Keeps(x)
  BY <1>u, <1>w, <1>d DEF Keeps, Finished
<1>5. Plain(x) => PlainOK(p, x)'
  <2>1. "data" \in Sent /\ (p[1] = "gone" \/ (p[1] \in Sent /\ p[2] = k))
    BY <1>b DEF Sent
  <2> QED  BY <1>p, <1>f, <1>u, <2>1, SentOn
<1>6. ~Care(x) => DoneOK(p, x)'
  BY <1>b DEF DoneOK
<1>7. \E b \in [Call -> Places] : CallInv(b)'
  BY <1>t, <1>1, <1>b, <1>f, <1>3, <1>4, <1>5, <1>6, CallMove
<1> QED  BY <1>c, <1>d, <1>2, <1>7 DEF ClientInv, ClientTypes

LEMMA IoClosesStep ==
    ASSUME ClientInv, NEW k \in Conn, IoCloses(k)
    PROVE  ClientInv'
<1>t. CallerTypes /\ QueueTypes /\ ConnTypes /\ DoneTypes /\ ConnInv /\ WakeInv
  BY DEF ClientInv, ClientTypes
<1>1. PICK at \in [Call -> Places] : CallInv(at)
  BY DEF ClientInv
<1>u. /\ UNCHANGED <<n, taskQ, thWait, waitSend, sendQ, datas, wire, decoding, answered, late>>
      /\ UNCHANGED <<waiting, wakes, waitResult, doneRuns, stray, result, live, connQ, st, cr>>
      /\ UNCHANGED qVars /\ io[k] = "open" /\ io' = [io EXCEPT ![k] = "closing"]
  BY DEF IoCloses, th, srvVars, callVars, hist, qVars, connVars
<1>s. \A j \in Conn : io'[j] = IF j = k THEN "closing" ELSE io[j]
  BY <1>t, <1>u DEF ConnTypes
<1>2. CallerTypes' /\ DoneTypes' /\ QueueTypes' /\ WakeInv'
  BY <1>t, <1>u, QueueSame, WakeSame DEF CallerTypes, DoneTypes, WakeInv, WaitedFor
<1>3. ConnTypes'
  <2>1. io' \in [Conn -> {"new", "open", "closing", "closed"}]
    BY <1>t, <1>u DEF ConnTypes
  <2> QED  BY <1>t, <1>u, <2>1 DEF ConnTypes
<1>m. /\ \A j \in Conn : io'[j] = "closed" <=> io[j] = "closed"
      /\ \A j \in Conn : io'[j] = "new" <=> io[j] = "new"
  BY <1>u, <1>s
<1>4. ConnInv'
  <2>1. (thWait # None => thWait[1] \in Conn) /\ (cr.at # "idle" => cr.conn \in Conn)
    BY <1>t DEF ConnTypes, ConnInv
  <2> QED  BY <1>t, <1>u, <1>m, <2>1 DEF ConnInv, Draining, IsAt
<1>5. \A j \in Conn : Finished(j) => Finished(j)'
  BY <1>u, <1>m DEF Finished
<1>6. \E b \in [Call -> Places] : CallInv(b)'
  BY <1>1, <1>u, <1>m, <1>5, CallKept
<1> QED  BY <1>2, <1>3, <1>4, <1>6 DEF ClientInv, ClientTypes

LEMMA OnCloseStep ==
    ASSUME ClientInv, NEW k \in Conn, OnClose(k)
    PROVE  ClientInv'
<1>t. CallerTypes /\ QueueTypes /\ ConnTypes /\ DoneTypes /\ ConnInv /\ WakeInv
  BY DEF ClientInv, ClientTypes
<1>1. PICK at \in [Call -> Places] : CallInv(at)
  BY DEF ClientInv
<1>u. /\ UNCHANGED <<n, taskQ, thWait, waitSend, sendQ, datas, wire, decoding, answered, late>>
      /\ UNCHANGED <<waiting, wakes, waitResult, doneRuns, stray, result, live, st, cr>>
      /\ UNCHANGED <<slots, conIndex, dropped>>
      /\ io[k] = "closing" /\ io' = [io EXCEPT ![k] = "closed"] /\ decoding[k] = None
      /\ connQ' = Append(connQ, CloseOf(k))
  BY DEF OnClose, th, srvVars, callVars, hist, connVars, CloseOf
<1>s. \A j \in Conn : io'[j] = IF j = k THEN "closed" ELSE io[j]
  BY <1>t, <1>u DEF ConnTypes
<1>q. /\ connQ' \in Seq(ConnTask) /\ IsInjective(connQ')
      /\ Range(connQ') = Range(connQ) \cup {CloseOf(k)}
  <2>1. connQ \in Seq(ConnTask) /\ IsInjective(connQ)
    BY <1>t DEF QueueTypes, ConnInv, ConnTask
  <2>2. CloseOf(k) \in ConnTask /\ CloseOf(k) \notin Range(connQ)
    BY <1>t, <1>u DEF ConnInv, ConnTask, CloseOf
  <2> QED  BY <1>u, <2>1, <2>2, AppendLink
<1>2. CallerTypes' /\ DoneTypes' /\ QueueTypes' /\ WakeInv'
  <2>1. connQ' \in Seq([type : {"CONNECT", "CLOSE"}, conn : Conn])
    BY <1>q DEF ConnTask
  <2> QED  BY <1>t, <1>u, <2>1, WakeSame DEF CallerTypes, DoneTypes, QueueTypes, WakeInv, WaitedFor
<1>3. ConnTypes'
  <2>1. io' \in [Conn -> {"new", "open", "closing", "closed"}]
    BY <1>t, <1>u DEF ConnTypes
  <2> QED  BY <1>t, <1>u, <2>1 DEF ConnTypes
<1>m. /\ \A j \in Conn : io[j] = "closed" => io'[j] = "closed"
      /\ \A j \in Conn : io'[j] = "new" <=> io[j] = "new"
  BY <1>u, <1>s
<1>4. ConnInv'
  <2>1. (thWait # None => thWait[1] \in Conn) /\ (cr.at # "idle" => cr.conn \in Conn)
    BY <1>t DEF ConnTypes, ConnInv
  <2>2. \A i, j \in Conn : ConnectOf(i) # CloseOf(j) /\ (CloseOf(i) = CloseOf(j) => i = j)
    BY DEF ConnectOf, CloseOf
  <2>3. \A j \in Conn : CloseOf(j) \in Range(connQ') => io'[j] = "closed"
    BY <1>t, <1>q, <1>s, <1>m, <2>2 DEF ConnInv
  <2>4. \A j \in Conn : ConnectOf(j) \in Range(connQ') => st'[j] = "CONNECTING" /\ ~IsAt("connect", j)'
    BY <1>t, <1>u, <1>q, <2>2 DEF ConnInv, IsAt
  <2>5. \A j \in Conn : io'[j] = "closed" => decoding'[j] = None
    BY <1>t, <1>u, <1>s DEF ConnInv
  <2>6. \A j \in Conn : waitSend'[j] # <<>> => st'[j] = "CONNECTING" \/ Draining(j)'
    BY <1>t, <1>u DEF ConnInv, Draining
  <2> QED  BY <1>t, <1>u, <1>m, <1>q, <2>1, <2>3, <2>4, <2>5, <2>6 DEF ConnInv
<1>5. \A j \in Conn : Finished(j) => Finished(j)'
  <2>1. \A j \in Conn : CloseOf(j) = CloseOf(k) => j = k
    BY DEF CloseOf
  <2> QED  BY <1>u, <1>m, <1>q, <2>1 DEF Finished
<1>6. \E b \in [Call -> Places] : CallInv(b)'
  BY <1>1, <1>u, <1>m, <1>5, CallKept
<1> QED  BY <1>2, <1>3, <1>4, <1>6 DEF ClientInv, ClientTypes

LEMMA DecodeLockStep ==
    ASSUME ClientInv, NEW k \in Conn, NEW x \in Call, DecodeLock(k, x)
    PROVE  ClientInv'
<1>t. CallerTypes /\ QueueTypes /\ ConnTypes /\ DoneTypes /\ ConnInv /\ WakeInv
  BY DEF ClientInv, ClientTypes
<1>1. PICK at \in [Call -> Places] : CallInv(at)
  BY DEF ClientInv
<1>p. PlaceInv(at) /\ PlainInv(at) /\ DoneInv(at)
  BY <1>1 DEF CallInv
<1>u. /\ UNCHANGED <<n, taskQ, thWait, waitSend, answered, late, sendQ, datas>>
      /\ UNCHANGED <<waiting, wakes, io, stray, result, live, connQ, st, waitResult, cr, doneRuns>>
      /\ UNCHANGED <<qVars, connVars, ioVars>> /\ io[k] \in {"open", "closing"}
      /\ x \in wire[k] /\ decoding[k] = None
      /\ decoding' = [decoding EXCEPT ![k] = x] /\ wire' = [wire EXCEPT ![k] = @ \ {x}]
  BY DEF DecodeLock, Locked, th, callVars, hist, qVars, connVars, ioVars
<1>f. at[x] = <<"wire", k>> /\ Care(x)
  BY <1>p, <1>u DEF PlaceInv
<1>s. \A j \in Conn : /\ decoding'[j] = IF j = k THEN x ELSE decoding[j]
                      /\ wire'[j] = IF j = k THEN wire[j] \ {x} ELSE wire[j]
  BY <1>t, <1>u DEF ConnTypes
<1> DEFINE p == <<"got", k>>
<1>b. p \in Places /\ p[1] = "got" /\ p[2] = k /\ p = <<"got", k>>
  BY DEF Places
<1> HIDE DEF p
<1>c. CallerTypes' /\ QueueTypes' /\ DoneTypes' /\ WakeInv'
  BY <1>t, <1>u, QueueSame, WakeSame DEF CallerTypes, DoneTypes, WakeInv, WaitedFor
<1>2. ConnTypes'
  <2>1. decoding' \in [Conn -> Call \cup {None}] /\ wire' \in [Conn -> SUBSET Call]
    BY <1>t, <1>u DEF ConnTypes
  <2> QED  BY <1>t, <1>u, <2>1 DEF ConnTypes
<1>3. ConnInv'
  <2>1. \A j \in Conn : io'[j] = "closed" => decoding'[j] = None
    BY <1>t, <1>u, <1>s DEF ConnInv
  <2> QED  BY <1>t, <1>u, <2>1 DEF ConnInv, Draining, IsAt
<1>4. Goes(x, at[x], p)
  <2>1. /\ Moves(waitSend', waitSend, x, "wait", at[x], p)
        /\ Moves(sendQ', sendQ, x, "send", at[x], p)
        /\ Moves(datas', datas, x, "data", at[x], p)
    <3>1. /\ at[x][1] # "wait" /\ waitSend' = waitSend /\ at[x][1] # "send" /\ sendQ' = sendQ
          /\ at[x][1] # "data" /\ datas' = datas
      BY <1>f, <1>u
    <3>2. Queues(at, sendQ, "send") /\ Queues(at, datas, "data") /\ Queues(at, waitSend, "wait")
      BY <1>t, <1>p, QueuesOf
    <3> QED  BY <3>1, <3>2, QueueSameMoves
  <2>2. n' = n /\ at[x][1] # "new" /\ p[1] # "new" /\ thWait' = thWait /\ at[x] # <<"lock", None>>
    BY <1>u, <1>f, <1>b
  <2>3. \A j \in Conn : \/ decoding'[j] = decoding[j] /\ at[x] # <<"got", j>>
                        \/ decoding'[j] # None => decoding'[j] = x /\ p = <<"got", j>> /\ Care(x)
    <3> TAKE j \in Conn
    <3>1. CASE j = k
      BY <1>s, <1>f, <1>b, <3>1
    <3>2. CASE j # k
      <4>1. decoding'[j] = decoding[j]
        BY <1>t, <1>u, <3>2 DEF ConnTypes
      <4>2. at[x] # <<"got", j>>
        BY <1>f
      <4> QED  BY <4>1, <4>2
    <3> QED  BY <3>1, <3>2
  <2>4. Only(taskQ', taskQ, x, <<"task", None>>, at[x], p)
    BY <1>u, <1>f DEF Only
  <2>5. \A j \in Conn : \A y \in wire'[j] : y # x /\ y \in wire[j]
    <3> TAKE j \in Conn
    <3>1. CASE j = k
      BY <1>s, <3>1
    <3>2. CASE j # k
      <4>1. \A y \in wire[j] : at[y] = <<"wire", j>>
        BY <1>p DEF PlaceInv
      <4> QED  BY <1>s, <1>f, <3>2, <4>1
    <3> QED  BY <3>1, <3>2
  <2> QED  BY <1>1, <1>p, <1>b, <2>1, <2>2, <2>3, <2>4, <2>5, GoesOn
<1>w. Woken' = Woken /\ \A y \in Call : WaitedFor(y)' <=> WaitedFor(y)
  BY <1>u DEF Woken, WaitedFor
<1>5. Keeps(x)
  BY <1>u, <1>w DEF Keeps, Finished
<1>6. Plain(x) => PlainOK(p, x)'
  <2>1. "wire" \in Sent /\ (p[1] = "gone" \/ (p[1] \in Sent /\ p[2] = k))
    BY <1>b DEF Sent
  <2> QED  BY <1>p, <1>f, <1>u, <2>1, SentOn
<1>7. \E b \in [Call -> Places] : CallInv(b)'
  BY <1>t, <1>1, <1>b, <1>f, <1>4, <1>5, <1>6, CallMove
<1> QED  BY <1>c, <1>2, <1>3, <1>7 DEF ClientInv, ClientTypes

\* The call that decode() finds under the callId of a response is the one that
\* was sent: of two calls of a coroutine only one is waited for.
LEMMA FoundIsSent ==
    ASSUME ConnTypes, ConnInv, WakeInv, NEW at, PlaceInv(at), PlainInv(at), NEW k \in Conn,
           decoding[k] # None, NEW x, x = decoding[k], Matches(waitResult[k][x[1]], x)
    PROVE  waitResult[k][x[1]] = x
<1>1. x \in Call /\ at[x] = <<"got", k>> /\ Care(x) /\ io[k] # "closed"
  BY DEF ConnTypes, PlaceInv, ConnInv
<1>2. PICK task : task = waitResult[k][x[1]]
  OBVIOUS
<1>3. x[1] \in Caller
  BY <1>1, CallFacts
<1>4. task \in Call /\ task[1] = x[1] /\ Care(task) /\ Expire(task) = Expire(x)
  <2>1. task \in Call \cup {None}
    BY <1>2, <1>3 DEF ConnTypes
  <2>2. task # None /\ Expire(task) = Expire(x)
    BY <1>2 DEF Matches
  <2> QED  BY <1>2, <1>3, <2>1, <2>2 DEF WakeInv
<1>5. CASE Plain(task) /\ Plain(x)
  <2>1. "got" \in Sent
    BY DEF Sent
  <2>2. WaitedFor(x)
    BY <1>1, <1>5, <2>1, SentPlain
  <2>3. WaitedFor(task)
    BY <1>2, <1>4, <1>5 DEF PlainInv, PlainOK
  <2>4. task[2] = x[2]
    BY <1>4, <2>2, <2>3 DEF WaitedFor
  <2> QED  BY <1>1, <1>2, <1>4, <2>4, CallFacts
<1> QED  BY <1>1, <1>2, <1>4, <1>5, MatchesOwn

LEMMA DecodeStep ==
    ASSUME ClientInv, NEW k \in Conn, Decode(k)
    PROVE  ClientInv'
<1>t. CallerTypes /\ QueueTypes /\ ConnTypes /\ DoneTypes /\ ConnInv /\ WakeInv
  BY DEF ClientInv, ClientTypes
<1>1. PICK at \in [Call -> Places] : CallInv(at)
  BY DEF ClientInv
<1>p. PlaceInv(at) /\ PlainInv(at) /\ DoneInv(at)
  BY <1>1 DEF CallInv
<1>0. PICK x : x = decoding[k]
  OBVIOUS
<1>u. /\ UNCHANGED <<n, taskQ, thWait, waitSend, late, sendQ, datas, wire>>
      /\ UNCHANGED <<waiting, io, result, live, connQ, st, cr, doneRuns>>
      /\ UNCHANGED qVars /\ decoding[k] # None /\ decoding' = [decoding EXCEPT ![k] = None]
  BY DEF Decode, Locked, th, callVars, ioVars, qVars
<1>f. x \in Call /\ at[x] = <<"got", k>> /\ Care(x) /\ x[1] \in Caller
  BY <1>0, <1>t, <1>p, <1>u, CallFacts DEF ConnTypes, PlaceInv
\* Either x is the call found and is woken, or nothing happens to any call.
<1>a. \/ /\ waitResult[k][x[1]] = x
         /\ waitResult' = [waitResult EXCEPT ![k][x[1]] = None]
         /\ answered' = answered \cup {x} /\ stray' = FALSE
         /\ wakes' = wakes \o WakeAll(<<x>>, {})
      \/ UNCHANGED <<waitResult, answered, stray, wakes>>
  <2>1. CASE /\ Matches(waitResult[k][x[1]], x)
             /\ waitResult' = [waitResult EXCEPT ![k][x[1]] = None]
             /\ answered' = IF waitResult[k][x[1]] = x THEN answered \cup {x} ELSE answered
             /\ stray' = (stray \/ waitResult[k][x[1]] # x)
             /\ wakes' = Append(wakes, [call |-> waitResult[k][x[1]], failed |-> FALSE])
    <3>1. waitResult[k][x[1]] = x
      BY <1>0, <1>t, <1>p, <1>u, <2>1, FoundIsSent
    <3>2. stray' = FALSE
      BY <1>t, <2>1, <3>1 DEF CallerTypes
    <3>3. wakes' = wakes \o WakeAll(<<x>>, {})
      <4> DEFINE E == [call : Call, failed : BOOLEAN]
                 e == [call |-> x, failed |-> FALSE]
      <4>1. WakeAll(<<x>>, {}) = <<e>>
        <5>1. PICK xs : xs = <<x>>
          OBVIOUS
        <5>2. DOMAIN xs = 1 .. 1 /\ \A i \in 1 .. 1 : xs[i] = x
          BY <5>1
        <5>3. WakeAll(xs, {}) = [i \in 1 .. 1 |-> e]
          <6>1. WakeAll(xs, {}) = [i \in 1 .. 1 |-> [call |-> xs[i], failed |-> xs[i] \in {}]]
            BY <5>2, Zenon DEF WakeAll
          <6>2. \A i \in 1 .. 1 : [call |-> xs[i], failed |-> xs[i] \in {}] = e
            <7> TAKE i \in 1 .. 1
            <7>1. xs[i] = x /\ (xs[i] \in {}) = FALSE
              BY <5>2
            <7> QED  BY <7>1, Zenon
          <6> QED  BY <6>1, <6>2, Zenon
        <5> HIDE DEF e
        <5>4. [i \in 1 .. 1 |-> e] = <<e>>
          OBVIOUS
        <5> QED  BY <5>1, <5>3, <5>4
      <4>2. wakes \in Seq(E) /\ e \in E
        BY <1>t, <1>f DEF CallerTypes
      <4>3. wakes' = Append(wakes, e)
        BY <2>1, <3>1
      <4> HIDE DEF E, e
      <4>4. Append(wakes, e) = wakes \o <<e>>
        BY <4>2
      <4> QED  BY <4>1, <4>3, <4>4
    <3> QED  BY <2>1, <3>1, <3>2, <3>3
  <2>2. CASE UNCHANGED <<waitResult, answered, stray, wakes>>
    BY <2>2
  <2> QED  BY <1>0, <2>1, <2>2 DEF Decode
<1>k. Plain(x) => /\ WaitedFor(x) /\ x \notin Woken
                  /\ \A j \in Conn : waitResult[j][x[1]] = x => j = k
  <2>1. "got" \in Sent
    BY DEF Sent
  <2>2. io[k] # "closed"
    BY <1>t, <1>u DEF ConnInv
  <2> QED  BY <1>p, <1>f, <2>1, <2>2, SentPlain
<1>g. \A y : WaitedFor(y)' <=> WaitedFor(y)
  BY <1>u DEF WaitedFor
\* What that means for wakes and for the map.
<1>2. /\ wakes' \in Seq([call : Call, failed : BOOLEAN])
      /\ \A i, j \in DOMAIN wakes' :
            wakes'[i].call = wakes'[j].call /\ Plain(wakes'[i].call) => i = j
      /\ waitResult[k][x[1]] = x \/ Woken' = Woken
      /\ Woken' \subseteq Woken \cup {x}
  <2>1. CASE wakes' = wakes \o WakeAll(<<x>>, {}) /\ waitResult[k][x[1]] = x
    <3>1. PICK xs : xs = <<x>>
      OBVIOUS
    <3>2. xs \in Seq(Call) /\ IsInjective(xs) /\ Range(xs) = {x}
      BY <1>f, <3>1 DEF IsInjective, Range
    <3>3. wakes' = wakes \o WakeAll(xs, {})
      BY <2>1, <3>1
    <3> QED  BY <1>t, <1>k, <2>1, <3>2, <3>3, WakesMore
  <2>2. CASE wakes' = wakes
    BY <1>t, <2>2 DEF CallerTypes, WakeInv, Woken
  <2> QED  BY <1>a, <2>1, <2>2
<1>r. /\ waitResult' \in [Conn -> [Caller -> Call \cup {None}]]
      /\ \A j \in Conn, c \in Caller : waitResult'[j][c] \in {waitResult[j][c], None}
      /\ waitResult'[k][x[1]] # x
  <2>1. CASE waitResult' = [waitResult EXCEPT ![k][x[1]] = None]
    <3>1. x # None
      BY <1>f, RpcClientAssumption
    <3> QED  BY <1>t, <1>f, <2>1, <3>1 DEF ConnTypes
  <2>2. CASE waitResult' = waitResult /\ waitResult[k][x[1]] # x
    BY <1>t, <2>2 DEF ConnTypes
  <2>3. CASE waitResult' = waitResult /\ waitResult[k][x[1]] = x
    <3>1. x # None
      BY <1>f, RpcClientAssumption
    <3>2. Matches(waitResult[k][x[1]], x)
      BY <2>3, <3>1 DEF Matches
    <3> QED  BY <1>0, <1>t, <1>f, <2>1, <3>2 DEF Decode
  <2> QED  BY <1>a, <2>1, <2>2, <2>3
<1>c. CallerTypes' /\ QueueTypes' /\ DoneTypes'
  <2>1. answered' \subseteq Call /\ stray' = FALSE
    BY <1>t, <1>a, <1>f DEF CallerTypes
  <2> QED  BY <1>t, <1>u, <1>2, <2>1, QueueSame DEF CallerTypes, DoneTypes
<1>s. \A j \in Conn : decoding'[j] = IF j = k THEN None ELSE decoding[j]
  BY <1>t, <1>u DEF ConnTypes
<1>3. ConnTypes'
  <2>1. decoding' \in [Conn -> Call \cup {None}]
    BY <1>t, <1>u DEF ConnTypes
  <2> QED  BY <1>t, <1>u, <1>r, <2>1 DEF ConnTypes
<1>4. ConnInv'
  <2>1. \A j \in Conn : io'[j] = "closed" => decoding'[j] = None
    BY <1>t, <1>u, <1>s DEF ConnInv
  <2>2. \A j \in Conn : io'[j] = "new" => \A c \in Caller : waitResult'[j][c] = None
    BY <1>t, <1>u, <1>r DEF ConnInv
  <2> QED  BY <1>t, <1>u, <2>1, <2>2 DEF ConnInv, Draining, IsAt
<1>5. WakeInv'
  <2>1. \A y \in Woken' : Care(y) /\ (Plain(y) => WaitedFor(y)')
    BY <1>t, <1>f, <1>k, <1>g, <1>2 DEF WakeInv
  <2>2. \A j \in Conn, c \in Caller : waitResult'[j][c] # None =>
          waitResult'[j][c][1] = c /\ Care(waitResult'[j][c])
    BY <1>t, <1>r DEF WakeInv
  <2> QED  BY <1>t, <1>u, <1>2, <2>1, <2>2 DEF WakeInv
<1> DEFINE p == <<"gone", None>>
<1>b. p \in Places /\ p[1] = "gone"
  BY DEF Places
<1> HIDE DEF p
<1>6. Goes(x, at[x], p)
  <2>1. /\ Moves(waitSend', waitSend, x, "wait", at[x], p)
        /\ Moves(sendQ', sendQ, x, "send", at[x], p)
        /\ Moves(datas', datas, x, "data", at[x], p)
    <3>1. /\ at[x][1] # "wait" /\ waitSend' = waitSend /\ at[x][1] # "send" /\ sendQ' = sendQ
          /\ at[x][1] # "data" /\ datas' = datas
      BY <1>f, <1>u
    <3>2. Queues(at, sendQ, "send") /\ Queues(at, datas, "data") /\ Queues(at, waitSend, "wait")
      BY <1>t, <1>p, QueuesOf
    <3> QED  BY <3>1, <3>2, QueueSameMoves
  <2>2. n' = n /\ at[x][1] # "new" /\ p[1] # "new" /\ thWait' = thWait /\ at[x] # <<"lock", None>>
    BY <1>u, <1>f, <1>b
  <2>3. \A j \in Conn : \/ decoding'[j] = decoding[j] /\ at[x] # <<"got", j>>
                        \/ decoding'[j] # None => decoding'[j] = x /\ p = <<"got", j>> /\ Care(x)
    BY <1>s, <1>f
  <2>4. Only(taskQ', taskQ, x, <<"task", None>>, at[x], p)
    BY <1>u, <1>f DEF Only
  <2>5. \A j \in Conn : \A y \in wire'[j] : y # x /\ y \in wire[j]
    BY <1>u, <1>f, <1>p DEF PlaceInv
  <2> QED  BY <1>1, <1>p, <1>b, <1>f, <2>1, <2>2, <2>3, <2>4, <2>5, GoesOn
<1>m. \A y \in Call, j \in Conn : waitResult'[j][y[1]] = y => waitResult[j][y[1]] = y
  <2> TAKE y \in Call, j \in Conn
  <2>1. y[1] \in Caller /\ y # None
    BY CallFacts, RpcClientAssumption
  <2> QED  BY <1>r, <2>1
<1>7. Keeps(x)
  <2>1. \A y \in Call : y # x /\ y \notin Woken => y \notin Woken'
    BY <1>2
  <2> QED  BY <1>u, <1>g, <1>m, <2>1 DEF Keeps, Finished
<1>8. Plain(x) => PlainOK(p, x)'
  <2>1. Plain(x) => \A j \in Conn : waitResult'[j][x[1]] # x
    BY <1>f, <1>k, <1>m, <1>r
  <2> QED  BY <1>b, <2>1 DEF PlainOK, Sent
<1>9. \E b \in [Call -> Places] : CallInv(b)'
  BY <1>t, <1>1, <1>b, <1>f, <1>6, <1>7, <1>8, CallMove
<1> QED  BY <1>c, <1>3, <1>4, <1>5, <1>9 DEF ClientInv, ClientTypes

-----------------------------------------------------------------------------
LEMMA ClientNext == ClientInv /\ [Next]_vars => ClientInv'
<1> SUFFICES ASSUME ClientInv, [Next]_vars PROVE ClientInv'
  OBVIOUS
<1>1. ASSUME NEW c \in Caller, CallMethod(c) \/ Timeout(c) PROVE ClientInv'
  BY <1>1, CallMethodStep, TimeoutStep
<1>2. ASSUME NEW x \in Call, Expires(x) PROVE ClientInv'
  BY <1>2, ExpiresStep
<1>3. CASE Resume
  BY <1>3, ResumeStep
<1>4. CASE TaskHandleRoutine
  <2>1. ASSUME NEW x \in Call, TaskConnects(x) \/ TaskWaits(x) \/ TaskSends(x)
        PROVE  ClientInv'
    BY <2>1, TaskConnectsStep, TaskWaitsStep, TaskSendsStep
  <2>2. ASSUME NEW x \in Call, TaskExpired(x) \/ TaskLock(x) PROVE ClientInv'
    BY <2>2, TaskKept
  <2>3. CASE TaskLocked
    BY <2>3, TaskLockedStep
  <2> QED  BY <1>4, <2>1, <2>2, <2>3 DEF TaskHandleRoutine
<1>5. CASE DropChannel \/ ClearChannel
  BY <1>5, ChannelStep
<1>6. ASSUME NEW k \in Conn, ConnectionRoutine(k) PROVE ClientInv'
  <2>1. CASE CloseTask(k) \/ ConnectTask(k) \/ ConnectFails(k) \/ Connected(k)
    BY <2>1, CloseTaskStep, ConnectTaskStep, ConnectFailsStep, ConnectedStep
  <2>2. CASE DrainSends(k) \/ DrainExpired(k)
    BY <2>2, DrainSendsStep, DrainExpiredStep
  <2>3. CASE DrainLock(k) \/ Drained(k)
    BY <2>3, DrainEnds
  <2> QED  BY <1>6, <2>1, <2>2, <2>3 DEF ConnectionRoutine
<1>7. ASSUME NEW k \in Conn, IO(k) PROVE ClientInv'
  BY <1>7, IoAcceptStep, IoCleanStep, EncodeStep, DecodeStep DEF IO
<1>8. ASSUME NEW k \in Conn, IoCloses(k) \/ OnClose(k) PROVE ClientInv'
  BY <1>8, IoClosesStep, OnCloseStep
<1>9. ASSUME NEW k \in Conn, NEW x \in Call, DecodeLock(k, x) PROVE ClientInv'
  BY <1>9, DecodeLockStep
<1>10. CASE UNCHANGED vars
  <2>t. CallerTypes /\ QueueTypes /\ ConnTypes /\ DoneTypes /\ ConnInv /\ WakeInv
    BY DEF ClientInv, ClientTypes
  <2>1. PICK at \in [Call -> Places] : CallInv(at)
    BY DEF ClientInv
  <2>u. /\ UNCHANGED <<n, taskQ, thWait, sendQ, datas, wire, decoding, answered, late, waitSend>>
        /\ UNCHANGED <<waiting, wakes, io, doneRuns, stray, result, live, connQ, st, waitResult, cr>>
        /\ UNCHANGED <<connVars, ioVars, qVars>>
    BY <1>10 DEF vars, th, srvVars, callVars, hist, ioVars, connVars, qVars
  <2>2. CallerTypes' /\ QueueTypes' /\ ConnTypes' /\ DoneTypes' /\ WakeInv' /\ ConnInv'
    BY <2>t, <2>u, QueueSame, ConnTypesSame, DoneSame, ConnSame, WakeSame
       DEF CallerTypes, WakeInv, WaitedFor
  <2>3. \E b \in [Call -> Places] : CallInv(b)'
    BY <2>1, <2>u, CallSame
  <2> QED  BY <2>2, <2>3 DEF ClientInv, ClientTypes
<1> QED  BY <1>1, <1>2, <1>3, <1>4, <1>5, <1>6, <1>7, <1>8, <1>9, <1>10 DEF Next

\* ClientInv says what ClientSound says.
LEMMA ClientInvSound == ASSUME ClientInv PROVE ClientSound
<1>t. CallerTypes /\ QueueTypes /\ ConnTypes /\ DoneTypes /\ ConnInv /\ WakeInv
  BY DEF ClientInv, ClientTypes
<1>1. TypeOK
  <2>1. \A c \in Caller : n[c] \in 0 .. Len(Kind[c])
    <3>1. \A c \in Caller : Len(Kind[c]) \in Nat
      BY RpcClientAssumption
    <3> QED  BY <1>t, <3>1 DEF CallerTypes
  <2>2. \A k \in Conn : {waitSend[k], sendQ[k], datas[k]} \subseteq Seq(Call)
    BY <1>t DEF ConnTypes
  <2> QED  BY <1>t, <2>1, <2>2 DEF TypeOK, CallerTypes, QueueTypes, ConnTypes, DoneTypes
<1>2. AssertsHold
  <2>1. ASSUME cr = Idle, connQ # <<>>
        PROVE  IF Head(connQ).type = "CLOSE" THEN waitSend[Head(connQ).conn] = <<>>
               ELSE st[Head(connQ).conn] = "CONNECTING"
    <3>1. PICK e : e = Head(connQ)
      OBVIOUS
    <3>2. e \in ConnTask /\ e \in Range(connQ)
      <4>1. connQ \in Seq(ConnTask) /\ IsInjective(connQ)
        BY <1>t DEF QueueTypes, ConnInv, ConnTask
      <4> QED  BY <2>1, <3>1, <4>1, TailLink
    <3>3. e.conn \in Conn /\ ((e = CloseOf(e.conn) /\ e.type = "CLOSE")
                              \/ (e = ConnectOf(e.conn) /\ e.type = "CONNECT"))
      BY <3>2 DEF ConnTask, CloseOf, ConnectOf
    <3>4. cr.at = "idle"
      BY <2>1 DEF Idle
    <3>5. e.type = "CLOSE" => waitSend[e.conn] = <<>>
      BY <1>t, <3>2, <3>3, <3>4 DEF ConnInv, Draining
    <3>6. e.type # "CLOSE" => st[e.conn] = "CONNECTING"
      BY <1>t, <3>2, <3>3 DEF ConnInv
    <3> QED  BY <3>1, <3>5, <3>6
  <2> QED  BY <1>t, <2>1 DEF AssertsHold, ConnInv
<1>3. WokenByOwnResult
  BY <1>t DEF CallerTypes, WokenByOwnResult
<1> QED  BY <1>1, <1>2, <1>3 DEF ClientSound

\* No assertion of the threads of RpcClient fails, and whatever wakes a
\* coroutine in CallMethod() is meant for the call it waits for.
THEOREM ClientHolds == Spec => []ClientSound
<1>1. Init => ClientInv
  BY ClientInit
<1>2. ClientInv /\ [Next]_vars => ClientInv'
  BY ClientNext
<1>3. ClientInv => ClientSound
  BY ClientInvSound
<1> QED  BY <1>1, <1>2, <1>3, PTL DEF Spec
=============================================================================
