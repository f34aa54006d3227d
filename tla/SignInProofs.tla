----------------------------- MODULE SignInProofs -----------------------------
(***************************************************************************)
(* Proofs about SignIn, for any number of trips to Google, requests in     *)
(* progress, accounts, addresses and faults, over either key-value store.  *)
(***************************************************************************)
EXTENDS SignIn, TLAPS

\* What the store holds under the keys of a flow.
KvTyped ==
  /\ kv \in [Key -> {None, "desktop", "web", "success", "error"} \cup User]
  /\ \A f \in Flow : /\ kv[<<"pending", f>>] \in {None, "desktop", "web"}
                     /\ kv[<<"relay", f>>] \in User \cup {None}
                     /\ kv[<<"web", f>>] \in {None, "success", "error"}

\* The fields of a stage.
LEMMA StageFields ==
  ASSUME NEW s \in Stage
  PROVE  /\ s.at \in {"idle", "read", "exchange", "identify", "lookup", "insert", "link",
                      "relay", "park", "fail", "issue", "commit", "setup"}
         /\ s.at = "read" => \E f \in Flow : \/ s.key = <<"pending", f>> /\ s.val \in {"desktop", "web"}
                                             \/ s.key = <<"relay", f>> /\ s.val \in User
         /\ s.at \in {"exchange", "identify", "lookup", "insert", "link",
                      "relay", "park", "fail", "issue"} => s.flow \in Flow
         /\ s.at = "link" => s.fresh \in BOOLEAN
         /\ s.at \in {"link", "relay", "issue", "commit", "setup"} => s.user \in User
         /\ s.at = "commit" => s.mail \in Email
BY DEF Stage, Idle

LEMMA InitType == Init => TypeOK
<1> SUFFICES ASSUME Init PROVE TypeOK
  OBVIOUS
<1>1. kv \in [Key -> {None, "desktop", "web", "success", "error"} \cup User]
  BY DEF Init
<1>2. \A f \in Flow : <<"pending", f>> \in Key /\ <<"relay", f>> \in Key /\ <<"web", f>> \in Key
  BY DEF Key
<1>3. \A f \in Flow : /\ kv[<<"pending", f>>] \in {None, "desktop", "web"}
                      /\ kv[<<"relay", f>>] \in User \cup {None}
                      /\ kv[<<"web", f>>] \in {None, "success", "error"}
  BY <1>2 DEF Init
<1>4. req \in [Request -> Stage]
  BY DEF Init, Stage
<1>5. /\ adaptor \in {"redis", "memory"} /\ started \subseteq Flow
      /\ consent \in [Flow -> {None, Declined} \cup (Sub \X Email)]
      /\ told \in [Flow -> {None, "success", "error"}]
      /\ email \in [User -> Email \cup {None}]
      /\ cred \in [User -> Request \cup {None, "register"}]
      /\ identity \in [Sub -> User \cup {None}]
      /\ issued \in [Flow -> Nat] /\ session \in [Flow -> User \cup {None}]
      /\ spent \subseteq Flow /\ raced \subseteq Flow /\ hurt \subseteq Web
      /\ faults \in 0..MaxFault
  BY FaultAssumption DEF Init
<1> QED
  BY <1>1, <1>3, <1>4, <1>5 DEF TypeOK

\* Writing one key of a flow.
LEMMA SetType ==
  ASSUME TypeOK, NEW f \in Flow, NEW v,
         \/ kv' = [kv EXCEPT ![<<"pending", f>>] = v] /\ v \in {None, "desktop", "web"}
         \/ kv' = [kv EXCEPT ![<<"relay", f>>] = v] /\ v \in User \cup {None}
         \/ kv' = [kv EXCEPT ![<<"web", f>>] = v] /\ v \in {None, "success", "error"}
  PROVE  KvTyped'
<1>1. /\ kv \in [Key -> {None, "desktop", "web", "success", "error"} \cup User]
      /\ \A g \in Flow : /\ kv[<<"pending", g>>] \in {None, "desktop", "web"}
                         /\ kv[<<"relay", g>>] \in User \cup {None}
                         /\ kv[<<"web", g>>] \in {None, "success", "error"}
  BY DEF TypeOK
<1>2. \A g \in Flow : <<"pending", g>> \in Key /\ <<"relay", g>> \in Key /\ <<"web", g>> \in Key
  BY DEF Key
<1>3. kv' \in [Key -> {None, "desktop", "web", "success", "error"} \cup User]
  BY <1>1
<1>4. CASE kv' = [kv EXCEPT ![<<"pending", f>>] = v] /\ v \in {None, "desktop", "web"}
  BY <1>1, <1>2, <1>3, <1>4 DEF KvTyped
<1>5. CASE kv' = [kv EXCEPT ![<<"relay", f>>] = v] /\ v \in User \cup {None}
  BY <1>1, <1>2, <1>3, <1>5 DEF KvTyped
<1>6. CASE kv' = [kv EXCEPT ![<<"web", f>>] = v] /\ v \in {None, "success", "error"}
  BY <1>1, <1>2, <1>3, <1>6 DEF KvTyped
<1> QED
  BY <1>4, <1>5, <1>6

\* Consuming a key, whichever it is.
LEMMA ConsumedType ==
  ASSUME TypeOK, NEW k \in Key, kv' = Consumed(k)
  PROVE  KvTyped'
<1>1. PICK f \in Flow : k \in {<<"pending", f>>, <<"relay", f>>, <<"web", f>>}
  BY DEF Key
<1> QED
  BY <1>1, SetType DEF Consumed

\* A request that goes on to a stage.
LEMMA GoType ==
  ASSUME TypeOK, NEW r \in Request, NEW s \in Stage, Go(r, s)
  PROVE  req' \in [Request -> Stage] /\ req'[r] = s /\ \A q \in Request \ {r} : req'[q] = req[q]
BY DEF TypeOK, Go

\* The stages a handler can go on to.
LEMMA Stages ==
  /\ Idle \in Stage
  /\ \A f \in Flow : /\ \A a \in {"exchange", "identify", "lookup", "insert", "park", "fail"} :
                          [at |-> a, flow |-> f] \in Stage
                     /\ \A u \in User : /\ \A b \in BOOLEAN : Linking(f, u, b) \in Stage
                                        /\ [at |-> "relay", flow |-> f, user |-> u] \in Stage
                                        /\ [at |-> "issue", flow |-> f, user |-> u] \in Stage
                                        /\ [at |-> "read", key |-> <<"relay", f>>, val |-> u] \in Stage
                     /\ \A v \in {"desktop", "web"} :
                          [at |-> "read", key |-> <<"pending", f>>, val |-> v] \in Stage
  /\ \A u \in User : /\ [at |-> "setup", user |-> u] \in Stage
                     /\ \A m \in Email : [at |-> "commit", mail |-> m, user |-> u] \in Stage
<1>1. Idle \in Stage
  BY DEF Stage
<1>2. ASSUME NEW f \in Flow, NEW a \in {"exchange", "identify", "lookup", "insert", "park", "fail"}
      PROVE  [at |-> a, flow |-> f] \in Stage
  BY DEF Stage
<1>3. ASSUME NEW f \in Flow, NEW u \in User, NEW b \in BOOLEAN
      PROVE  Linking(f, u, b) \in Stage
  BY DEF Stage, Linking
<1>4. ASSUME NEW f \in Flow, NEW u \in User
      PROVE  /\ [at |-> "relay", flow |-> f, user |-> u] \in Stage
             /\ [at |-> "issue", flow |-> f, user |-> u] \in Stage
  BY DEF Stage
<1>5. ASSUME NEW f \in Flow, NEW u \in User
      PROVE  [at |-> "read", key |-> <<"relay", f>>, val |-> u] \in Stage
  BY DEF Stage
<1>6. ASSUME NEW f \in Flow, NEW v \in {"desktop", "web"}
      PROVE  [at |-> "read", key |-> <<"pending", f>>, val |-> v] \in Stage
  BY DEF Stage
<1>7. ASSUME NEW u \in User
      PROVE  /\ [at |-> "setup", user |-> u] \in Stage
             /\ \A m \in Email : [at |-> "commit", mail |-> m, user |-> u] \in Stage
  BY DEF Stage
<1> QED
  BY <1>1, <1>2, <1>3, <1>4, <1>5, <1>6, <1>7

\* What a request reads of the store, and how it goes on.
LEMMA AskedStage ==
  ASSUME TypeOK, NEW k \in Key, MayAsk(k)
  PROVE  /\ Then(k, kv[k]) \in Stage
         /\ [at |-> "read", key |-> k, val |-> kv[k]] \in Stage
         /\ \E f \in Flow : \/ /\ k = <<"pending", f>> /\ consent[f] # None
                               /\ Then(k, kv[k]) = [at |-> "exchange", flow |-> f]
                            \/ /\ k = <<"relay", f>> /\ kv[k] \in User
                               /\ Then(k, kv[k]) = [at |-> "issue", flow |-> f, user |-> kv[k]]
<1>1. CASE k[1] = "pending"
  <2>1. PICK f \in Flow : k = <<"pending", f>>
    BY <1>1 DEF Key
  <2>2. kv[k] \in {"desktop", "web"} /\ consent[f] # None
    BY <2>1 DEF MayAsk, TypeOK
  <2>3. Then(k, kv[k]) = [at |-> "exchange", flow |-> f]
    BY <2>1 DEF Then
  <2> QED
    BY <2>1, <2>2, <2>3, Stages
<1>2. CASE k[1] = "relay"
  <2>1. PICK f \in Flow : k = <<"relay", f>>
    BY <1>2 DEF Key
  <2>2. kv[k] \in User
    BY <2>1 DEF MayAsk, TypeOK
  <2>3. Then(k, kv[k]) = [at |-> "issue", flow |-> f, user |-> kv[k]]
    BY <2>1 DEF Then
  <2> QED
    BY <2>1, <2>2, <2>3, Stages
<1> QED
  BY <1>1, <1>2 DEF MayAsk

\* The same for a value read some time ago.
LEMMA ReadStage ==
  ASSUME TypeOK, NEW r \in Request, At(r, "read")
  PROVE  /\ req[r].key \in Key
         /\ Then(req[r].key, req[r].val) \in Stage
         /\ \E f \in Flow : \/ /\ req[r].key = <<"pending", f>>
                               /\ Then(req[r].key, req[r].val) = [at |-> "exchange", flow |-> f]
                            \/ /\ req[r].key = <<"relay", f>> /\ req[r].val \in User
                               /\ Then(req[r].key, req[r].val)
                                    = [at |-> "issue", flow |-> f, user |-> req[r].val]
<1> DEFINE s == req[r]
<1>1. s \in Stage /\ s.at = "read"
  BY DEF TypeOK, At
<1>2. PICK f \in Flow : \/ s.key = <<"pending", f>> /\ s.val \in {"desktop", "web"}
                        \/ s.key = <<"relay", f>> /\ s.val \in User
  BY <1>1, StageFields
<1>3. CASE s.key = <<"pending", f>>
  <2>1. Then(s.key, s.val) = [at |-> "exchange", flow |-> f] /\ s.key \in Key
    BY <1>3 DEF Then, Key
  <2> QED
    BY <1>3, <2>1, Stages
<1>4. CASE s.key = <<"relay", f>> /\ s.val \in User
  <2>1. Then(s.key, s.val) = [at |-> "issue", flow |-> f, user |-> s.val] /\ s.key \in Key
    BY <1>4 DEF Then, Key
  <2> QED
    BY <1>4, <2>1, Stages
<1> QED
  BY <1>2, <1>3, <1>4

\* The fields of a request at a stage.
LEMMA AtFields ==
  ASSUME TypeOK, NEW r \in Request
  PROVE  /\ req[r] \in Stage
         /\ req[r].at \in {"exchange", "identify", "lookup", "insert", "link",
                           "relay", "park", "fail", "issue"} => req[r].flow \in Flow
         /\ At(r, "link") => req[r].fresh \in BOOLEAN
         /\ req[r].at \in {"link", "relay", "issue", "commit", "setup"} => req[r].user \in User
         /\ At(r, "commit") => req[r].mail \in Email
<1>1. req[r] \in Stage
  BY DEF TypeOK
<1> QED
  BY <1>1, StageFields DEF At

\* A step after which the store and the requests have their types and nothing
\* else changed but what is named.
LEMMA TypeFrame ==
  ASSUME TypeOK, KvTyped', req' \in [Request -> Stage], adaptor' = adaptor,
         started' \subseteq Flow,
         consent' \in [Flow -> {None, Declined} \cup (Sub \X Email)],
         told' \in [Flow -> {None, "success", "error"}],
         UNCHANGED <<accounts, history>>,
         spent' \subseteq Flow, hurt' \subseteq Web, faults' \in 0..MaxFault
  PROVE  TypeOK'
BY DEF TypeOK, KvTyped, accounts, history

LEMMA KeptTypes ==
  ASSUME TypeOK
  PROVE  /\ UNCHANGED kv => KvTyped'
         /\ UNCHANGED req => req' \in [Request -> Stage]
         /\ UNCHANGED client => /\ started' \subseteq Flow
                                /\ consent' \in [Flow -> {None, Declined} \cup (Sub \X Email)]
                                /\ told' \in [Flow -> {None, "success", "error"}]
         /\ UNCHANGED spent => spent' \subseteq Flow
         /\ UNCHANGED <<hurt, faults>> => hurt' \subseteq Web /\ faults' \in 0..MaxFault
BY DEF TypeOK, KvTyped, client

LEMMA HearType ==
  ASSUME TypeOK, NEW f \in Flow, NEW o \in {None, "success", "error"}, Hear(f, o)
  PROVE  told' \in [Flow -> {None, "success", "error"}]
BY DEF Hear, TypeOK

LEMMA StartType == ASSUME TypeOK, NEW f \in Flow, Start(f) PROVE TypeOK'
<1>1. KvTyped'
  BY SetType DEF Start, Set
<1>2. started' \subseteq Flow
  BY DEF Start, TypeOK
<1> QED
  BY <1>1, <1>2, TypeFrame, KeptTypes DEF Start, TypeOK

LEMMA ConsentType == ASSUME TypeOK, NEW f \in Flow, Consent(f) PROVE TypeOK'
<1>1. PICK c \in {Declined} \cup UNION {{s} \X Mail[s] : s \in Sub} :
        consent' = [consent EXCEPT ![f] = c]
  BY DEF Consent
<1>2. c \in {None, Declined} \cup (Sub \X Email)
  BY <1>1, MailAssumption
<1>3. consent' \in [Flow -> {None, Declined} \cup (Sub \X Email)]
  BY <1>1, <1>2 DEF TypeOK
<1> QED
  BY <1>3, TypeFrame, KeptTypes DEF Consent, TypeOK

LEMMA PollType == ASSUME TypeOK, NEW f \in Flow, Poll(f) PROVE TypeOK'
<1>1. <<"web", f>> \in Key /\ kv[<<"web", f>>] \in {None, "success", "error"}
  BY DEF Key, TypeOK
<1>2. KvTyped' /\ told' \in [Flow -> {None, "success", "error"}]
  BY <1>1, ConsumedType, HearType DEF Poll
<1> QED
  BY <1>2, TypeFrame, KeptTypes DEF Poll, TypeOK

LEMMA FaultType ==
  ASSUME TypeOK, NEW F, Fault(F)
  PROVE  hurt' \subseteq Web /\ faults' \in 0..MaxFault
BY FaultAssumption DEF Fault, TypeOK

LEMMA LosePollType == ASSUME TypeOK, NEW f \in Flow, LosePoll(f) PROVE TypeOK'
<1>1. <<"web", f>> \in Key
  BY DEF Key
<1>2. KvTyped' /\ hurt' \subseteq Web /\ faults' \in 0..MaxFault
  BY <1>1, ConsumedType, FaultType DEF LosePoll
<1> QED
  BY <1>2, TypeFrame, KeptTypes DEF LosePoll, TypeOK

LEMMA ExpireType == ASSUME TypeOK, NEW k \in Key, Expire(k) PROVE TypeOK'
<1>1. KvTyped' /\ hurt' \subseteq Web /\ faults' \in 0..MaxFault
  BY ConsumedType, FaultType DEF Expire, Set, Consumed
<1> QED
  BY <1>1, TypeFrame, KeptTypes DEF Expire, TypeOK

LEMMA CrashType == ASSUME TypeOK, Crash PROVE TypeOK'
<1>1. hurt' \subseteq Web /\ faults' \in 0..MaxFault
  BY FaultType DEF Crash
<1>2. req' \in [Request -> Stage]
  BY Stages DEF Crash
<1>3. \A f \in Flow : <<"pending", f>> \in Key /\ <<"relay", f>> \in Key /\ <<"web", f>> \in Key
  BY DEF Key
<1>4. KvTyped'
  <2>1. CASE adaptor = "memory"
    BY <2>1, <1>3 DEF Crash, KvTyped
  <2>2. CASE adaptor # "memory"
    BY <2>2, KeptTypes DEF Crash
  <2> QED
    BY <2>1, <2>2
<1> QED
  BY <1>1, <1>2, <1>4, TypeFrame, KeptTypes DEF Crash, TypeOK

LEMMA LostType == ASSUME TypeOK, NEW r \in Request, Lost(r) PROVE TypeOK'
<1>1. hurt' \subseteq Web /\ faults' \in 0..MaxFault
  BY FaultType DEF Lost
<1>2. req' \in [Request -> Stage]
  BY GoType, Stages DEF Lost
<1> QED
  BY <1>1, <1>2, TypeFrame, KeptTypes DEF Lost, TypeOK

LEMMA RefusedType == ASSUME TypeOK, NEW r \in Request, Refused(r) PROVE TypeOK'
<1>1. req[r].flow \in Flow
  BY AtFields DEF Refused
<1>2. req' \in [Request -> Stage]
  BY <1>1, GoType, Stages DEF Refused
<1> QED
  BY <1>2, TypeFrame, KeptTypes DEF Refused, TypeOK

LEMMA TakeType == ASSUME TypeOK, NEW r \in Request, NEW k \in Key, Take(r, k) PROVE TypeOK'
<1>1. KvTyped' /\ req' \in [Request -> Stage]
  BY ConsumedType, AskedStage, GoType DEF Take
<1> QED
  BY <1>1, TypeFrame, KeptTypes DEF Take, TypeOK

LEMMA ReadType == ASSUME TypeOK, NEW r \in Request, NEW k \in Key, Read(r, k) PROVE TypeOK'
<1>1. req' \in [Request -> Stage]
  BY AskedStage, GoType DEF Read
<1>2. k[2] \in Flow
  BY DEF Key
<1>3. raced' \subseteq Flow /\ faults' \in 0..MaxFault
  BY <1>2, FaultAssumption DEF Read, TypeOK
<1> QED
  BY <1>1, <1>3 DEF Read, TypeOK, client, accounts

LEMMA DeleteType == ASSUME TypeOK, NEW r \in Request, Delete(r) PROVE TypeOK'
<1>1. req[r].key \in Key /\ Then(req[r].key, req[r].val) \in Stage
  BY ReadStage DEF Delete
<1>2. KvTyped'
  BY <1>1, ConsumedType DEF Delete
<1>3. req' \in [Request -> Stage]
  BY <1>1, GoType DEF Delete
<1> QED
  BY <1>2, <1>3, TypeFrame, KeptTypes DEF Delete, TypeOK

LEMMA ExchangeType == ASSUME TypeOK, NEW r \in Request, Exchange(r) PROVE TypeOK'
<1>1. req[r].flow \in Flow
  BY AtFields DEF Exchange, At
<1>2. \E s \in Stage : Go(r, s)
  BY <1>1, Stages DEF Exchange
<1>3. req' \in [Request -> Stage]
  BY <1>2, GoType
<1>4. spent' \subseteq Flow
  BY <1>1 DEF Exchange, TypeOK
<1> QED
  BY <1>3, <1>4, TypeFrame, KeptTypes DEF Exchange, TypeOK

\* The users a handler resolves its flow to.
LEMMA Targets ==
  /\ \A m : Owners(m) # {} => (CHOOSE u \in Owners(m) : TRUE) \in Owners(m)
  /\ Unused # {} => (CHOOSE u \in Unused : TRUE) \in Unused
  /\ Unused \subseteq User /\ \A m : Owners(m) \subseteq User
BY DEF Unused, Owners

LEMMA IdentifyType == ASSUME TypeOK, NEW r \in Request, Identify(r),
                             consent[req[r].flow] \in Sub \X Email PROVE TypeOK'
<1> DEFINE f == req[r].flow
           u == identity[consent[f][1]]
<1>1. f \in Flow
  BY AtFields DEF Identify, At
<1>2. u \in User \cup {None}
  BY DEF TypeOK
<1>3. \E s \in Stage : Go(r, s)
  <2>1. CASE u = None
    BY <1>1, <2>1, Stages DEF Identify
  <2>2. CASE u # None
    <3>1. Linking(f, u, FALSE) \in Stage
      BY <1>1, <1>2, <2>2, Stages
    <3> QED
      BY <2>2, <3>1 DEF Identify
  <2> QED
    BY <2>1, <2>2
<1>4. req' \in [Request -> Stage]
  BY <1>3, GoType
<1> QED
  BY <1>4, TypeFrame, KeptTypes DEF Identify, TypeOK

LEMMA LookupType == ASSUME TypeOK, NEW r \in Request, Lookup(r) PROVE TypeOK'
<1> DEFINE f == req[r].flow
           found == Owners(consent[f][2])
<1>1. f \in Flow
  BY AtFields DEF Lookup, At
<1>2. \E s \in Stage : Go(r, s)
  <2>1. CASE found = {}
    BY <1>1, <2>1, Stages DEF Lookup
  <2>2. CASE found # {}
    <3>1. Linking(f, CHOOSE u \in found : TRUE, FALSE) \in Stage
      BY <1>1, <2>2, Stages, Targets
    <3> QED
      BY <2>2, <3>1 DEF Lookup
  <2> QED
    BY <2>1, <2>2
<1>3. req' \in [Request -> Stage]
  BY <1>2, GoType
<1> QED
  BY <1>3, TypeFrame, KeptTypes DEF Lookup, TypeOK

LEMMA InsertType == ASSUME TypeOK, NEW r \in Request, Insert(r) PROVE TypeOK'
<1> DEFINE f == req[r].flow
<1>1. f \in Flow
  BY AtFields DEF Insert, At
<1>2. \E s \in Stage : Go(r, s)
  <2>1. CASE Taken(consent[f][2])
    BY <1>1, <2>1, Stages DEF Insert
  <2>2. CASE ~Taken(consent[f][2])
    <3>1. Unused # {} /\ Linking(f, CHOOSE u \in Unused : TRUE, TRUE) \in Stage
      BY <1>1, <2>2, Stages, Targets DEF Insert
    <3> QED
      BY <2>2, <3>1 DEF Insert
  <2> QED
    BY <2>1, <2>2
<1>3. req' \in [Request -> Stage]
  BY <1>2, GoType
<1> QED
  BY <1>3, TypeFrame, KeptTypes DEF Insert, TypeOK

LEMMA LinkType == ASSUME TypeOK, NEW r \in Request, Link(r),
                         consent[req[r].flow] \in Sub \X Email PROVE TypeOK'
<1> DEFINE f == req[r].flow
           u == req[r].user
<1>1. f \in Flow /\ u \in User /\ consent[f][1] \in Sub /\ consent[f][2] \in Email
  BY AtFields DEF Link, At
<1>2. req' \in [Request -> Stage]
  BY <1>1, GoType, Stages DEF Link
<1>3. identity' \in [Sub -> User \cup {None}] /\ email' \in [User -> Email \cup {None}]
  BY <1>1 DEF Link, Linked, TypeOK
<1> QED
  BY <1>2, <1>3 DEF Link, TypeOK, client, history

LEMMA SaveRelayType == ASSUME TypeOK, NEW r \in Request, SaveRelay(r) PROVE TypeOK'
<1>1. req[r].flow \in Flow /\ req[r].user \in User
  BY AtFields DEF SaveRelay, At
<1>2. KvTyped'
  BY <1>1, SetType DEF SaveRelay, Set
<1>3. req' \in [Request -> Stage] /\ told' \in [Flow -> {None, "success", "error"}]
  BY <1>1, GoType, Stages, HearType, KeptTypes DEF SaveRelay, TypeOK
<1> QED
  BY <1>2, <1>3, TypeFrame, KeptTypes DEF SaveRelay, TypeOK

LEMMA ParkType == ASSUME TypeOK, NEW r \in Request, Park(r) PROVE TypeOK'
<1>1. req[r].flow \in Flow
  BY AtFields DEF Park, At
<1>2. KvTyped' /\ req' \in [Request -> Stage]
  BY <1>1, SetType, GoType, Stages DEF Park, Parked
<1> QED
  BY <1>2, TypeFrame, KeptTypes DEF Park, TypeOK

LEMMA FailType == ASSUME TypeOK, NEW r \in Request, Fail(r) PROVE TypeOK'
<1>1. req[r].flow \in Flow
  BY AtFields DEF Fail, At
<1>2. KvTyped'
  BY <1>1, SetType, KeptTypes DEF Fail, Parked
<1>3. req' \in [Request -> Stage] /\ told' \in [Flow -> {None, "success", "error"}]
  BY <1>1, GoType, Stages, HearType DEF Fail, TypeOK
<1> QED
  BY <1>2, <1>3, TypeFrame, KeptTypes DEF Fail, TypeOK

LEMMA IssueType == ASSUME TypeOK, NEW r \in Request, IssueSession(r) PROVE TypeOK'
<1>1. req[r].flow \in Flow /\ req[r].user \in User
  BY AtFields DEF IssueSession, At
<1>2. req' \in [Request -> Stage]
  BY GoType, Stages DEF IssueSession
<1>3. issued' \in [Flow -> Nat] /\ session' \in [Flow -> User \cup {None}]
  BY <1>1 DEF IssueSession, TypeOK
<1> QED
  BY <1>2, <1>3 DEF IssueSession, TypeOK, client, accounts

LEMMA RegisterType == ASSUME TypeOK, NEW r \in Request, NEW m \in Email, Register(r, m) PROVE TypeOK'
<1>1. req' \in [Request -> Stage]
  BY GoType, Stages, Targets DEF Register
<1> QED
  BY <1>1, TypeFrame, KeptTypes DEF Register, TypeOK

LEMMA CommitType == ASSUME TypeOK, NEW r \in Request, CommitRegistration(r) PROVE TypeOK'
<1>1. req[r].user \in User /\ req[r].mail \in Email
  BY AtFields DEF CommitRegistration, At
<1>2. req' \in [Request -> Stage]
  BY GoType, Stages DEF CommitRegistration
<1>3. email' \in [User -> Email \cup {None}] /\ cred' \in [User -> Request \cup {None, "register"}]
  BY <1>1 DEF CommitRegistration, TypeOK
<1> QED
  BY <1>2, <1>3 DEF CommitRegistration, TypeOK, client, history

LEMMA SetupType == ASSUME TypeOK, NEW r \in Request, NEW u \in User, Setup(r, u) PROVE TypeOK'
<1>1. req' \in [Request -> Stage]
  BY GoType, Stages DEF Setup
<1> QED
  BY <1>1, TypeFrame, KeptTypes DEF Setup, TypeOK

LEMMA InsertCredType == ASSUME TypeOK, NEW r \in Request, InsertCred(r) PROVE TypeOK'
<1>1. req' \in [Request -> Stage]
  BY GoType, Stages DEF InsertCred
<1>2. cred' \in [User -> Request \cup {None, "register"}]
  BY DEF InsertCred, TypeOK
<1> QED
  BY <1>1, <1>2 DEF InsertCred, TypeOK, client, history

-----------------------------------------------------------------------------
(* The inductive invariant *)

LEMMA InvInit == Init => SignInInv
<1> SUFFICES ASSUME Init PROVE SignInInv
  OBVIOUS
<1>1. \A f \in Flow : <<"relay", f>> \in Key /\ kv[<<"relay", f>>] = None
  BY DEF Key, Init
<1>2. \A r \in Request : req[r].at = "idle"
  BY DEF Init, Idle
<1>3. Answered
  BY <1>2 DEF Init, Answered, At
<1>4. AccountsSound
  BY <1>2 DEF Init, AccountsSound, At, Fresh
<1>5. RightfulSoFar
  BY <1>1, <1>2, NoneAssumption DEF Init, RightfulSoFar, NotSomeoneElse, Resolved, Claims, At
<1>6. \A r \in Request, f \in Flow : ~Resolving(r, f) /\ ~Claims(r, f) /\ ~Issues(r, f)
  BY <1>2 DEF Resolving, Claims, Issues, At
<1>7. \A f \in Flow : issued[f] = 0 /\ session[f] = None
  BY DEF Init
<1>8. \A f \in Flow : OneCode(f)
  BY <1>1, <1>6, <1>7 DEF OneCode
<1>9. \A f \in Flow : OneClaim(f)
  BY <1>1, <1>6, <1>7 DEF OneClaim
<1> QED
  BY <1>3, <1>4, <1>5, <1>8, <1>9 DEF SignInInv

\* The value of a relay code is a user.
LEMMA ClaimValue ==
  ASSUME TypeOK, NEW r \in Request, NEW f \in Flow, Claims(r, f)
  PROVE  req[r].val \in User
<1>1. req[r].at = "read" /\ req[r].key = <<"relay", f>> /\ req[r] \in Stage
  BY AtFields DEF Claims, At
<1>2. PICK g \in Flow : \/ req[r].key = <<"pending", g>> /\ req[r].val \in {"desktop", "web"}
                        \/ req[r].key = <<"relay", g>> /\ req[r].val \in User
  BY <1>1, StageFields
<1>3. req[r].key[1] = "relay"
  BY <1>1
<1> QED
  BY <1>2, <1>3

\* Whoever has something of a flow has it for a user who came back from Google.
LEMMA Redeemed ==
  ASSUME TypeOK, SignInInv, NEW f \in Flow,
         \/ \E r \in Request : Resolving(r, f) \/ Claims(r, f) \/ Issues(r, f)
         \/ kv[<<"relay", f>>] # None \/ session[f] # None
  PROVE  /\ f \in spent /\ consent[f] # None
         /\ consent[f] \in Sub \X Email /\ consent[f][1] \in Sub /\ consent[f][2] \in Email
<1>1. f \in spent
  BY DEF SignInInv, OneCode
<1>2. consent[f] \notin {None, Declined} /\ consent[f] \in {None, Declined} \cup (Sub \X Email)
  BY <1>1 DEF SignInInv, Answered, TypeOK
<1> QED
  BY <1>1, <1>2

\* What is never taken back.
AccountsKept ==
  /\ \A u \in User : email[u] # None => email'[u] = email[u]
  /\ \A s \in Sub : identity[s] # None => identity'[s] = identity[s]

ConsentKept == \A f \in Flow : consent[f] # None => consent'[f] = consent[f]

LEMMA RightfulKept ==
  ASSUME TypeOK, SignInInv, AccountsKept, ConsentKept, NEW f \in Flow, NEW u \in User,
         f \in spent, Rightful(f, u)
  PROVE  Rightful(f, u)'
<1>1. consent[f] \notin {None, Declined} /\ consent[f] \in {None, Declined} \cup (Sub \X Email)
  BY DEF SignInInv, Answered, TypeOK
<1>2. consent[f][1] \in Sub /\ consent[f][2] \in Email /\ consent'[f] = consent[f]
  BY <1>1 DEF ConsentKept
<1>3. CASE identity[consent[f][1]] = u
  BY <1>2, <1>3, NoneAssumption DEF AccountsKept, Rightful
<1>4. CASE email[u] = consent[f][2]
  BY <1>2, <1>4, NoneAssumption DEF AccountsKept, Rightful
<1> QED
  BY <1>3, <1>4 DEF Rightful

\* What request r has of a flow, it has for the rightful user.
Entitled(r) ==
  /\ At(r, "relay") \/ At(r, "issue") => Rightful(req[r].flow, req[r].user)
  /\ \A f \in Flow : Claims(r, f) => Rightful(f, req[r].val)
  /\ At(r, "link") /\ ~req[r].fresh => Rightful(req[r].flow, req[r].user)

\* RightfulSoFar, one holder at a time.
Entitlements ==
  /\ \A r \in Request : Entitled(r)
  /\ \A f \in Flow : kv[<<"relay", f>>] # None => Rightful(f, kv[<<"relay", f>>])
  /\ \A f \in Flow : session[f] # None => Rightful(f, session[f])

LEMMA RightfulParts == TypeOK => (RightfulSoFar <=> Entitlements)
<1> SUFFICES ASSUME TypeOK PROVE RightfulSoFar <=> Entitlements
  OBVIOUS
<1>1. \A f \in Flow : /\ kv[<<"relay", f>>] \in User \cup {None} /\ session[f] \in User \cup {None}
  BY DEF TypeOK
<1>2. \A r \in Request : At(r, "relay") \/ At(r, "issue") => req[r].flow \in Flow /\ req[r].user \in User
  BY AtFields DEF At
<1>3. NotSomeoneElse <=>
        /\ \A r \in Request : At(r, "relay") \/ At(r, "issue") => Rightful(req[r].flow, req[r].user)
        /\ \A f \in Flow : kv[<<"relay", f>>] # None => Rightful(f, kv[<<"relay", f>>])
        /\ \A f \in Flow : session[f] # None => Rightful(f, session[f])
  BY <1>1, <1>2, NoneAssumption DEF NotSomeoneElse, Resolved, At
<1> QED
  BY <1>3 DEF RightfulSoFar, Entitled, Entitlements

\* Nothing changes hands but what is shown to go to the rightful user.
LEMMA RightfulStep ==
  ASSUME TypeOK, TypeOK', SignInInv, AccountsKept, ConsentKept,
         \A q \in Request : req'[q] = req[q] \/ Entitled(q)',
         \A f \in Flow : \/ kv'[<<"relay", f>>] \in {kv[<<"relay", f>>], None}
                         \/ Rightful(f, kv[<<"relay", f>>])',
         \A f \in Flow : session'[f] = session[f] \/ Rightful(f, session[f])'
  PROVE  RightfulSoFar'
<1>0. Entitlements
  BY RightfulParts DEF SignInInv
<1>1. ASSUME NEW q \in Request PROVE Entitled(q)'
  <2> SUFFICES ASSUME req'[q] = req[q] PROVE Entitled(q)'
    BY <1>1
  <2>1. Entitled(q)
    BY <1>0 DEF Entitlements
  <2>2. At(q, "relay") \/ At(q, "issue") \/ At(q, "link") =>
          req[q].flow \in Flow /\ req[q].user \in User /\ req[q].flow \in spent
    <3> SUFFICES ASSUME At(q, "relay") \/ At(q, "issue") \/ At(q, "link")
                 PROVE  req[q].flow \in Flow /\ req[q].user \in User /\ req[q].flow \in spent
      OBVIOUS
    <3>1. req[q].flow \in Flow /\ req[q].user \in User
      BY AtFields DEF At
    <3>2. Resolving(q, req[q].flow) \/ Issues(q, req[q].flow)
      BY DEF Resolving, Issues, At
    <3> QED
      BY <3>1, <3>2, Redeemed
  <2>3. ASSUME NEW f \in Flow, Claims(q, f) PROVE req[q].val \in User /\ f \in spent
    <3>1. req[q].val \in User
      BY <2>3, ClaimValue
    <3> QED
      BY <3>1, <2>3, Redeemed
  <2>4. (At(q, "relay") \/ At(q, "issue") => Rightful(req[q].flow, req[q].user))'
    BY <2>1, <2>2, RightfulKept DEF Entitled, At
  <2>5. (At(q, "link") /\ ~req[q].fresh => Rightful(req[q].flow, req[q].user))'
    BY <2>1, <2>2, RightfulKept DEF Entitled, At
  <2>6. (\A f \in Flow : Claims(q, f) => Rightful(f, req[q].val))'
    BY <2>1, <2>3, RightfulKept DEF Entitled, Claims, At
  <2> QED
    BY <2>4, <2>5, <2>6 DEF Entitled
<1>2. ASSUME NEW f \in Flow, kv'[<<"relay", f>>] # None PROVE Rightful(f, kv[<<"relay", f>>])'
  <2> SUFFICES ASSUME kv'[<<"relay", f>>] = kv[<<"relay", f>>] PROVE Rightful(f, kv[<<"relay", f>>])'
    BY <1>2
  <2>1. PICK u \in User : u = kv[<<"relay", f>>]
    BY <1>2 DEF TypeOK
  <2>2. Rightful(f, u) /\ f \in spent
    BY <1>0, <1>2, <2>1, Redeemed DEF Entitlements
  <2>3. Rightful(f, u)'
    BY <2>2, RightfulKept
  <2> QED
    BY <2>1, <2>3 DEF Rightful
<1>3. ASSUME NEW f \in Flow, session'[f] # None PROVE Rightful(f, session[f])'
  <2> SUFFICES ASSUME session'[f] = session[f] PROVE Rightful(f, session[f])'
    BY <1>3
  <2>1. PICK u \in User : u = session[f]
    BY <1>3 DEF TypeOK
  <2>2. Rightful(f, u) /\ f \in spent
    BY <1>0, <1>3, <2>1, Redeemed DEF Entitlements
  <2>3. Rightful(f, u)'
    BY <2>2, RightfulKept
  <2> QED
    BY <2>1, <2>3 DEF Rightful
<1>4. Entitlements'
  BY <1>1, <1>2, <1>3 DEF Entitlements
<1>5. (TypeOK => (RightfulSoFar <=> Entitlements))'
  BY RightfulParts, PTL
<1> QED
  BY <1>4, <1>5

\* No request comes nearer to a session for f.
LEMMA CodeKept ==
  ASSUME SignInInv, NEW f \in Flow, issued'[f] = issued[f], session'[f] = session[f],
         f \in raced => f \in raced', f \in spent => f \in spent',
         kv'[<<"relay", f>>] \in {kv[<<"relay", f>>], None},
         \A q \in Request : /\ Resolving(q, f)' => Resolving(q, f)
                            /\ Claims(q, f)' => Claims(q, f)
                            /\ Issues(q, f)' => Issues(q, f)
  PROVE  OneCode(f)' /\ OneClaim(f)'
<1>1. OneCode(f) /\ OneClaim(f)
  BY DEF SignInInv
<1>2. OneCode(f)'
  BY <1>1 DEF OneCode
<1>3. OneClaim(f)'
  BY <1>1 DEF OneClaim
<1> QED
  BY <1>2, <1>3

LEMMA CodeFrame ==
  ASSUME SignInInv, issued' = issued, session' = session, raced' = raced, spent' = spent,
         \A f \in Flow : kv'[<<"relay", f>>] \in {kv[<<"relay", f>>], None},
         \A q \in Request, f \in Flow : /\ Resolving(q, f)' => Resolving(q, f)
                                        /\ Claims(q, f)' => Claims(q, f)
                                        /\ Issues(q, f)' => Issues(q, f)
  PROVE  \A f \in Flow : OneCode(f)' /\ OneClaim(f)'
BY CodeKept

\* The accounts stay, and so do the rows not yet committed.
LEMMA AccountsFrame ==
  ASSUME TypeOK, SignInInv, UNCHANGED accounts, ConsentKept,
         \A q \in Request : \/ req'[q] = req[q]
                            \/ ~At(q, "commit")' /\ ~At(q, "setup")' /\ ~(At(q, "link") /\ req[q].fresh)'
  PROVE  AccountsSound'
<1>1. \A q \in Request : Fresh(q)' => Fresh(q) /\ req'[q] = req[q]
  BY DEF Fresh, At
<1>2. \A q \in Request : Fresh(q)' => MailOf(q)' = MailOf(q)
  <2> SUFFICES ASSUME NEW q \in Request, Fresh(q)' PROVE MailOf(q)' = MailOf(q)
    OBVIOUS
  <2>1. Fresh(q) /\ req'[q] = req[q]
    BY <1>1
  <2>2. CASE At(q, "commit")
    BY <2>1, <2>2 DEF MailOf, At
  <2>3. CASE ~At(q, "commit")
    <3>1. At(q, "link")
      BY <2>1, <2>3 DEF Fresh
    <3>2. req[q].flow \in Flow /\ Resolving(q, req[q].flow)
      BY <3>1, AtFields DEF At, Resolving
    <3>3. consent'[req[q].flow] = consent[req[q].flow]
      BY <3>2, Redeemed DEF ConsentKept
    <3> QED
      BY <2>1, <2>3, <3>3 DEF MailOf, At
  <2> QED
    BY <2>2, <2>3
<1>3. AccountsSound
  BY DEF SignInInv
<1>4. \A r \in Request : At(r, "setup")' => email'[req'[r].user] # None
  BY <1>3 DEF AccountsSound, At, accounts
<1>5. \A m : Taken(m)' <=> Taken(m)
  BY DEF Taken, accounts
<1> QED
  BY <1>1, <1>2, <1>3, <1>4, <1>5 DEF AccountsSound, accounts

LEMMA Unmoved ==
  ASSUME UNCHANGED accounts
  PROVE  AccountsKept
BY DEF accounts, AccountsKept

\* Nobody new is on the way from Google.
LEMMA AnsweredFrame ==
  ASSUME TypeOK, SignInInv, adaptor' = adaptor, ConsentKept, spent' = spent,
         \A q \in Request : req'[q] = req[q] \/ req'[q].at \notin {"read", "exchange"}
  PROVE  Answered'
<1>1. Answered
  BY DEF SignInInv
<1>2. \A r \in Request : At(r, "exchange")' => consent'[req'[r].flow] # None
  BY <1>1, AtFields DEF Answered, At, ConsentKept
<1>3. \A r \in Request, f \in Flow : At(r, "read")' /\ req'[r].key = <<"pending", f>> => consent'[f] # None
  BY <1>1 DEF Answered, At, ConsentKept
<1>4. \A f \in spent' : consent'[f] \notin {None, Declined}
  BY <1>1 DEF Answered, ConsentKept, TypeOK
<1>5. adaptor' = "redis" => \A r \in Request : ~At(r, "read")'
  BY <1>1 DEF Answered, At
<1> QED
  BY <1>2, <1>3, <1>4, <1>5 DEF Answered

\* A step that only takes something away: keys expire or are consumed by others,
\* requests fail, end or are lost, users answer at Google.
LEMMA QuietStep ==
  ASSUME TypeOK, TypeOK', SignInInv, UNCHANGED <<adaptor, accounts, issued, session, spent>>,
         ConsentKept, raced' = raced,
         \A f \in Flow : kv'[<<"relay", f>>] \in {kv[<<"relay", f>>], None},
         \A q \in Request : req'[q] = req[q] \/ req'[q].at \in {"idle", "fail", "park"}
  PROVE  SignInInv'
<1>1. AccountsKept
  BY Unmoved
<1>2. Answered'
  BY AnsweredFrame
<1>3. AccountsSound'
  BY AccountsFrame DEF At
<1>4. \A f \in Flow : OneCode(f)' /\ OneClaim(f)'
  BY CodeFrame DEF Resolving, Claims, Issues, At
<1>5. RightfulSoFar'
  BY <1>1, RightfulStep DEF Entitled, Claims, At
<1> QED
  BY <1>2, <1>3, <1>4, <1>5 DEF SignInInv

LEMMA KeysApart ==
  \A f, g : /\ <<"relay", f>> = <<"relay", g>> => f = g
            /\ <<"pending", f>> = <<"pending", g>> => f = g
            /\ <<"pending", f>> # <<"relay", g>>
<1> SUFFICES ASSUME NEW f, NEW g
             PROVE  /\ <<"relay", f>> = <<"relay", g>> => f = g
                    /\ <<"pending", f>> = <<"pending", g>> => f = g
                    /\ <<"pending", f>> # <<"relay", g>>
  OBVIOUS
<1>1. /\ <<"relay", f>>[2] = f /\ <<"relay", g>>[2] = g /\ <<"relay", g>>[1] = "relay"
      /\ <<"pending", f>>[2] = f /\ <<"pending", g>>[2] = g /\ <<"pending", f>>[1] = "pending"
  OBVIOUS
<1> QED
  BY <1>1

\* What is left of the relay codes once a key is consumed.
LEMMA ConsumedRelay ==
  ASSUME TypeOK, NEW k \in Key, kv' = Consumed(k), NEW f \in Flow
  PROVE  kv'[<<"relay", f>>] = IF k = <<"relay", f>> THEN None ELSE kv[<<"relay", f>>]
<1>1. <<"relay", f>> \in Key
  BY DEF Key
<1> QED
  BY <1>1 DEF Consumed, TypeOK

\* A request goes on to the exchange of a code.
LEMMA ToExchange ==
  ASSUME TypeOK, TypeOK', SignInInv, UNCHANGED <<adaptor, client, spent, accounts, history>>,
         NEW f \in Flow, consent[f] # None,
         \A g \in Flow : kv'[<<"relay", g>>] \in {kv[<<"relay", g>>], None},
         NEW r \in Request, Go(r, [at |-> "exchange", flow |-> f])
  PROVE  SignInInv'
<1>1. /\ req'[r] = [at |-> "exchange", flow |-> f]
      /\ \A q \in Request \ {r} : req'[q] = req[q]
  BY DEF Go, TypeOK
<1>2. ConsentKept /\ AccountsKept
  BY Unmoved DEF client, ConsentKept
<1>3. Answered'
  <2>1. Answered
    BY DEF SignInInv
  <2>2. \A q \in Request : At(q, "exchange")' => consent'[req'[q].flow] # None
    BY <1>1, <2>1 DEF Answered, At, client
  <2>3. \A q \in Request : At(q, "read")' => req'[q] = req[q] /\ At(q, "read")
    BY <1>1 DEF At
  <2> QED
    BY <2>1, <2>2, <2>3 DEF Answered, client
<1>4. AccountsSound'
  BY <1>1, <1>2, AccountsFrame DEF At
<1>5. \A g \in Flow : OneCode(g)' /\ OneClaim(g)'
  BY <1>1, CodeFrame DEF Resolving, Claims, Issues, At, history
<1>6. RightfulSoFar'
  BY <1>1, <1>2, RightfulStep DEF Entitled, Claims, At, history
<1> QED
  BY <1>3, <1>4, <1>5, <1>6 DEF SignInInv

\* The one request that holds a relay code goes on to issue its session.
LEMMA ToIssue ==
  ASSUME TypeOK, TypeOK', SignInInv, UNCHANGED <<adaptor, client, spent, accounts, history>>,
         NEW f \in Flow, NEW u \in User, Rightful(f, u), f \in spent,
         NEW r \in Request, Go(r, [at |-> "issue", flow |-> f, user |-> u]),
         \A q \in Request : ~Resolving(q, f),
         f \notin raced => /\ issued[f] = 0
                           /\ \A q \in Request : ~Issues(q, f) /\ (Claims(q, f) => q = r),
         \A g \in Flow : kv'[<<"relay", g>>] = IF g = f THEN None ELSE kv[<<"relay", g>>]
  PROVE  SignInInv'
<1>1. /\ req'[r] = [at |-> "issue", flow |-> f, user |-> u]
      /\ \A q \in Request \ {r} : req'[q] = req[q]
  BY DEF Go, TypeOK
<1>2. ConsentKept /\ AccountsKept
  BY Unmoved DEF client, ConsentKept
<1>3. Answered'
  BY <1>1, <1>2, AnsweredFrame
<1>4. AccountsSound'
  BY <1>1, <1>2, AccountsFrame DEF At
<1>5. ASSUME NEW g \in Flow PROVE OneCode(g)' /\ OneClaim(g)'
  <2>1. CASE g # f
    <3>1. \A q \in Request : /\ Resolving(q, g)' => Resolving(q, g)
                             /\ Claims(q, g)' => Claims(q, g)
                             /\ Issues(q, g)' => Issues(q, g)
      BY <1>1, <2>1 DEF Resolving, Claims, Issues, At
    <3>2. issued' = issued /\ session' = session /\ raced' = raced
      BY DEF history
    <3> QED
      BY <2>1, <3>1, <3>2, CodeKept
  <2>2. CASE g = f
    <3>1. \A q \in Request : /\ ~Resolving(q, f)'
                             /\ Claims(q, f)' => q # r /\ Claims(q, f)
                             /\ Issues(q, f)' => q = r \/ Issues(q, f)
      BY <1>1 DEF Resolving, Claims, Issues, At
    <3>2. OneCode(f)'
      BY <3>1 DEF OneCode
    <3>3. OneClaim(f)'
      BY <3>1 DEF OneClaim, history
    <3> QED
      BY <2>2, <3>2, <3>3
  <2> QED
    BY <2>1, <2>2
<1>6. RightfulSoFar'
  <2>1. Rightful(f, u)'
    BY <1>2, RightfulKept
  <2>2. Entitled(r)'
    BY <1>1, <2>1 DEF Entitled, Claims, At
  <2> QED
    BY <1>1, <1>2, <2>2, RightfulStep DEF history
<1> QED
  BY <1>3, <1>4, <1>5, <1>6 DEF SignInInv

LEMMA TakeInv ==
  ASSUME TypeOK, TypeOK', SignInInv, NEW r \in Request, NEW k \in Key, Take(r, k)
  PROVE  SignInInv'
<1>0. /\ UNCHANGED <<adaptor, client, spent, accounts, history>> /\ MayAsk(k)
      /\ kv' = Consumed(k) /\ Go(r, Then(k, kv[k])) /\ adaptor = "redis"
  BY DEF Take
<1>1. PICK f \in Flow : \/ /\ k = <<"pending", f>> /\ consent[f] # None
                           /\ Then(k, kv[k]) = [at |-> "exchange", flow |-> f]
                        \/ /\ k = <<"relay", f>> /\ kv[k] \in User
                           /\ Then(k, kv[k]) = [at |-> "issue", flow |-> f, user |-> kv[k]]
  BY <1>0, AskedStage
<1>2. \A g \in Flow : kv'[<<"relay", g>>] = IF k = <<"relay", g>> THEN None ELSE kv[<<"relay", g>>]
  BY <1>0, ConsumedRelay
<1>3. CASE k = <<"pending", f>> /\ consent[f] # None /\ Then(k, kv[k]) = [at |-> "exchange", flow |-> f]
  BY <1>0, <1>2, <1>3, ToExchange
<1>4. CASE /\ k = <<"relay", f>> /\ kv[k] \in User
           /\ Then(k, kv[k]) = [at |-> "issue", flow |-> f, user |-> kv[k]]
  <2>1. PICK u \in User : u = kv[k]
    BY <1>4
  <2>2. kv[<<"relay", f>>] = u /\ u # None
    BY <1>4, <2>1, NoneAssumption
  <2>3. f \in spent /\ Rightful(f, u)
    BY <2>2, Redeemed, RightfulParts DEF SignInInv, Entitlements
  <2>4. OneCode(f) /\ OneClaim(f) /\ \A q \in Request : ~Claims(q, f)
    BY <1>0 DEF SignInInv, Answered, Claims
  <2>5. /\ \A q \in Request : ~Resolving(q, f)
        /\ f \notin raced => issued[f] = 0 /\ \A q \in Request : ~Issues(q, f)
    BY <2>2, <2>4 DEF OneCode, OneClaim
  <2>6. \A g \in Flow : kv'[<<"relay", g>>] = IF g = f THEN None ELSE kv[<<"relay", g>>]
    BY <1>2, <1>4, KeysApart
  <2>7. Go(r, [at |-> "issue", flow |-> f, user |-> u])
    BY <1>0, <1>4, <2>1
  <2> QED
    BY <1>0, <2>3, <2>4, <2>5, <2>6, <2>7, ToIssue
<1> QED
  BY <1>1, <1>3, <1>4

LEMMA DeleteInv ==
  ASSUME TypeOK, TypeOK', SignInInv, NEW r \in Request, Delete(r)
  PROVE  SignInInv'
<1> DEFINE k == req[r].key
           v == req[r].val
<1>0. /\ UNCHANGED <<adaptor, client, spent, accounts, history>> /\ At(r, "read")
      /\ kv' = Consumed(k) /\ Go(r, Then(k, v)) /\ k \in Key
  BY ReadStage DEF Delete
<1>1. PICK f \in Flow : \/ k = <<"pending", f>> /\ Then(k, v) = [at |-> "exchange", flow |-> f]
                        \/ /\ k = <<"relay", f>> /\ v \in User
                           /\ Then(k, v) = [at |-> "issue", flow |-> f, user |-> v]
  BY <1>0, ReadStage
<1>2. \A g \in Flow : kv'[<<"relay", g>>] = IF k = <<"relay", g>> THEN None ELSE kv[<<"relay", g>>]
  BY <1>0, ConsumedRelay
<1>3. CASE k = <<"pending", f>> /\ Then(k, v) = [at |-> "exchange", flow |-> f]
  <2>1. consent[f] # None
    BY <1>0, <1>3 DEF SignInInv, Answered
  <2> QED
    BY <1>0, <1>2, <1>3, <2>1, ToExchange
<1>4. CASE /\ k = <<"relay", f>> /\ v \in User
           /\ Then(k, v) = [at |-> "issue", flow |-> f, user |-> v]
  <2>1. PICK u \in User : u = v
    BY <1>4
  <2>2. Claims(r, f)
    BY <1>0, <1>4 DEF Claims
  <2>3. f \in spent /\ Rightful(f, u)
    BY <2>1, <2>2, Redeemed, RightfulParts DEF SignInInv, Entitlements, Entitled
  <2>4. OneCode(f) /\ OneClaim(f)
    BY DEF SignInInv
  <2>5. /\ \A q \in Request : ~Resolving(q, f)
        /\ f \notin raced => issued[f] = 0 /\ \A q \in Request : ~Issues(q, f) /\ (Claims(q, f) => q = r)
    BY <2>2, <2>4 DEF OneCode, OneClaim
  <2>6. \A g \in Flow : kv'[<<"relay", g>>] = IF g = f THEN None ELSE kv[<<"relay", g>>]
    BY <1>2, <1>4, KeysApart
  <2>7. Go(r, [at |-> "issue", flow |-> f, user |-> u])
    BY <1>0, <1>4, <2>1
  <2> QED
    BY <1>0, <2>3, <2>5, <2>6, <2>7, ToIssue
<1> QED
  BY <1>1, <1>3, <1>4

LEMMA ReadInv ==
  ASSUME TypeOK, TypeOK', SignInInv, NEW r \in Request, NEW k \in Key, Read(r, k)
  PROVE  SignInInv'
<1> DEFINE race == \E q \in Request : At(q, "read") /\ req[q].key = k
           s == [at |-> "read", key |-> k, val |-> kv[k]]
<1>0. /\ UNCHANGED <<adaptor, kv, client, spent, accounts, issued, session>> /\ MayAsk(k)
      /\ adaptor = "memory" /\ At(r, "idle")
      /\ raced' = IF race THEN raced \cup {k[2]} ELSE raced
      /\ req'[r] = s /\ \A q \in Request \ {r} : req'[q] = req[q]
  BY DEF Read, Go, TypeOK
<1>0a. req'[r].at = "read" /\ req'[r].key = k /\ req'[r].val = kv[k]
  BY <1>0
<1>1. PICK f \in Flow : \/ k = <<"pending", f>> /\ consent[f] # None
                        \/ k = <<"relay", f>> /\ kv[k] \in User
  BY <1>0, AskedStage
<1>2. ConsentKept /\ AccountsKept
  BY <1>0, Unmoved DEF client, ConsentKept
<1>3. Answered'
  <2>1. Answered
    BY DEF SignInInv
  <2>2. \A q \in Request : At(q, "exchange")' => req'[q] = req[q] /\ At(q, "exchange")
    BY <1>0 DEF At
  <2>3. \A q \in Request, g \in Flow : At(q, "read")' /\ req'[q].key = <<"pending", g>> => consent[g] # None
    <3> SUFFICES ASSUME NEW q \in Request, NEW g \in Flow, At(q, "read")', req'[q].key = <<"pending", g>>
                 PROVE  consent[g] # None
      OBVIOUS
    <3>1. CASE q # r
      BY <1>0, <2>1, <3>1 DEF Answered, At
    <3>2. CASE q = r
      <4>1. k = <<"pending", g>>
        BY <1>0a, <3>2
      <4> QED
        BY <1>1, <4>1, KeysApart
    <3> QED
      BY <3>1, <3>2
  <2>4. adaptor' # "redis"
    BY <1>0
  <2> QED
    BY <1>0, <2>1, <2>2, <2>3, <2>4 DEF Answered, client
<1>4. AccountsSound'
  BY <1>0, <1>2, AccountsFrame DEF At
<1>5. ASSUME NEW g \in Flow PROVE OneCode(g)' /\ OneClaim(g)'
  <2>0. \A q \in Request : /\ Resolving(q, g)' => Resolving(q, g)
                           /\ Issues(q, g)' => Issues(q, g)
                           /\ Claims(q, g)' => Claims(q, g) \/ (q = r /\ k = <<"relay", g>>)
                           /\ Claims(q, g) => q # r
    <3> SUFFICES ASSUME NEW q \in Request
                 PROVE  /\ Resolving(q, g)' => Resolving(q, g)
                        /\ Issues(q, g)' => Issues(q, g)
                        /\ Claims(q, g)' => Claims(q, g) \/ (q = r /\ k = <<"relay", g>>)
                        /\ Claims(q, g) => q # r
      OBVIOUS
    <3>1. CASE q = r
      BY <1>0, <1>0a, <3>1 DEF Resolving, Claims, Issues, At
    <3>2. CASE q # r
      <4>1. req'[q] = req[q]
        BY <1>0, <3>2
      <4> QED
        BY <3>2, <4>1 DEF Resolving, Claims, Issues, At
    <3> QED
      BY <3>1, <3>2
  <2>1. CASE k # <<"relay", g>>
    BY <1>0, <2>0, <2>1, CodeKept
  <2>2. CASE k = <<"relay", g>>
    <3>1. OneCode(g) /\ OneClaim(g) /\ kv[<<"relay", g>>] # None
      BY <1>0, <2>2 DEF SignInInv, MayAsk
    <3>2. OneCode(g)'
      BY <1>0, <2>0, <3>1 DEF OneCode
    <3>3. g \notin raced' => g \notin raced /\ \A q \in Request : ~Claims(q, g)
      BY <1>0, <2>2 DEF Claims
    <3>4. OneClaim(g)'
      BY <1>0, <2>0, <3>1, <3>3 DEF OneClaim
    <3> QED
      BY <3>2, <3>4
  <2> QED
    BY <2>1, <2>2
<1>6. RightfulSoFar'
  <2>1. ASSUME NEW g \in Flow, k = <<"relay", g>> PROVE Rightful(g, kv[k])'
    <3>1. PICK u \in User : u = kv[k]
      BY <1>0, <2>1 DEF MayAsk, TypeOK
    <3>2. kv[<<"relay", g>>] = u /\ u # None
      BY <2>1, <3>1, NoneAssumption
    <3>3. g \in spent /\ Rightful(g, u)
      BY <3>2, Redeemed, RightfulParts DEF SignInInv, Entitlements
    <3>4. Rightful(g, u)'
      BY <1>2, <3>3, RightfulKept
    <3> QED
      BY <1>0, <3>1, <3>4 DEF Rightful
  <2>2. Entitled(r)'
    <3>1. req'[r].at = "read" /\ req'[r].key = k /\ req'[r].val = kv[k]
      BY <1>0a
    <3>2. ASSUME NEW g \in Flow, Claims(r, g)' PROVE Rightful(g, req[r].val)'
      <4>1. k = <<"relay", g>>
        BY <3>1, <3>2 DEF Claims
      <4>2. Rightful(g, kv[k])'
        BY <2>1, <4>1
      <4> QED
        BY <1>0, <3>1, <4>2 DEF Rightful
    <3> QED
      BY <3>1, <3>2 DEF Entitled, At
  <2> QED
    BY <1>0, <1>2, <2>2, RightfulStep
<1> QED
  BY <1>3, <1>4, <1>5, <1>6 DEF SignInInv

\* A code is redeemed for the first time.
LEMMA ExchangeInv ==
  ASSUME TypeOK, TypeOK', SignInInv, NEW r \in Request, Exchange(r)
  PROVE  SignInInv'
<1> DEFINE f == req[r].flow
<1>0. UNCHANGED <<adaptor, kv, client, accounts, history>> /\ At(r, "exchange") /\ f \in Flow
  BY AtFields DEF Exchange, At
<1>1. ConsentKept /\ AccountsKept
  BY <1>0, Unmoved DEF client, ConsentKept
<1>2. CASE consent[f] = Declined \/ f \in spent
  <2>1. spent' = spent /\ Go(r, [at |-> "fail", flow |-> f])
    BY <1>2 DEF Exchange
  <2>2. \A q \in Request : req'[q] = req[q] \/ req'[q].at = "fail"
    BY <2>1 DEF Go, TypeOK
  <2> QED
    BY <1>0, <1>1, <2>1, <2>2, QuietStep DEF history
<1>3. CASE consent[f] # Declined /\ f \notin spent
  <2>1. spent' = spent \cup {f} /\ Go(r, [at |-> "identify", flow |-> f])
    BY <1>3 DEF Exchange
  <2>2. /\ req'[r] = [at |-> "identify", flow |-> f]
        /\ \A q \in Request \ {r} : req'[q] = req[q]
    BY <2>1 DEF Go, TypeOK
  <2>3. Answered'
    <3>1. Answered
      BY DEF SignInInv
    <3>2. consent[f] # None
      BY <1>0, <3>1 DEF Answered
    <3>3. \A q \in Request : At(q, "exchange")' \/ At(q, "read")' => req'[q] = req[q]
      BY <2>2 DEF At
    <3> QED
      BY <1>0, <1>3, <2>1, <3>1, <3>2, <3>3 DEF Answered, At, client
  <2>4. AccountsSound'
    BY <1>0, <1>1, <2>2, AccountsFrame DEF At
  <2>5. ASSUME NEW g \in Flow PROVE OneCode(g)' /\ OneClaim(g)'
    <3>0. \A q \in Request : /\ Resolving(q, g)' => Resolving(q, g) \/ (q = r /\ g = f)
                             /\ Claims(q, g)' => Claims(q, g)
                             /\ Issues(q, g)' => Issues(q, g)
      BY <2>2 DEF Resolving, Claims, Issues, At
    <3>1. CASE g # f
      BY <1>0, <2>1, <3>0, <3>1, CodeKept DEF history
    <3>2. CASE g = f
      <4>1. OneCode(g) /\ OneClaim(g) /\ g \notin spent /\ g \in spent'
        BY <1>0, <1>3, <2>1, <3>2 DEF SignInInv
      <4>2. /\ kv[<<"relay", g>>] = None /\ issued[g] = 0
            /\ \A q \in Request : ~Resolving(q, g) /\ ~Claims(q, g) /\ ~Issues(q, g)
        BY <4>1 DEF OneCode
      <4>3. kv' = kv /\ issued' = issued
        BY <1>0 DEF history
      <4>4. \A q \in Request : ~Claims(q, g)' /\ ~Issues(q, g)' /\ (Resolving(q, g)' => q = r)
        BY <3>0, <4>2
      <4>5. OneCode(g)'
        BY <4>1, <4>2, <4>3, <4>4 DEF OneCode
      <4>6. OneClaim(g)'
        BY <4>2, <4>3, <4>4 DEF OneClaim
      <4> QED
        BY <4>5, <4>6
    <3> QED
      BY <3>1, <3>2
  <2>6. RightfulSoFar'
    BY <1>0, <1>1, <2>2, RightfulStep DEF Entitled, Claims, At, history
  <2> QED
    BY <2>3, <2>4, <2>5, <2>6 DEF SignInInv
<1> QED
  BY <1>2, <1>3

\* The request that redeemed the code of f goes on to a stage before the relay
\* code, with the rightful user if it has one.
LEMMA ResolvingStep ==
  ASSUME TypeOK, TypeOK', SignInInv, UNCHANGED <<adaptor, kv, client, spent, accounts, history>>,
         NEW r \in Request, NEW f \in Flow, Resolving(r, f), NEW s, Go(r, s),
         s.at \in {"lookup", "insert", "link"}, s.flow = f,
         s.at = "link" /\ ~s.fresh => s.user \in User /\ Rightful(f, s.user),
         AccountsSound'
  PROVE  SignInInv'
<1>1. req'[r] = s /\ \A q \in Request \ {r} : req'[q] = req[q]
  BY DEF Go, TypeOK
<1>2. ConsentKept /\ AccountsKept
  BY Unmoved DEF client, ConsentKept
<1>3. Answered'
  BY <1>1, <1>2, AnsweredFrame
<1>4. \A g \in Flow : OneCode(g)' /\ OneClaim(g)'
  <2>1. \A q \in Request, g \in Flow : /\ Resolving(q, g)' => Resolving(q, g)
                                       /\ Claims(q, g)' => Claims(q, g)
                                       /\ Issues(q, g)' => Issues(q, g)
    BY <1>1 DEF Resolving, Claims, Issues, At
  <2> QED
    BY <2>1, CodeFrame DEF history
<1>5. RightfulSoFar'
  <2>1. f \in spent
    BY Redeemed
  <2>2. Entitled(r)'
    <3>1. s.at = "link" /\ ~s.fresh => Rightful(f, s.user)'
      <4> SUFFICES ASSUME s.at = "link", ~s.fresh PROVE Rightful(f, s.user)'
        OBVIOUS
      <4>1. PICK u \in User : u = s.user
        OBVIOUS
      <4>2. Rightful(f, u)'
        BY <1>2, <2>1, <4>1, RightfulKept
      <4> QED
        BY <4>1, <4>2 DEF Rightful
    <3>2. At(r, "link")' /\ ~req'[r].fresh => Rightful(req[r].flow, req[r].user)'
      BY <1>1, <3>1 DEF At, Rightful
    <3> QED
      BY <1>1, <3>2 DEF Entitled, Claims, At
  <2> QED
    BY <1>1, <1>2, <2>2, RightfulStep DEF history
<1> QED
  BY <1>3, <1>4, <1>5 DEF SignInInv

LEMMA IdentifyInv ==
  ASSUME TypeOK, TypeOK', SignInInv, NEW r \in Request, Identify(r)
  PROVE  SignInInv'
<1> DEFINE f == req[r].flow
           u == identity[consent[f][1]]
           s == IF u # None THEN Linking(f, u, FALSE) ELSE [at |-> "lookup", flow |-> f]
<1>0. UNCHANGED <<adaptor, kv, client, spent, accounts, history>> /\ f \in Flow /\ Resolving(r, f) /\ Go(r, s)
  BY AtFields DEF Identify, At, Resolving
<1>1. s.at \in {"lookup", "link"} /\ s.flow = f
      /\ (s.at = "link" => s.user = u /\ u # None /\ ~s.fresh)
  BY DEF Linking
<1>2. u \in User \cup {None}
  BY <1>0, Redeemed DEF TypeOK
<1>3. s.at = "link" => s.user \in User /\ Rightful(f, s.user)
  BY <1>1, <1>2 DEF Rightful
<1>4. ConsentKept
  BY <1>0 DEF client, ConsentKept
<1>5. req'[r] = s /\ \A q \in Request \ {r} : req'[q] = req[q]
  BY <1>0 DEF Go, TypeOK
<1>6. AccountsSound'
  BY <1>0, <1>1, <1>4, <1>5, AccountsFrame DEF At
<1> HIDE DEF s
<1> QED
  BY <1>0, <1>1, <1>3, <1>6, ResolvingStep

LEMMA LookupInv ==
  ASSUME TypeOK, TypeOK', SignInInv, NEW r \in Request, Lookup(r)
  PROVE  SignInInv'
<1> DEFINE f == req[r].flow
           found == Owners(consent[f][2])
           u == CHOOSE u \in found : TRUE
           s == IF found # {} THEN Linking(f, u, FALSE) ELSE [at |-> "insert", flow |-> f]
<1>0. UNCHANGED <<adaptor, kv, client, spent, accounts, history>> /\ f \in Flow /\ Resolving(r, f) /\ Go(r, s)
  BY AtFields DEF Lookup, At, Resolving
<1>1. s.at \in {"insert", "link"} /\ s.flow = f
      /\ (s.at = "link" => s.user = u /\ found # {} /\ ~s.fresh)
  BY DEF Linking
<1>2. found # {} => u \in User /\ email[u] = consent[f][2]
  BY Targets DEF Owners
<1>3. s.at = "link" => s.user \in User /\ Rightful(f, s.user)
  BY <1>1, <1>2 DEF Rightful
<1>4. ConsentKept
  BY <1>0 DEF client, ConsentKept
<1>5. req'[r] = s /\ \A q \in Request \ {r} : req'[q] = req[q]
  BY <1>0 DEF Go, TypeOK
<1>6. AccountsSound'
  BY <1>0, <1>1, <1>4, <1>5, AccountsFrame DEF At
<1> HIDE DEF s
<1> QED
  BY <1>0, <1>1, <1>3, <1>6, ResolvingStep

\* The address a request inserts does not change while it waits for its commit.
LEMMA MailKept ==
  ASSUME TypeOK, SignInInv, ConsentKept, NEW q \in Request, Fresh(q), req'[q] = req[q]
  PROVE  Fresh(q)' /\ MailOf(q)' = MailOf(q)
<1>1. Fresh(q)'
  BY DEF Fresh, At
<1>2. CASE At(q, "commit")
  BY <1>1, <1>2 DEF MailOf, At
<1>3. CASE ~At(q, "commit")
  <2>1. At(q, "link")
    BY <1>3 DEF Fresh
  <2>2. req[q].flow \in Flow /\ Resolving(q, req[q].flow)
    BY <2>1, AtFields DEF At, Resolving
  <2>3. consent'[req[q].flow] = consent[req[q].flow]
    BY <2>2, Redeemed DEF ConsentKept
  <2> QED
    BY <1>1, <1>3, <2>3 DEF MailOf, At
<1> QED
  BY <1>1, <1>2, <1>3

\* A row nobody uses is inserted under an address nobody has or is inserting.
LEMMA FreshStep ==
  ASSUME TypeOK, SignInInv, UNCHANGED accounts, ConsentKept, NEW r \in Request, ~Fresh(r),
         \A q \in Request \ {r} : req'[q] = req[q],
         Fresh(r)', ~At(r, "setup")', NEW m, MailOf(r)' = m, ~Taken(m), MayInsert(m),
         NEW u \in Unused, req'[r].user = u
  PROVE  AccountsSound'
<1>1. AccountsSound
  BY DEF SignInInv
<1>2. \A q \in Request \ {r} : Fresh(q)' => Fresh(q)
  BY DEF Fresh, At
<1>3. \A q \in Request \ {r} : Fresh(q)' => req'[q].user = req[q].user /\ MailOf(q)' = MailOf(q)
  BY <1>2, MailKept
<1>4. \A q \in Request \ {r} : Fresh(q)' => req'[q].user # u /\ MailOf(q)' # m
  BY <1>2, <1>3 DEF Unused, MayInsert
<1>5. email[u] = None
  BY DEF Unused
<1>6. \A n : Taken(n)' <=> Taken(n)
  BY DEF Taken, accounts
<1>7. \A q \in Request : At(q, "setup")' => email'[req'[q].user] # None
  BY <1>1 DEF AccountsSound, At, accounts
<1>8. \A q \in Request : Fresh(q)' =>
        /\ email'[req'[q].user] = None /\ ~Taken(MailOf(q))'
        /\ \A p \in Request : Fresh(p)' => p = q \/ ( /\ req'[p].user # req'[q].user
                                                     /\ MailOf(p)' # MailOf(q)' )
  <2> SUFFICES ASSUME NEW q \in Request, Fresh(q)'
               PROVE  /\ email'[req'[q].user] = None /\ ~Taken(MailOf(q))'
                      /\ \A p \in Request : Fresh(p)' => p = q \/ ( /\ req'[p].user # req'[q].user
                                                                   /\ MailOf(p)' # MailOf(q)' )
    OBVIOUS
  <2>1. CASE q = r
    BY <1>4, <1>5, <2>1 DEF Taken, accounts
  <2>2. CASE q # r
    <3>1. /\ Fresh(q) /\ req'[q].user = req[q].user /\ MailOf(q)' = MailOf(q)
          /\ email[req[q].user] = None /\ ~Taken(MailOf(q))
      BY <1>1, <1>2, <1>3, <2>2 DEF AccountsSound
    <3>2. \A p \in Request \ {r} : Fresh(p)' =>
            p = q \/ (req'[p].user # req'[q].user /\ MailOf(p)' # MailOf(q)')
      BY <1>1, <1>2, <1>3, <2>2 DEF AccountsSound
    <3>3. req'[r].user # req'[q].user /\ MailOf(r)' # MailOf(q)'
      BY <1>4, <2>2
    <3> QED
      BY <3>1, <3>2, <3>3 DEF Taken, accounts
  <2> QED
    BY <2>1, <2>2
<1> QED
  BY <1>1, <1>7, <1>8 DEF AccountsSound, accounts

LEMMA InsertInv ==
  ASSUME TypeOK, TypeOK', SignInInv, NEW r \in Request, Insert(r)
  PROVE  SignInInv'
<1> DEFINE f == req[r].flow
           m == consent[f][2]
<1>0. /\ UNCHANGED <<adaptor, kv, client, spent, accounts, history>>
      /\ f \in Flow /\ Resolving(r, f) /\ MayInsert(m) /\ At(r, "insert")
  BY AtFields DEF Insert, At, Resolving
<1>1. ConsentKept
  BY <1>0 DEF client, ConsentKept
<1>2. CASE Taken(m)
  <2>1. Go(r, [at |-> "fail", flow |-> f])
    BY <1>2 DEF Insert
  <2>2. \A q \in Request : req'[q] = req[q] \/ req'[q].at = "fail"
    BY <2>1 DEF Go, TypeOK
  <2> QED
    BY <1>0, <1>1, <2>2, QuietStep DEF history
<1>3. CASE ~Taken(m)
  <2>1. Unused # {} /\ Go(r, Linking(f, CHOOSE u \in Unused : TRUE, TRUE))
    BY <1>3 DEF Insert
  <2>2. PICK u \in Unused : Go(r, Linking(f, u, TRUE))
    BY <2>1, Targets
  <2> DEFINE s == Linking(f, u, TRUE)
  <2>3. s.at = "link" /\ s.flow = f /\ s.user = u /\ s.fresh = TRUE
    BY DEF Linking
  <2>4. req'[r] = s /\ \A q \in Request \ {r} : req'[q] = req[q]
    BY <2>2 DEF Go, TypeOK
  <2>5. Fresh(r)' /\ ~At(r, "setup")' /\ MailOf(r)' = m
    BY <1>0, <2>3, <2>4 DEF Fresh, At, MailOf, client
  <2>6. ~Fresh(r)
    BY <1>0 DEF Fresh, At
  <2>7. AccountsSound'
    BY <1>0, <1>1, <1>3, <2>3, <2>4, <2>5, <2>6, FreshStep
  <2> HIDE DEF s
  <2> QED
    BY <1>0, <2>2, <2>3, <2>7, ResolvingStep DEF s
<1> QED
  BY <1>2, <1>3

LEMMA RegisterInv ==
  ASSUME TypeOK, TypeOK', SignInInv, NEW r \in Request, NEW m \in Email, Register(r, m)
  PROVE  SignInInv'
<1>0. /\ UNCHANGED <<adaptor, kv, client, spent, accounts, history>>
      /\ At(r, "idle") /\ MayInsert(m) /\ ~Taken(m)
  BY DEF Register
<1>1. ConsentKept /\ AccountsKept
  BY <1>0, Unmoved DEF client, ConsentKept
<1>2. PICK u \in Unused : Go(r, [at |-> "commit", mail |-> m, user |-> u])
  BY Targets DEF Register
<1>3. /\ req'[r].at = "commit" /\ req'[r].mail = m /\ req'[r].user = u
      /\ \A q \in Request \ {r} : req'[q] = req[q]
  BY <1>2 DEF Go, TypeOK
<1>4. Fresh(r)' /\ ~At(r, "setup")' /\ MailOf(r)' = m /\ ~Fresh(r)
  BY <1>0, <1>3 DEF Fresh, At, MailOf
<1>5. AccountsSound'
  BY <1>0, <1>1, <1>3, <1>4, FreshStep
<1>6. Answered'
  BY <1>0, <1>1, <1>3, AnsweredFrame
<1>7. \A f \in Flow : OneCode(f)' /\ OneClaim(f)'
  BY <1>0, <1>3, CodeFrame DEF Resolving, Claims, Issues, At, history
<1>8. RightfulSoFar'
  BY <1>0, <1>1, <1>3, RightfulStep DEF Entitled, Claims, At, history
<1> QED
  BY <1>5, <1>6, <1>7, <1>8 DEF SignInInv

\* Of two requests that insert, one commits.
LEMMA OneRow ==
  ASSUME TypeOK, SignInInv, ConsentKept, NEW r \in Request, Fresh(r), ~Fresh(r)',
         \A q \in Request \ {r} : req'[q] = req[q],
         ~At(r, "setup")', email' = [email EXCEPT ![req[r].user] = MailOf(r)],
         req[r].user \in User, MailOf(r) \in Email,
         \A s \in Sub : identity'[s] = identity[s] \/ (identity[s] = None /\ identity'[s] = req[r].user),
         \A v \in User : cred'[v] # None => cred[v] # None \/ v = req[r].user
  PROVE  AccountsSound' /\ AccountsKept
<1> DEFINE u == req[r].user
           m == MailOf(r)
<1>1. AccountsSound /\ email[u] = None /\ ~Taken(m) /\ m # None
  BY NoneAssumption DEF SignInInv, AccountsSound
<1>2. email'[u] = m /\ \A v \in User \ {u} : email'[v] = email[v]
  BY DEF TypeOK
<1>3. \A v \in User : email[v] # None => email'[v] = email[v]
  BY <1>1, <1>2
<1>4. AccountsKept
  BY <1>3 DEF AccountsKept
<1>5. \A v, w \in User : email'[v] = email'[w] /\ email'[v] # None => v = w
  BY <1>1, <1>2 DEF AccountsSound, Taken
<1>6. \A s \in Sub : identity'[s] # None => email'[identity'[s]] # None
  BY <1>1, <1>2, <1>3 DEF AccountsSound, TypeOK
<1>7. \A v \in User : cred'[v] # None => email'[v] # None
  BY <1>1, <1>2 DEF AccountsSound
<1>8. \A q \in Request : At(q, "setup")' => email'[req'[q].user] # None
  <2> SUFFICES ASSUME NEW q \in Request, At(q, "setup")' PROVE email'[req'[q].user] # None
    OBVIOUS
  <2>1. q # r /\ req'[q] = req[q]
    OBVIOUS
  <2>2. At(q, "setup") /\ req[q].user \in User
    BY <2>1, AtFields DEF At
  <2> QED
    BY <1>1, <1>3, <2>1, <2>2 DEF AccountsSound
<1>9. ASSUME NEW q \in Request, Fresh(q)'
      PROVE  /\ email'[req'[q].user] = None /\ ~Taken(MailOf(q))'
             /\ \A p \in Request : Fresh(p)' => p = q \/ ( /\ req'[p].user # req'[q].user
                                                          /\ MailOf(p)' # MailOf(q)' )
  <2>1. \A p \in Request : Fresh(p)' =>
          p # r /\ Fresh(p) /\ req'[p].user = req[p].user /\ MailOf(p)' = MailOf(p)
    <3> SUFFICES ASSUME NEW p \in Request, Fresh(p)'
                 PROVE  p # r /\ Fresh(p) /\ req'[p].user = req[p].user /\ MailOf(p)' = MailOf(p)
      OBVIOUS
    <3>1. p # r /\ req'[p] = req[p]
      OBVIOUS
    <3>2. Fresh(p)
      BY <3>1 DEF Fresh, At
    <3> QED
      BY <3>1, <3>2, MailKept
  <2>2. q # r /\ Fresh(q) /\ req'[q].user = req[q].user /\ MailOf(q)' = MailOf(q)
    BY <1>9, <2>1
  <2>3. /\ email[req[q].user] = None /\ ~Taken(MailOf(q))
        /\ req[q].user # u /\ MailOf(q) # m
    BY <1>1, <2>2 DEF AccountsSound
  <2>4. req[q].user \in User
    BY <2>2, AtFields DEF Fresh, At
  <2>5. email'[req'[q].user] = None
    BY <1>2, <2>2, <2>3, <2>4
  <2>6. ~Taken(MailOf(q))'
    BY <1>2, <2>2, <2>3 DEF Taken
  <2>7. \A p \in Request : Fresh(p)' => p = q \/ ( /\ req'[p].user # req'[q].user
                                                  /\ MailOf(p)' # MailOf(q)' )
    BY <1>1, <2>1, <2>2 DEF AccountsSound
  <2> QED
    BY <2>5, <2>6, <2>7
<1>10. AccountsSound'
  BY <1>5, <1>6, <1>7, <1>8, <1>9 DEF AccountsSound
<1> QED
  BY <1>4, <1>10

\* A user with the right to a flow has a committed row.
LEMMA RightfulHasRow ==
  ASSUME TypeOK, SignInInv, NEW f \in Flow, f \in spent, NEW u \in User, Rightful(f, u)
  PROVE  email[u] # None
<1>1. consent[f] \notin {None, Declined} /\ consent[f] \in {None, Declined} \cup (Sub \X Email)
  BY DEF SignInInv, Answered, TypeOK
<1>2. consent[f][1] \in Sub /\ consent[f][2] \in Email
  BY <1>1
<1> QED
  BY <1>2, NoneAssumption DEF SignInInv, AccountsSound, Rightful

LEMMA LinkInv ==
  ASSUME TypeOK, TypeOK', SignInInv, NEW r \in Request, Link(r)
  PROVE  SignInInv' /\ AccountsKept
<1>1. PICK f \in Flow, u \in User : f = req[r].flow /\ u = req[r].user
  BY AtFields DEF Link, At
<1>2. /\ UNCHANGED <<adaptor, kv, client, spent, cred, history>> /\ At(r, "link") /\ Resolving(r, f)
      /\ identity' = Linked(consent[f][1], u)
      /\ email' = IF req[r].fresh THEN [email EXCEPT ![u] = consent[f][2]] ELSE email
      /\ req' = [req EXCEPT ![r] = [at |-> "relay", flow |-> f, user |-> u]]
  BY <1>1 DEF Link, At, Resolving, Go
<1>3. /\ req'[r].at = "relay" /\ req'[r].flow = f /\ req'[r].user = u
      /\ \A q \in Request \ {r} : req'[q] = req[q]
  BY <1>2 DEF TypeOK
<1>4. f \in spent /\ consent[f][1] \in Sub /\ consent[f][2] \in Email /\ req[r].fresh \in BOOLEAN
  BY <1>2, Redeemed, AtFields
<1>5. ConsentKept
  BY <1>2 DEF client, ConsentKept
<1>6. \A s \in Sub : identity'[s] = identity[s] \/ (identity[s] = None /\ identity'[s] = u)
  BY <1>2 DEF Linked, TypeOK
<1>7. AccountsSound' /\ AccountsKept /\ (identity'[consent[f][1]] = u \/ email'[u] = consent[f][2])
  <2>1. CASE req[r].fresh
    <3>1. Fresh(r) /\ ~Fresh(r)' /\ MailOf(r) = consent[f][2] /\ ~At(r, "setup")'
      BY <1>1, <1>2, <1>3, <2>1 DEF Fresh, At, MailOf
    <3>2. AccountsSound' /\ AccountsKept
      BY <1>1, <1>2, <1>3, <1>4, <1>5, <1>6, <2>1, <3>1, OneRow
    <3>3. email'[u] = consent[f][2]
      BY <1>2, <2>1 DEF TypeOK
    <3> QED
      BY <3>2, <3>3
  <2>2. CASE ~req[r].fresh
    <3>1. Rightful(f, u)
      BY <1>1, <1>2, <2>2 DEF SignInInv, RightfulSoFar
    <3>2. email[u] # None /\ email' = email
      BY <1>2, <1>4, <2>2, <3>1, RightfulHasRow
    <3>3. AccountsKept
      BY <1>6, <3>2 DEF AccountsKept
    <3>4. \A q \in Request : Fresh(q)' => q # r /\ Fresh(q) /\ req'[q] = req[q]
      BY <1>3 DEF Fresh, At
    <3>5. \A q \in Request : Fresh(q)' => MailOf(q)' = MailOf(q)
      BY <1>5, <3>4, MailKept
    <3>6. \A q \in Request : At(q, "setup")' => At(q, "setup") /\ req'[q] = req[q]
      BY <1>3 DEF At
    <3>7. \A m : Taken(m)' <=> Taken(m)
      BY <3>2 DEF Taken
    <3>8. AccountsSound
      BY DEF SignInInv
    <3>9. \A s \in Sub : identity'[s] # None => email'[identity'[s]] # None
      BY <1>6, <3>2, <3>8 DEF AccountsSound
    <3>10. AccountsSound'
      BY <1>2, <3>2, <3>4, <3>5, <3>6, <3>7, <3>8, <3>9 DEF AccountsSound
    <3>11. identity'[consent[f][1]] = u \/ email'[u] = consent[f][2]
      <4>1. identity[consent[f][1]] = u => identity'[consent[f][1]] = u
        BY <1>4, <1>6, NoneAssumption
      <4> QED
        BY <3>1, <3>2, <4>1 DEF Rightful
    <3> QED
      BY <3>3, <3>10, <3>11
  <2> QED
    BY <1>4, <2>1, <2>2
<1>8. Answered'
  BY <1>2, <1>3, <1>5, AnsweredFrame
<1>9. \A g \in Flow : OneCode(g)' /\ OneClaim(g)'
  <2>1. \A q \in Request, g \in Flow : /\ Resolving(q, g)' => Resolving(q, g)
                                       /\ Claims(q, g)' => Claims(q, g)
                                       /\ Issues(q, g)' => Issues(q, g)
    BY <1>1, <1>2, <1>3 DEF Resolving, Claims, Issues, At
  <2> QED
    BY <1>2, <2>1, CodeFrame DEF history
<1>10. RightfulSoFar'
  <2>1. Rightful(f, u)'
    BY <1>2, <1>7 DEF Rightful, client
  <2>2. Rightful(req[r].flow, req[r].user)'
    BY <1>3, <2>1 DEF Rightful
  <2>3. Entitled(r)'
    BY <1>3, <2>2 DEF Entitled, Claims, At
  <2> QED
    BY <1>2, <1>3, <1>5, <1>7, <2>3, RightfulStep DEF history
<1> QED
  BY <1>7, <1>8, <1>9, <1>10 DEF SignInInv

LEMMA SaveRelayInv ==
  ASSUME TypeOK, TypeOK', SignInInv, NEW r \in Request, SaveRelay(r)
  PROVE  SignInInv'
<1>1. PICK f \in Flow, u \in User : f = req[r].flow /\ u = req[r].user
  BY AtFields DEF SaveRelay, At
<1>2. /\ UNCHANGED <<adaptor, started, consent, spent, accounts, history>>
      /\ At(r, "relay") /\ Resolving(r, f) /\ kv' = [kv EXCEPT ![<<"relay", f>>] = u]
  BY <1>1 DEF SaveRelay, At, Resolving, Set
<1>3. req'[r].at \in {"idle", "park"} /\ \A q \in Request \ {r} : req'[q] = req[q]
  <2>1. Go(r, Idle) \/ Go(r, [at |-> "park", flow |-> f])
    BY <1>1 DEF SaveRelay
  <2> QED
    BY <2>1 DEF Go, Idle, TypeOK
<1>4. ConsentKept /\ AccountsKept
  BY <1>2, Unmoved DEF ConsentKept
<1>5. Answered'
  BY <1>2, <1>3, <1>4, AnsweredFrame
<1>6. AccountsSound'
  BY <1>2, <1>3, <1>4, AccountsFrame DEF At
<1>7. \A g \in Flow : kv'[<<"relay", g>>] = IF g = f THEN u ELSE kv[<<"relay", g>>]
  <2>1. \A g \in Flow : <<"relay", g>> \in Key
    BY DEF Key
  <2> QED
    BY <1>2, <2>1, KeysApart DEF TypeOK
<1>8. ASSUME NEW g \in Flow PROVE OneCode(g)' /\ OneClaim(g)'
  <2>0. \A q \in Request : /\ Resolving(q, g)' => Resolving(q, g) /\ q # r
                           /\ Claims(q, g)' => Claims(q, g)
                           /\ Issues(q, g)' => Issues(q, g)
    BY <1>3 DEF Resolving, Claims, Issues, At
  <2>1. CASE g # f
    BY <1>2, <1>7, <2>0, <2>1, CodeKept DEF history
  <2>2. CASE g = f
    <3>1. OneCode(g) /\ g \in spent
      BY <1>2, <2>2, Redeemed DEF SignInInv
    <3>2. /\ issued[g] = 0
          /\ \A q \in Request : ~Claims(q, g) /\ ~Issues(q, g) /\ (Resolving(q, g) => q = r)
      BY <1>2, <2>2, <3>1 DEF OneCode
    <3>3. \A q \in Request : ~Claims(q, g)' /\ ~Issues(q, g)' /\ ~Resolving(q, g)'
      BY <2>0, <3>2
    <3>4. OneCode(g)'
      BY <1>2, <3>1, <3>3 DEF OneCode
    <3>5. OneClaim(g)'
      BY <1>2, <3>2, <3>3 DEF OneClaim, history
    <3> QED
      BY <3>4, <3>5
  <2> QED
    BY <2>1, <2>2
<1>9. RightfulSoFar'
  <2>1. Rightful(f, u) /\ f \in spent
    BY <1>1, <1>2, Redeemed, RightfulParts DEF SignInInv, Entitlements, Entitled
  <2>2. Rightful(f, u)'
    BY <1>4, <2>1, RightfulKept
  <2>3. \A g \in Flow : \/ kv'[<<"relay", g>>] \in {kv[<<"relay", g>>], None}
                        \/ Rightful(g, kv[<<"relay", g>>])'
    BY <1>7, <2>2 DEF Rightful
  <2> QED
    BY <1>2, <1>3, <1>4, <2>3, RightfulStep DEF Entitled, Claims, At, history
<1> QED
  BY <1>5, <1>6, <1>8, <1>9 DEF SignInInv

LEMMA IssueInv ==
  ASSUME TypeOK, TypeOK', SignInInv, NEW r \in Request, IssueSession(r)
  PROVE  SignInInv'
<1>1. PICK f \in Flow, u \in User : f = req[r].flow /\ u = req[r].user
  BY AtFields DEF IssueSession, At
<1>2. /\ UNCHANGED <<adaptor, kv, client, spent, accounts, raced>> /\ At(r, "issue") /\ Issues(r, f)
      /\ issued' = [issued EXCEPT ![f] = @ + 1] /\ session' = [session EXCEPT ![f] = u]
  BY <1>1 DEF IssueSession, At, Issues
<1>3. req'[r].at = "idle" /\ \A q \in Request \ {r} : req'[q] = req[q]
  BY DEF IssueSession, Go, Idle, TypeOK
<1>4. ConsentKept /\ AccountsKept
  BY <1>2, Unmoved DEF ConsentKept, client
<1>5. Answered'
  BY <1>2, <1>3, <1>4, AnsweredFrame
<1>6. AccountsSound'
  BY <1>2, <1>3, <1>4, AccountsFrame DEF At
<1>7. /\ issued'[f] = issued[f] + 1 /\ session'[f] = u /\ issued[f] \in Nat
      /\ \A g \in Flow \ {f} : issued'[g] = issued[g] /\ session'[g] = session[g]
  BY <1>2 DEF TypeOK
<1>8. ASSUME NEW g \in Flow PROVE OneCode(g)' /\ OneClaim(g)'
  <2>0. \A q \in Request : /\ Resolving(q, g)' => Resolving(q, g)
                           /\ Claims(q, g)' => Claims(q, g)
                           /\ Issues(q, g)' => Issues(q, g) /\ q # r
    BY <1>3 DEF Resolving, Claims, Issues, At
  <2>1. CASE g # f
    BY <1>2, <1>7, <2>0, <2>1, CodeKept
  <2>2. CASE g = f
    <3>1. OneCode(g) /\ OneClaim(g) /\ g \in spent /\ Issues(r, g)
      BY <1>2, <2>2, Redeemed DEF SignInInv
    <3>2. \A q \in Request : ~Resolving(q, g)
      BY <3>1 DEF OneCode
    <3>3. g \notin raced => /\ issued[g] = 0 /\ kv[<<"relay", g>>] = None
                            /\ \A q \in Request : ~Claims(q, g) /\ (Issues(q, g) => q = r)
      BY <3>1 DEF OneClaim
    <3>4. OneCode(g)'
      BY <1>2, <2>0, <3>1, <3>2 DEF OneCode
    <3>5. OneClaim(g)'
      BY <1>2, <1>7, <2>0, <2>2, <3>3 DEF OneClaim
    <3> QED
      BY <3>4, <3>5
  <2> QED
    BY <2>1, <2>2
<1>9. RightfulSoFar'
  <2>1. Rightful(f, u) /\ f \in spent
    BY <1>1, <1>2, Redeemed, RightfulParts DEF SignInInv, Entitlements, Entitled
  <2>2. Rightful(f, u)'
    BY <1>4, <2>1, RightfulKept
  <2>3. \A g \in Flow : session'[g] = session[g] \/ Rightful(g, session[g])'
    BY <1>7, <2>2 DEF Rightful
  <2> QED
    BY <1>2, <1>3, <1>4, <2>3, RightfulStep DEF Entitled, Claims, At
<1> QED
  BY <1>5, <1>6, <1>8, <1>9 DEF SignInInv

LEMMA CommitInv ==
  ASSUME TypeOK, TypeOK', SignInInv, NEW r \in Request, CommitRegistration(r)
  PROVE  SignInInv' /\ AccountsKept
<1>0. At(r, "commit") /\ MailOf(r) = req[r].mail /\ Fresh(r)
      /\ req[r].user \in User /\ req[r].mail \in Email
  BY AtFields DEF CommitRegistration, MailOf, Fresh, At
<1>1. /\ UNCHANGED <<adaptor, kv, client, spent, identity, history>> /\ At(r, "commit")
      /\ email' = [email EXCEPT ![req[r].user] = MailOf(r)]
      /\ cred' = [cred EXCEPT ![req[r].user] = "register"]
      /\ req[r].user \in User /\ MailOf(r) \in Email /\ Fresh(r)
  BY <1>0 DEF CommitRegistration
<1>2. req'[r].at = "idle" /\ \A q \in Request \ {r} : req'[q] = req[q]
  BY DEF CommitRegistration, Go, Idle, TypeOK
<1>3. ConsentKept
  BY <1>1 DEF ConsentKept, client
<1>4. \A v \in User : cred'[v] # None => cred[v] # None \/ v = req[r].user
  BY <1>1 DEF TypeOK
<1>5. ~Fresh(r)' /\ ~At(r, "setup")'
  BY <1>2 DEF Fresh, At
<1>6. AccountsSound' /\ AccountsKept
  BY <1>1, <1>2, <1>3, <1>4, <1>5, OneRow
<1>7. Answered'
  BY <1>1, <1>2, <1>3, AnsweredFrame
<1>8. \A g \in Flow : OneCode(g)' /\ OneClaim(g)'
  BY <1>1, <1>2, CodeFrame DEF Resolving, Claims, Issues, At, history
<1>9. RightfulSoFar'
  BY <1>1, <1>2, <1>3, <1>6, RightfulStep DEF Entitled, Claims, At, history
<1> QED
  BY <1>6, <1>7, <1>8, <1>9 DEF SignInInv

\* The user a session is for has a row.
LEMMA SetupInv ==
  ASSUME TypeOK, TypeOK', SignInInv, NEW r \in Request, NEW u \in User, Setup(r, u)
  PROVE  SignInInv'
<1>1. /\ UNCHANGED <<adaptor, kv, client, spent, accounts, history>>
      /\ req'[r].at = "setup" /\ req'[r].user = u
      /\ \A q \in Request \ {r} : req'[q] = req[q]
  BY DEF Setup, Go, TypeOK
<1>2. PICK f \in Flow : session[f] = u
  BY DEF Setup
<1>3. session[f] # None
  BY <1>2, NoneAssumption
<1>4. f \in spent /\ Rightful(f, u)
  BY <1>2, <1>3, Redeemed, RightfulParts DEF SignInInv, Entitlements
<1>5. email[u] # None
  BY <1>4, RightfulHasRow
<1>6. ConsentKept /\ AccountsKept
  BY <1>1, Unmoved DEF ConsentKept, client
<1>7. AccountsSound'
  <2>1. AccountsSound
    BY DEF SignInInv
  <2>2. \A q \in Request : Fresh(q)' => Fresh(q) /\ req'[q] = req[q]
    BY <1>1 DEF Fresh, At
  <2>3. \A q \in Request : Fresh(q)' => MailOf(q)' = MailOf(q)
    BY <1>6, <2>2, MailKept
  <2>4. \A m : Taken(m)' <=> Taken(m)
    BY <1>1 DEF Taken, accounts
  <2>5. \A q \in Request : At(q, "setup")' => email[req'[q].user] # None
    BY <1>1, <1>5, <2>1 DEF At, AccountsSound
  <2> QED
    BY <1>1, <2>1, <2>2, <2>3, <2>4, <2>5 DEF AccountsSound, accounts
<1>8. Answered'
  BY <1>1, <1>6, AnsweredFrame
<1>9. \A g \in Flow : OneCode(g)' /\ OneClaim(g)'
  BY <1>1, CodeFrame DEF Resolving, Claims, Issues, At, history
<1>10. RightfulSoFar'
  BY <1>1, <1>6, RightfulStep DEF Entitled, Claims, At, history
<1> QED
  BY <1>7, <1>8, <1>9, <1>10 DEF SignInInv

LEMMA InsertCredInv ==
  ASSUME TypeOK, TypeOK', SignInInv, NEW r \in Request, InsertCred(r)
  PROVE  SignInInv' /\ AccountsKept
<1>1. PICK u \in User : u = req[r].user
  BY AtFields DEF InsertCred, At
<1>2. /\ UNCHANGED <<adaptor, kv, client, spent, email, identity, history>> /\ At(r, "setup")
      /\ \A v \in User : cred'[v] = cred[v] \/ v = u
      /\ req'[r].at = "idle" /\ \A q \in Request \ {r} : req'[q] = req[q]
  BY <1>1 DEF InsertCred, Go, Idle, TypeOK
<1>3. ConsentKept /\ AccountsKept
  BY <1>2 DEF ConsentKept, client, AccountsKept
<1>4. AccountsSound'
  <2>1. AccountsSound /\ email[u] # None
    BY <1>1, <1>2 DEF SignInInv, AccountsSound
  <2>2. \A q \in Request : Fresh(q)' => Fresh(q) /\ req'[q] = req[q]
    BY <1>2 DEF Fresh, At
  <2>3. \A q \in Request : Fresh(q)' => MailOf(q)' = MailOf(q)
    BY <1>3, <2>2, MailKept
  <2>4. \A m : Taken(m)' <=> Taken(m)
    BY <1>2 DEF Taken
  <2>5. \A q \in Request : At(q, "setup")' => email[req'[q].user] # None
    BY <1>2, <2>1 DEF At, AccountsSound
  <2>6. \A v \in User : cred'[v] # None => email[v] # None
    BY <1>2, <2>1 DEF AccountsSound
  <2> QED
    BY <1>2, <2>1, <2>2, <2>3, <2>4, <2>5, <2>6 DEF AccountsSound
<1>5. Answered'
  BY <1>2, <1>3, AnsweredFrame
<1>6. \A g \in Flow : OneCode(g)' /\ OneClaim(g)'
  BY <1>2, CodeFrame DEF Resolving, Claims, Issues, At, history
<1>7. RightfulSoFar'
  BY <1>2, <1>3, RightfulStep DEF Entitled, Claims, At, history
<1> QED
  BY <1>3, <1>4, <1>5, <1>6, <1>7 DEF SignInInv

-----------------------------------------------------------------------------
(* Every step *)

\* A step of a handler that is resolved elsewhere only takes something away.
LEMMA Retreats ==
  ASSUME TypeOK, TypeOK', SignInInv,
         \/ \E f \in Flow : Start(f) \/ Consent(f) \/ Poll(f) \/ LosePoll(f)
         \/ \E r \in Request : Refused(r) \/ Lost(r) \/ Park(r) \/ Fail(r)
         \/ \E k \in Key : Expire(k)
         \/ Crash
         \/ UNCHANGED vars
  PROVE  SignInInv'
<1>0. \A f \in Flow : <<"relay", f>> \in Key
  BY DEF Key
<1>1. \A f \in Flow : kv'[<<"relay", f>>] \in {kv[<<"relay", f>>], None}
  <2>1. CASE \E f \in Flow : Start(f)
    BY <1>0, <2>1 DEF Start, Set, TypeOK
  <2>2. CASE \E f \in Flow : Poll(f) \/ LosePoll(f)
    <3>1. PICK g \in Flow : kv' = [kv EXCEPT ![<<"web", g>>] = None]
      BY <2>2 DEF Poll, LosePoll, Consumed
    <3> QED
      BY <1>0, <3>1 DEF TypeOK
  <2>3. CASE \E r \in Request : Park(r) \/ Fail(r)
    <3>1. PICK r \in Request : Park(r) \/ Fail(r)
      BY <2>3
    <3>2. kv' = kv \/ \E v : kv' = [kv EXCEPT ![<<"web", req[r].flow>>] = v]
      BY <3>1 DEF Park, Fail, Parked
    <3>3. \A f \in Flow : <<"web", req[r].flow>> # <<"relay", f>>
      OBVIOUS
    <3> QED
      BY <1>0, <3>2, <3>3 DEF TypeOK
  <2>4. CASE \E k \in Key : Expire(k)
    BY <1>0, <2>4 DEF Expire, Set, TypeOK
  <2>5. CASE Crash
    BY <1>0, <2>5 DEF Crash
  <2>6. CASE \/ \E f \in Flow : Consent(f)
             \/ \E r \in Request : Refused(r) \/ Lost(r)
             \/ UNCHANGED vars
    BY <2>6 DEF Consent, Refused, Lost, vars
  <2> QED
    BY <2>1, <2>2, <2>3, <2>4, <2>5, <2>6
<1>2. \A q \in Request : req'[q] = req[q] \/ req'[q].at \in {"idle", "fail", "park"}
  <2>1. CASE \E r \in Request : Refused(r) \/ Lost(r) \/ Park(r) \/ Fail(r)
    BY <2>1 DEF Refused, Lost, Park, Fail, Go, Idle, TypeOK
  <2>2. CASE Crash
    BY <2>2 DEF Crash, Idle
  <2>3. CASE \/ \E f \in Flow : Start(f) \/ Consent(f) \/ Poll(f) \/ LosePoll(f)
             \/ \E k \in Key : Expire(k)
             \/ UNCHANGED vars
    BY <2>3 DEF Start, Consent, Poll, LosePoll, Expire, vars
  <2> QED
    BY <2>1, <2>2, <2>3
<1>3. ConsentKept
  <2>1. CASE \E f \in Flow : Consent(f)
    BY <2>1 DEF Consent, ConsentKept, TypeOK
  <2>2. CASE ~\E f \in Flow : Consent(f)
    BY <2>2 DEF Start, Poll, LosePoll, Refused, Lost, Park, Fail, Expire, Crash, vars, client, ConsentKept
  <2> QED
    BY <2>1, <2>2
<1>4. UNCHANGED <<adaptor, spent, accounts, history>>
  BY DEF Start, Consent, Poll, LosePoll, Refused, Lost, Park, Fail, Expire, Crash, vars
<1> QED
  BY <1>1, <1>2, <1>3, <1>4, QuietStep DEF history

\* The types need the invariant where a handler uses what Google vouched for.
LEMMA TypeNext ==
  ASSUME TypeOK, SignInInv, [Next]_vars
  PROVE  TypeOK'
<1>1. CASE \E f \in Flow : Start(f) \/ Consent(f) \/ Poll(f) \/ LosePoll(f)
  BY <1>1, StartType, ConsentType, PollType, LosePollType
<1>2. CASE \E r \in Request, k \in Key : Ask(r, k)
  BY <1>2, TakeType, ReadType DEF Ask
<1>3. CASE \E r \in Request : Identify(r) \/ Link(r)
  <2>1. PICK r \in Request : Identify(r) \/ Link(r)
    BY <1>3
  <2>2. req[r].flow \in Flow /\ Resolving(r, req[r].flow)
    BY <2>1, AtFields DEF Identify, Link, Resolving, At
  <2>3. consent[req[r].flow] \in Sub \X Email
    BY <2>2, Redeemed
  <2> QED
    BY <2>1, <2>3, IdentifyType, LinkType
<1>4. CASE \E r \in Request : \/ Delete(r) \/ Exchange(r) \/ Lookup(r) \/ Insert(r) \/ SaveRelay(r)
                              \/ Park(r) \/ Fail(r) \/ IssueSession(r)
                              \/ CommitRegistration(r) \/ InsertCred(r)
  BY <1>4, DeleteType, ExchangeType, LookupType, InsertType, SaveRelayType, ParkType, FailType,
     IssueType, CommitType, InsertCredType
<1>5. CASE \E r \in Request : Refused(r) \/ Lost(r)
  BY <1>5, RefusedType, LostType
<1>6. CASE \E r \in Request : \/ \E e \in Email : Register(r, e)
                              \/ \E u \in User : Setup(r, u)
  BY <1>6, RegisterType, SetupType
<1>7. CASE (\E k \in Key : Expire(k)) \/ Crash
  BY <1>7, ExpireType, CrashType
<1>8. CASE UNCHANGED vars
  BY <1>8 DEF vars, client, accounts, history, TypeOK
<1> QED
  BY <1>1, <1>2, <1>3, <1>4, <1>5, <1>6, <1>7, <1>8 DEF Next, Step

LEMMA InvNext ==
  ASSUME TypeOK, TypeOK', SignInInv, [Next]_vars
  PROVE  SignInInv'
<1>1. CASE \/ \E f \in Flow : Start(f) \/ Consent(f) \/ Poll(f) \/ LosePoll(f)
           \/ \E r \in Request : Refused(r) \/ Lost(r) \/ Park(r) \/ Fail(r)
           \/ \E k \in Key : Expire(k)
           \/ Crash
           \/ UNCHANGED vars
  BY <1>1, Retreats
<1>2. CASE \E r \in Request, k \in Key : Ask(r, k)
  BY <1>2, TakeInv, ReadInv DEF Ask
<1>3. CASE \E r \in Request : \/ Delete(r) \/ Exchange(r) \/ Identify(r) \/ Lookup(r) \/ Insert(r)
                              \/ Link(r) \/ SaveRelay(r) \/ IssueSession(r)
                              \/ CommitRegistration(r) \/ InsertCred(r)
  BY <1>3, DeleteInv, ExchangeInv, IdentifyInv, LookupInv, InsertInv, LinkInv, SaveRelayInv,
     IssueInv, CommitInv, InsertCredInv
<1>4. CASE \E r \in Request : \/ \E e \in Email : Register(r, e)
                              \/ \E u \in User : Setup(r, u)
  BY <1>4, RegisterInv, SetupInv
<1> QED
  BY <1>1, <1>2, <1>3, <1>4 DEF Next, Step

LEMMA Inductive == TypeOK /\ SignInInv /\ [Next]_vars => TypeOK' /\ SignInInv'
BY TypeNext, InvNext

LEMMA Invariant == Spec => [](TypeOK /\ SignInInv)
BY InitType, InvInit, Inductive, PTL DEF Spec

\* Every variable keeps its type: in particular a key of the store only ever
\* holds what its part of the flow puts there.
THEOREM TypeCorrect == Spec => []TypeOK
BY Invariant, PTL

\* One trip to Google gives at most one session, however callbacks and claims
\* are repeated, unless two requests read a key of the in-memory store at once.
THEOREM ConsentGivesOneSession == Spec => []OneSessionPerConsent
<1>1. SignInInv => OneSessionPerConsent
  BY DEF SignInInv, OneClaim, OneSessionPerConsent
<1> QED
  BY <1>1, Invariant, PTL

\* A relay code and its session are for the account linked to the Google account
\* or holding the address Google vouched for, however sign-ins and registrations
\* overlap.
THEOREM SessionsAreRightful == Spec => []NotSomeoneElse
<1>1. SignInInv => NotSomeoneElse
  BY DEF SignInInv, RightfulSoFar
<1> QED
  BY <1>1, Invariant, PTL

\* Three steps write to the accounts, each where there was nothing.
LEMMA KeptByNext ==
  ASSUME TypeOK, TypeOK', SignInInv, SignInInv', [Next]_vars
  PROVE  AccountsKept /\ \A u \in User : cred[u] # None => cred'[u] = cred[u]
<1>1. CASE \E r \in Request : Link(r)
  BY <1>1, LinkInv DEF Link
<1>2. CASE \E r \in Request : CommitRegistration(r)
  <2>1. PICK r \in Request : CommitRegistration(r)
    BY <1>2
  <2>2. AccountsKept
    BY <2>1, CommitInv
  <2>3. Fresh(r) /\ req[r].user \in User
    BY <2>1, AtFields DEF CommitRegistration, Fresh, At
  <2>4. cred[req[r].user] = None
    BY <2>3 DEF SignInInv, AccountsSound
  <2> QED
    BY <2>1, <2>2, <2>4 DEF CommitRegistration, TypeOK
<1>3. CASE \E r \in Request : InsertCred(r)
  <2>1. PICK r \in Request : InsertCred(r)
    BY <1>3
  <2>2. AccountsKept
    BY <2>1, InsertCredInv
  <2>3. \/ cred' = cred
        \/ cred[req[r].user] = None /\ cred' = [cred EXCEPT ![req[r].user] = r]
    BY <2>1 DEF InsertCred, FirstPassword
  <2>4. \A u \in User : cred[u] # None => cred'[u] = cred[u]
    BY <2>3 DEF TypeOK
  <2> QED
    BY <2>2, <2>4
<1>4. CASE UNCHANGED accounts
  BY <1>4, Unmoved DEF accounts
<1> QED
  BY <1>1, <1>2, <1>3, <1>4
     DEF Next, Step, Ask, Start, Consent, Poll, LosePoll, Take, Read, Delete, Exchange, Identify,
         Lookup, Insert, SaveRelay, Park, Fail, IssueSession, Refused, Lost, Register, Setup,
         Expire, Crash, vars

\* One account per address, whoever registers and signs in at once; an address,
\* a linked Google account and a password stay with their user.
THEOREM AccountsDoNotMove == Spec => AccountsStayPut
<1> DEFINE A == /\ \A u, v \in User : email'[u] = email'[v] /\ email'[u] # None => u = v
                /\ \A u \in User : email[u] # None => email'[u] = email[u]
                /\ \A u \in User : cred[u] # None => cred'[u] = cred[u]
                /\ \A s \in Sub : identity[s] # None => identity'[s] = identity[s]
<1>1. TypeOK /\ SignInInv /\ TypeOK' /\ SignInInv' /\ [Next]_vars => [A]_vars
  <2> SUFFICES ASSUME TypeOK, SignInInv, TypeOK', SignInInv', [Next]_vars PROVE A
    OBVIOUS
  <2>1. \A u, v \in User : email'[u] = email'[v] /\ email'[u] # None => u = v
    BY DEF SignInInv, AccountsSound
  <2> QED
    BY <2>1, KeptByNext DEF AccountsKept
<1> QED
  BY <1>1, Invariant, PTL DEF Spec, AccountsStayPut

=============================================================================
