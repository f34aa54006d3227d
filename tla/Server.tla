------------------------------- MODULE Server -------------------------------
(***************************************************************************)
(* What a server process has besides accounts, sync and shared terminals:  *)
(* the poke fan-out, the plugin core, the discovery list, the push tokens, *)
(* the challenges of password logins, the administrator's account, the     *)
(* dashboard's hold on a token, its pages of users, the routing, the schemas *)
(* a value passes, the life of processes and the pages a browser is left   *)
(* on.  They share no state: none reads or writes what another does, so    *)
(* their interleavings add nothing and a behaviour is one of a single      *)
(* part, chosen at the start; of the initial states of the others, one is  *)
(* fixed.                                                                  *)
(***************************************************************************)
EXTENDS Integers, Fanout, Surface, Wire

CONSTANTS
  Plugin, Device, Ahead, Window, MaxTime, MaxWrite,  \* see Plugins and Announcements
  User, Token, Request, MaxChallenge, MaxExpiry,     \* see PushTokens and SrpLogin
  PageRequest, MaxPassword, MaxLogin,                \* see AdminAccount and Dashboard
  Row, View, Action, MaxFetch,                       \* see UserList
  MaxHits,                                           \* see Routing
  Proc, Job, MaxMigration, MaxStart,                 \* see Process
  MaxPress, MaxDeed                                  \* see Landing and UserDetail

\* The bounds of the runs count; a page makes a request and a release has a
\* migration.
ASSUME ServerBounds ==
  /\ MaxChallenge \in Nat /\ MaxExpiry \in Nat /\ MaxPress \in Nat /\ MaxDeed \in Nat
  /\ MaxPassword \in Nat /\ MaxLogin \in Nat /\ MaxStart \in Nat
  /\ MaxFetch \in Nat \ {0} /\ MaxMigration \in Nat \ {0}

\* None is the absent value, and no value that is there.
ASSUME NoneAssumption ==
  /\ None \notin {"first", "missing", "again", "taking over"}
  /\ None \notin Nat /\ None \notin User
  /\ None \notin [announced : Int, beat : Int]

\* The servers' clocks differ by any number of ticks.
ASSUME ClockAssumption == Ahead \in [Inst -> Int] /\ Window \in Int /\ MaxTime \in Nat

VARIABLES
  part,                                             \* the part that runs
  deps, seen, visiting, final, loaded, config, fresh, turn, stage, reached, hooks, disposed, \* Plugins
  now, announcement, write, heard, overtaken, behind, ended, revived,  \* Announcements
  owner, reg, overlapped,                           \* PushTokens
  pending, made, offered, step, expired, wins, pipelined, disturbed, lost, \* SrpLogin
  file, script, drawn, box, boot, account, changing, drifted, \* AdminAccount
  session, logins, refused, page, call, dropped,    \* Dashboard
  active, view, data, fetch, toggle,                \* UserList
  setup, hits, renewed, reply,                      \* Routing
  applied, proc, job, closes, container, cut,       \* Process
  card, automatic, launched, checks, visible, hint, asked, handed, pressed, signs, \* Landing
  record, address, visits, shown, loading, gather, deeds, acted,  \* UserDetail
  field, origin, value, met, kept                      \* Values

Core == INSTANCE Plugins
Discovery == INSTANCE Announcements
Phones == INSTANCE PushTokens
Logins == INSTANCE SrpLogin
Admin == INSTANCE AdminAccount WITH Request <- PageRequest
Tab == INSTANCE Dashboard WITH Request <- PageRequest
List == INSTANCE UserList WITH User <- Row
Http == INSTANCE Routing WITH Caller <- User
Carried == INSTANCE Values
Run == INSTANCE Process
Landed == INSTANCE Landing
Detail == INSTANCE UserDetail

\* The limiter counts, the entries of App are a list in which each is a guard or
\* serves a route, and no route has the name of a guard or of who answers 404.
ASSUME SurfaceAssumption ==
  /\ MaxHits \in [Http!Bucket -> Nat]
  /\ DOMAIN App = 1..Len(App)
  /\ \A i \in DOMAIN App :
       /\ App[i] # None
       /\ App[i].does \in Http!Guard \/ (App[i].does = "serve" /\ App[i].id \in DOMAIN The)
  /\ DOMAIN The \cap (Http!Guard \cup {"nobody"}) = {}

\* Handlers are mounted behind the guards of the schemes their routes declare.
ASSUME MountAssumption == Http!TablesAgree

\* Sizes are numbers, and an id of a client comes in with a push.
ASSUME WireAssumption ==
  /\ \A p \in Place : TypeOf(p).min \in Nat /\ TypeOf(p).max \in Nat /\ TypeOf(p).bytes \in Nat
  /\ Origins \subseteq Place /\ <<"push", "clientId">> \in Origins

\* What the fields carry they take.
ASSUME LoadAssumption == Carried!Sound(Carried!Loads)

\* None is no deed of a user's page either.
ASSUME DeedAssumption == None \notin Detail!Deed

coreVars == <<deps, seen, visiting, final, loaded, config, fresh, turn, stage, reached, hooks, disposed>>
discoveryVars == <<now, announcement, write, heard, overtaken, behind, ended, revived>>
phoneVars == <<owner, reg, overlapped>>
loginVars == <<pending, made, offered, step, expired, wins, pipelined, disturbed, lost>>
adminVars == <<file, script, drawn, box, boot, account, changing, drifted>>
tabVars == <<session, logins, refused, page, call, dropped>>
listVars == <<active, view, data, fetch, toggle>>
httpVars == <<setup, hits, renewed, reply>>
runVars == <<applied, proc, job, closes, container, cut>>
landedVars == <<card, automatic, launched, checks, visible, hint, asked, handed, pressed, signs>>
valueVars == <<field, origin, value, met, kept>>
detailVars == <<record, address, visits, shown, loading, gather, deeds, acted>>
allVars == <<part, vars, coreVars, discoveryVars, phoneVars, loginVars, adminVars, tabVars, listVars,
             httpVars, runVars, landedVars, detailVars, valueVars>>

ServerInit ==
  /\ part \in {"fanout", "plugins", "announcements", "push", "srp", "admin", "dashboard", "list",
              "http", "values", "process", "landing", "detail"}
  /\ Init /\ Discovery!Init /\ Phones!Init /\ Logins!Init /\ Admin!Init /\ Tab!Init
  /\ List!Init /\ (part # "list" => view = CHOOSE w \in View : TRUE)
  /\ Http!Init /\ (part # "http" => setup.features = {})
  /\ IF part = "values" THEN Carried!Init ELSE Carried!InitWith(<<"push", "clientId">>, [of |-> "plain", size |-> 1])
  /\ Run!Init /\ (part # "process" => ~container)
  /\ Landed!Init /\ (part # "landing" => ~card.timer)
  /\ Detail!Init /\ (part # "detail" => address = CHOOSE u \in User : TRUE)
  /\ Core!Init /\ (part # "plugins" => deps = [p \in Plugin |-> {}])
  /\ (part # "fanout" => adaptor = "redis")

ServerNext ==
  /\ UNCHANGED part
  /\ \/ part = "fanout" /\ Next
        /\ UNCHANGED <<coreVars, discoveryVars, phoneVars, loginVars, adminVars, tabVars, listVars, httpVars,
                       runVars, landedVars, detailVars, valueVars>>
     \/ part = "plugins" /\ Core!Next
        /\ UNCHANGED <<vars, discoveryVars, phoneVars, loginVars, adminVars, tabVars, listVars, httpVars, runVars,
                       landedVars, detailVars, valueVars>>
     \/ part = "announcements" /\ Discovery!Next
        /\ UNCHANGED <<vars, coreVars, phoneVars, loginVars, adminVars, tabVars, listVars, httpVars, runVars,
                       landedVars, detailVars, valueVars>>
     \/ part = "push" /\ Phones!Next
        /\ UNCHANGED <<vars, coreVars, discoveryVars, loginVars, adminVars, tabVars, listVars, httpVars, runVars,
                       landedVars, detailVars, valueVars>>
     \/ part = "srp" /\ Logins!Next
        /\ UNCHANGED <<vars, coreVars, discoveryVars, phoneVars, adminVars, tabVars, listVars, httpVars, runVars,
                       landedVars, detailVars, valueVars>>
     \/ part = "admin" /\ Admin!Next
        /\ UNCHANGED <<vars, coreVars, discoveryVars, phoneVars, loginVars, tabVars, listVars, httpVars, runVars,
                       landedVars, detailVars, valueVars>>
     \/ part = "dashboard" /\ Tab!Next
        /\ UNCHANGED <<vars, coreVars, discoveryVars, phoneVars, loginVars, adminVars, listVars, httpVars,
                       runVars, landedVars, detailVars, valueVars>>
     \/ part = "list" /\ List!Next
        /\ UNCHANGED <<vars, coreVars, discoveryVars, phoneVars, loginVars, adminVars, tabVars, httpVars, runVars,
                       landedVars, detailVars, valueVars>>
     \/ part = "http" /\ Http!Next
        /\ UNCHANGED <<vars, coreVars, discoveryVars, phoneVars, loginVars, adminVars, tabVars, listVars, runVars,
                       landedVars, detailVars, valueVars>>
     \/ part = "process" /\ Run!Next
        /\ UNCHANGED <<vars, coreVars, discoveryVars, phoneVars, loginVars, adminVars, tabVars, listVars,
                       httpVars, landedVars, detailVars, valueVars>>
     \/ part = "landing" /\ Landed!Next
        /\ UNCHANGED <<vars, coreVars, discoveryVars, phoneVars, loginVars, adminVars, tabVars, listVars,
                       httpVars, runVars, detailVars, valueVars>>
     \/ part = "detail" /\ Detail!Next
        /\ UNCHANGED <<vars, coreVars, discoveryVars, phoneVars, loginVars, adminVars, tabVars, listVars,
                       httpVars, runVars, landedVars, valueVars>>
     \/ part = "values" /\ Carried!Next
        /\ UNCHANGED <<vars, coreVars, discoveryVars, phoneVars, loginVars, adminVars, tabVars, listVars,
                       httpVars, runVars, landedVars, detailVars>>

ServerSpec == ServerInit /\ [][ServerNext]_allVars /\ Fairness

-----------------------------------------------------------------------------
\* The type invariants of the parts.
ServerTypeOK ==
  /\ TypeOK /\ Core!TypeOK /\ Discovery!TypeOK /\ Phones!TypeOK /\ Logins!TypeOK
  /\ Admin!TypeOK /\ Tab!TypeOK /\ List!TypeOK /\ Http!TypeOK /\ Run!TypeOK /\ Landed!TypeOK
  /\ Detail!TypeOK /\ Carried!TypeOK

\* Start and end of a process: hooks run once each, in stage order, dependencies
\* first; a server serves on its schema, and its pool ends last.
LivesInOrder == Core!HooksInOrder /\ Run!SchemaFirstPoolLast

\* Announcements: the list follows the heartbeats as nearly as clocks agree.
DiscoveryFollowsHeartbeats == Discovery!DiscoveryFollowsHeartbeats

\* Push tokens have one owner unless registrations overlapped, and a challenge
\* of a password login signs in once unless verifies were pipelined, and a page
\* hands over its link once unless its button is pressed.
OverlapsDouble == Phones!OneOwner /\ Logins!ChallengesAreOneShot /\ Landed!LandingTruthful

\* Requests are served, refused and answered as their routes declare, and what
\* one schema lets in the tables and the other schemas take.
RequestsFollowDeclarations == Http!RequestsFollowDeclarations /\ Carried!ValuesTravel

\* Administration: the password on file opens the account but after named
\* events, a tab that is signed in stays so but in three named cases, and the
\* list of users and the page of one show what is there but in four each.
AdministrationHolds ==
  Admin!FileOpensAccount /\ Tab!TokensLostForCause /\ List!ScreenFollows /\ Detail!DetailFollows
=============================================================================
