--------------------------- MODULE Session_proofs ---------------------------
(***************************************************************************)
(* Proofs about the two modules of the browser's session.                  *)
(*                                                                         *)
(* Access, for any users and paths: nobody is let in on a stored profile   *)
(* alone, the header and the token are one person's, what is offered is    *)
(* served, and the projects are there.                                     *)
(*                                                                         *)
(* TokenRefresh, for every set of calls and owners of tokens: one refresh  *)
(* at a time, nobody forgotten in the queue, and tokens in pairs.          *)
(***************************************************************************)
EXTENDS Access, TokenRefresh, TLAPS

----------------------------------------------------------------------------
(* Access: requests and profiles *)

\* The request for the project list.
List == Ask("projects", None, 1, "/")

Asks == [kind : {"boot", "login", "sso", "projects"},
         user : Users \cup {None}, step : {1, 2}, to : Places]

\* What every step preserves.
IInv == AccessInv /\ AdmittedOnTheServersWord

----------------------------------------------------------------------------
(* Where a path leads *)

LEMMA AskType ==
    ASSUME NEW kind \in {"boot", "login", "sso", "projects"}, NEW user \in Users \cup {None},
           NEW step \in {1, 2}, NEW to \in Places
    PROVE  /\ Ask(kind, user, step, to) \in Asks
           /\ Ask(kind, user, step, to).kind = kind
           /\ Ask(kind, user, step, to).user = user
           /\ Ask(kind, user, step, to).step = step
           /\ Ask(kind, user, step, to).to = to
BY DEF Ask, Asks

LEMMA ListType == List \in Asks /\ List.kind = "projects"
BY AskType, ConstantsAssumption DEF List

LEMMA ProfileType ==
    ASSUME TypeOK, NEW user \in Users
    PROVE  /\ Profile(user) \in [user : Users, role : Roles] /\ Profile(user) \in Profiles
           /\ Stub(user) \in Profiles
           /\ Profile(user).user = user /\ Stub(user).user = user
           /\ Profile(user) # None /\ Stub(user) # None
BY ConstantsAssumption DEF TypeOK, Profile, Stub, Profiles

\* Whoever is let in is admitted.
LEMMA LandsRight ==
    ASSUME NEW p \in Places \cup Public, NEW who, NEW ok \in BOOLEAN, NEW waiting \in BOOLEAN,
           ok => who \in Profiles
    PROVE  /\ Land(p, who, ok, waiting).path \in Places \cup Public
           /\ Land(p, who, ok, waiting).from \in Places
           /\ p \in Public => Land(p, who, ok, waiting).path = p
           /\ Land(p, who, ok, waiting).path \notin Public /\ ~waiting =>
                  who.role \in Admits(Land(p, who, ok, waiting).path)
<1>1. "/" \in Places
  BY ConstantsAssumption
<1>2. CASE p \in Public \/ waiting
  BY <1>1, <1>2 DEF Land
<1>3. CASE ~(p \in Public \/ waiting) /\ ~ok
  BY <1>3 DEF Land, Public
<1>4. CASE ~(p \in Public \/ waiting) /\ ok
  <2>1. who.role \in Admits("/")
    BY <1>4 DEF Admits, Profiles
  <2>2. CASE who.role \in Admits(p)
    BY <1>1, <1>4, <2>2 DEF Land
  <2>3. CASE who.role \notin Admits(p)
    BY <1>1, <1>4, <2>1, <2>3 DEF Land
  <2> QED
    BY <2>2, <2>3
<1> QED
  BY <1>2, <1>3, <1>4

\* The dashboard asks for the projects when it is first drawn.
LEMMA MountAsks ==
    ASSUME NEW landed, NEW ok, NEW waiting
    PROVE  /\ AskOnMount(landed, ok, waiting) \subseteq {List}
           /\ landed = "/" /\ ok /\ ~waiting /\ ~(Shown /\ path = "/") =>
                  List \in AskOnMount(landed, ok, waiting)
BY DEF AskOnMount, List

LEMMA SetUserEffect ==
    ASSUME TypeOK, NEW who \in Profiles \cup {None}, NEW waiting \in BOOLEAN,
           NEW p \in Places \cup Public, NEW back \in Places,
           NEW pending \in SUBSET Asks, SetUser(who, waiting, p, back, pending)
    PROVE  /\ me' = who /\ authed' = (who # None /\ access' # None) /\ booting' = waiting
           /\ path' \in Places \cup Public /\ from' \in Places
           /\ p \in Public => path' = p
           /\ Shown' => who.role \in Admits(path')
           /\ asks' \in SUBSET Asks /\ pending \subseteq asks' /\ asks' \subseteq pending \cup {List}
           /\ elsewhere' \in BOOLEAN
           /\ elsewhere' => elsewhere /\ path' # "/"
           /\ elsewhere /\ ~elsewhere' => path' = "/"
           /\ path' = "/" /\ authed' /\ ~waiting /\ ~(Shown /\ path = "/") => List \in asks'
<1> DEFINE ok == who # None /\ access' # None
           landed == Land(p, who, ok, waiting)
<1>1. ok \in BOOLEAN /\ (ok => who \in Profiles)
  OBVIOUS
<1>2. /\ landed.path \in Places \cup Public /\ landed.from \in Places
      /\ p \in Public => landed.path = p
      /\ landed.path \notin Public /\ ~waiting => who.role \in Admits(landed.path)
  <2> HIDE DEF ok
  <2> QED
    BY <1>1, LandsRight
<1>3. /\ me' = who /\ authed' = ok /\ booting' = waiting /\ path' = landed.path
      /\ from' = back \/ from' = landed.from
      /\ asks' = pending \cup AskOnMount(landed.path, ok, waiting)
      /\ elsewhere' = (elsewhere /\ landed.path # "/")
  BY DEF SetUser
<1> HIDE DEF landed
<1>4. elsewhere \in BOOLEAN
  BY DEF TypeOK
<1>5. /\ asks' \in SUBSET Asks /\ pending \subseteq asks' /\ asks' \subseteq pending \cup {List}
      /\ path' = "/" /\ ok /\ ~waiting /\ ~(Shown /\ path = "/") => List \in asks'
  BY <1>3, MountAsks, ListType
<1>6. Shown' => path' \notin Public /\ ~booting'
  BY DEF Shown
<1> QED
  BY <1>2, <1>3, <1>4, <1>5, <1>6
----------------------------------------------------------------------------
(* Loading the application *)

LEMMA LoadStep ==
    ASSUME IInv, NEW p \in Places \cup Public, NEW back \in Places,
           Load(p, back), roleOf' = roleOf,
           \/ access' = access /\ profile' = profile
           \/ access' = None /\ profile' = None,
           moves' \in 0..MaxMoves, mishaps' \in 0..MaxMishaps
    PROVE  IInv'
<1> DEFINE waiting == access' # None
           boot == Ask("boot", access'.user, 1, "/")
           pending == IF waiting THEN {boot, List} ELSE {}
<1>1. TypeOK /\ AsksAreInPlace /\ StorageAgrees
  BY DEF IInv, AccessInv
<1>2. /\ access' \in [user : Users, role : Roles] \cup {None}
      /\ profile' \in Profiles \cup {None}
      /\ access' = None => profile' = None
  BY <1>1 DEF TypeOK, StorageAgrees
<1>3. /\ SetUser(profile', waiting, p, back, pending)
      /\ projects' = FALSE /\ told' = FALSE /\ failed' = FALSE
      /\ overtaken' = (waiting /\ (overtaken \/ HalfSignedIn))
  BY DEF Load, List
<1>4. waiting \in BOOLEAN
  OBVIOUS
<1>5. waiting => /\ boot \in Asks /\ boot.kind = "boot" /\ boot.user = access'.user
                 /\ boot.user \in Users /\ boot.step = 1
  <2>1. waiting => access'.user \in Users
    BY <1>2
  <2> QED
    BY <2>1, AskType, ConstantsAssumption
<1>6. List \in Asks /\ List.kind = "projects"
  BY ListType
<1> HIDE DEF boot
<1>7. pending \in SUBSET Asks
  BY <1>5, <1>6
<1> HIDE DEF pending
<1>8. /\ me' = profile' /\ authed' = (profile' # None /\ waiting) /\ booting' = waiting
      /\ path' \in Places \cup Public /\ from' \in Places
      /\ asks' \in SUBSET Asks /\ pending \subseteq asks' /\ asks' \subseteq pending \cup {List}
      /\ elsewhere' \in BOOLEAN
      /\ elsewhere' => path' # "/"
  <2> HIDE DEF waiting
  <2>1. authed' = (profile' # None /\ access' # None)
    BY <1>1, <1>2, <1>3, <1>4, <1>7, SetUserEffect
  <2> QED
    BY <1>1, <1>2, <1>3, <1>4, <1>7, <2>1, SetUserEffect DEF waiting
<1>9. \A a \in asks' : /\ a = List \/ (waiting /\ a = boot)
                       /\ a.kind # "projects" => a = boot /\ waiting
  BY <1>6, <1>8 DEF pending
<1>10. waiting => boot \in asks' /\ List \in asks'
  BY <1>8 DEF pending
<1>11. TypeOK'
  <2>1. \A a \in asks' : a.kind # "projects" => a.user \in Users
    BY <1>5, <1>9
  <2>2. overtaken' \in BOOLEAN
    BY <1>3
  <2> QED
    BY <1>1, <1>2, <1>3, <1>8, <2>1, <2>2 DEF TypeOK, Asks
<1>12. AsksAreInPlace'
  BY <1>5, <1>6, <1>8, <1>9, <1>10 DEF AsksAreInPlace, List
<1>13. ASSUME NEW a \in ProfileAsks'
       PROVE  a = boot /\ waiting
  BY <1>9 DEF ProfileAsks
<1>14. StorageAgrees'
  <2>1. access' = None => profile' = None /\ ProfileAsks' = {}
    BY <1>2, <1>13
  <2>2. authed' => access' # None /\ me' # None
    BY <1>8
  <2>3. \A a \in asks' : ~(a.kind = "sso" /\ a.step = 2)
    BY <1>5, <1>6, <1>9
  <2>4. \A a \in ProfileAsks' : a.user = access'.user
    BY <1>5, <1>13
  <2>5. ~overtaken' /\ profile' # None => profile'.user = access'.user
    BY <1>1, <1>2, <1>3 DEF StorageAgrees
  <2> QED
    BY <1>8, <2>1, <2>2, <2>3, <2>4, <2>5 DEF StorageAgrees
<1>15. ProjectsAreAskedFor'
  BY <1>6, <1>8, <1>10 DEF ProjectsAreAskedFor
<1>16. AdmittedOnTheServersWord'
  BY <1>8 DEF AdmittedOnTheServersWord, Shown
<1> QED
  BY <1>11, <1>12, <1>14, <1>15, <1>16 DEF IInv, AccessInv

----------------------------------------------------------------------------
(* Answers *)

LEMMA MishapStays ==
    ASSUME TypeOK
    PROVE  /\ Mishap => moves' = moves /\ mishaps' \in 0..MaxMishaps
           /\ Move => mishaps' = mishaps /\ moves' \in 0..MaxMoves
BY ConstantsAssumption DEF TypeOK, Mishap, Move

\* What is left of the requests when a has been answered, and perhaps the
\* dashboard has asked for the projects.
LEMMA AsksStay ==
    ASSUME TypeOK, AsksAreInPlace, NEW a \in asks, NEW left \in SUBSET Asks,
           asks \ {a} \subseteq left, left \subseteq (asks \ {a}) \cup {List}
    PROVE  /\ \A b \in left : b.kind # "projects" => b \in asks /\ b.kind # a.kind /\ b.user \in Users
           /\ \A b, c \in left : b.kind = c.kind => b = c
           /\ \A b \in left : b.kind = "projects" => b = List
           /\ \A b \in asks : b.kind # a.kind => b \in left
<1>1. List \in Asks /\ List.kind = "projects"
  BY ListType
<1>2. /\ \A b, c \in asks : b.kind = c.kind => b = c
      /\ \A b \in asks : b.kind = "projects" => b = List
      /\ \A b \in asks : b.kind # "projects" => b.user \in Users
  BY DEF AsksAreInPlace, TypeOK, List
<1> QED
  BY <1>1, <1>2

LEMMA BootAnsweredStep ==
    ASSUME IInv, NEW a \in asks, BootAnswered(a)
    PROVE  IInv'
<1> DEFINE who == Profile(a.user)
<1>1. TypeOK /\ AsksAreInPlace /\ StorageAgrees /\ ProjectsAreAskedFor
  BY DEF IInv, AccessInv
<1>2. a.kind = "boot" /\ a.user \in Users /\ booting /\ a \in ProfileAsks
  BY <1>1 DEF BootAnswered, TypeOK, AsksAreInPlace, ProfileAsks
<1>3. access # None /\ (~overtaken => a.user = access.user)
  BY <1>1, <1>2 DEF StorageAgrees
<1>4. who \in Profiles /\ who.user = a.user /\ who # None
  BY <1>1, <1>2, ProfileType
<1>5. /\ profile' = who /\ access' = access /\ told' = TRUE
      /\ SetUser(who, FALSE, path, from, asks \ {a})
      /\ roleOf' = roleOf /\ projects' = projects /\ overtaken' = overtaken
      /\ failed' = failed /\ moves' = moves /\ mishaps' = mishaps
  BY DEF BootAnswered, Stop, counts
<1> HIDE DEF who
<1>6. /\ ~Shown /\ asks \ {a} \in SUBSET Asks
      /\ path \in Places \cup Public /\ from \in Places
  BY <1>1, <1>2 DEF Shown, TypeOK, Asks
<1>7. /\ me' = who /\ authed' = TRUE /\ booting' = FALSE
      /\ path' \in Places \cup Public /\ from' \in Places
      /\ path \in Public => path' = path
      /\ Shown' => who.role \in Admits(path')
      /\ asks' \in SUBSET Asks /\ asks \ {a} \subseteq asks' /\ asks' \subseteq (asks \ {a}) \cup {List}
      /\ elsewhere' \in BOOLEAN
      /\ elsewhere' => elsewhere /\ path' # "/"
      /\ elsewhere /\ ~elsewhere' => List \in asks'
  <2>1. who \in Profiles \cup {None} /\ FALSE \in BOOLEAN
    BY <1>4
  <2>2. /\ me' = who /\ authed' = (who # None /\ access' # None) /\ booting' = FALSE
        /\ path' \in Places \cup Public /\ from' \in Places
        /\ path \in Public => path' = path
        /\ Shown' => who.role \in Admits(path')
        /\ asks' \in SUBSET Asks /\ asks \ {a} \subseteq asks' /\ asks' \subseteq (asks \ {a}) \cup {List}
        /\ elsewhere' \in BOOLEAN
        /\ elsewhere' => elsewhere /\ path' # "/"
        /\ elsewhere /\ ~elsewhere' => path' = "/"
        /\ path' = "/" /\ authed' /\ ~FALSE /\ ~(Shown /\ path = "/") => List \in asks'
    BY <1>1, <1>5, <1>6, <2>1, SetUserEffect
  <2> QED
    BY <1>3, <1>4, <1>5, <1>6, <2>2
<1>8. /\ \A b \in asks' : b.kind # "projects" => b \in asks /\ b.kind # "boot" /\ b.user \in Users
      /\ \A b, c \in asks' : b.kind = c.kind => b = c
      /\ \A b \in asks' : b.kind = "projects" => b = List
      /\ \A b \in asks : b.kind # "boot" => b \in asks'
  <2>1. /\ asks' \in SUBSET Asks /\ asks \ {a} \subseteq asks'
        /\ asks' \subseteq (asks \ {a}) \cup {List}
    BY <1>7
  <2> QED
    BY <1>1, <1>2, <2>1, AsksStay
<1>9. TypeOK'
  BY <1>1, <1>4, <1>5, <1>7, <1>8 DEF TypeOK, Asks
<1>10. AsksAreInPlace'
  <2>1. \A b \in asks' : /\ b.kind = "login" => path' = "/login"
                         /\ b.kind = "sso" => path' = "/sso/callback"
    BY <1>1, <1>7, <1>8 DEF AsksAreInPlace, Public
  <2> QED
    BY <1>7, <1>8, <2>1 DEF AsksAreInPlace, List
<1>11. StorageAgrees'
  <2>1. ~overtaken' => \A b \in ProfileAsks' : b.user = access'.user
    BY <1>1, <1>5, <1>8 DEF StorageAgrees, ProfileAsks
  <2> QED
    BY <1>3, <1>4, <1>5, <1>7, <2>1 DEF StorageAgrees
<1>12. ProjectsAreAskedFor'
  BY <1>1, <1>2, <1>5, <1>7, <1>8, ListType DEF ProjectsAreAskedFor
<1>13. AdmittedOnTheServersWord'
  BY <1>5, <1>7 DEF AdmittedOnTheServersWord
<1> QED
  BY <1>9, <1>10, <1>11, <1>12, <1>13 DEF IInv, AccessInv

LEMMA BootFailedStep ==
    ASSUME IInv, NEW a \in asks, BootFailed(a)
    PROVE  IInv'
<1> DEFINE landed == Land(path, me, authed, FALSE)
<1>1. TypeOK /\ AsksAreInPlace /\ StorageAgrees /\ ProjectsAreAskedFor
  BY DEF IInv, AccessInv
<1>2. a.kind = "boot" /\ ~Shown /\ booting
  BY <1>1 DEF BootFailed, AsksAreInPlace, Shown
<1>3. /\ booting' = FALSE /\ path' = landed.path /\ from' \in {from, landed.from}
      /\ asks' = (asks \ {a}) \cup AskOnMount(landed.path, authed, FALSE)
      /\ elsewhere' = (elsewhere /\ landed.path # "/") /\ failed' = TRUE
      /\ roleOf' = roleOf /\ access' = access /\ profile' = profile /\ me' = me
      /\ authed' = authed /\ projects' = projects /\ told' = told /\ overtaken' = overtaken
      /\ moves' = moves /\ mishaps' \in 0..MaxMishaps
  <2>1. moves' = moves /\ mishaps' \in 0..MaxMishaps
    BY <1>1, MishapStays DEF BootFailed
  <2> QED
    BY <2>1 DEF BootFailed, Stop, storage
<1>4. /\ landed.path \in Places \cup Public /\ landed.from \in Places
      /\ path \in Public => landed.path = path
      /\ landed.path \notin Public /\ ~FALSE => me.role \in Admits(landed.path)
  <2>1. authed \in BOOLEAN /\ FALSE \in BOOLEAN /\ path \in Places \cup Public
        /\ (authed => me \in Profiles)
    BY <1>1 DEF TypeOK, StorageAgrees
  <2> QED
    BY <2>1, LandsRight
<1> HIDE DEF landed
<1>5. /\ asks' \in SUBSET Asks /\ asks \ {a} \subseteq asks' /\ asks' \subseteq (asks \ {a}) \cup {List}
  BY <1>1, <1>3, MountAsks, ListType DEF TypeOK, Asks
<1>6. /\ \A b \in asks' : b.kind # "projects" => b \in asks /\ b.kind # "boot" /\ b.user \in Users
      /\ \A b, c \in asks' : b.kind = c.kind => b = c
      /\ \A b \in asks' : b.kind = "projects" => b = List
      /\ \A b \in asks : b.kind # "boot" => b \in asks'
  BY <1>1, <1>2, <1>5, AsksStay
<1>7. TypeOK'
  BY <1>1, <1>3, <1>4, <1>5, <1>6 DEF TypeOK, Asks
<1>8. AsksAreInPlace'
  <2>1. \A b \in asks' : /\ b.kind = "login" => path' = "/login"
                         /\ b.kind = "sso" => path' = "/sso/callback"
    BY <1>1, <1>3, <1>4, <1>6 DEF AsksAreInPlace, Public
  <2> QED
    BY <1>3, <1>6, <2>1 DEF AsksAreInPlace, List
<1>9. StorageAgrees'
  <2>1. ProfileAsks' \subseteq ProfileAsks /\ HalfSignedIn' = HalfSignedIn
    BY <1>6 DEF ProfileAsks, HalfSignedIn
  <2>2. \A b \in asks : b.kind = "sso" => b \in asks'
    BY <1>6
  <2>3. \A b \in asks' : b.kind = "sso" => b \in asks
    BY <1>6
  <2> QED
    BY <1>1, <1>3, <2>1, <2>2, <2>3 DEF StorageAgrees
<1>10. ProjectsAreAskedFor'
  BY <1>3 DEF ProjectsAreAskedFor
<1>11. AdmittedOnTheServersWord'
  BY <1>3, <1>4 DEF AdmittedOnTheServersWord, Shown
<1> QED
  BY <1>7, <1>8, <1>9, <1>10, <1>11 DEF IInv, AccessInv

\* An answer that changes nobody's session.
LEMMA Unconcerned ==
    ASSUME IInv, NEW a \in asks, asks' = asks \ {a},
           a.kind = "projects" \/ (a.kind = "login" /\ a.step = 1),
           roleOf' = roleOf, access' = access, profile' = profile, me' = me,
           authed' = authed, booting' = booting, path' = path, from' = from,
           told' = told, elsewhere' = elsewhere, overtaken' = overtaken,
           projects' \in {projects, TRUE}, failed' \in {failed, TRUE},
           a.kind = "projects" => projects' = TRUE \/ failed' = TRUE,
           moves' \in 0..MaxMoves, mishaps' \in 0..MaxMishaps
    PROVE  IInv'
<1>1. TypeOK /\ AsksAreInPlace /\ StorageAgrees /\ ProjectsAreAskedFor
  BY DEF IInv, AccessInv
<1>2. ProfileAsks' = ProfileAsks /\ HalfSignedIn' = HalfSignedIn /\ Shown' = Shown
  BY DEF ProfileAsks, HalfSignedIn, Shown
<1>3. TypeOK'
  BY <1>1 DEF TypeOK
<1>4. AsksAreInPlace'
  BY <1>1 DEF AsksAreInPlace
<1>5. StorageAgrees'
  <2>1. \A b \in asks : b.kind = "sso" => b \in asks'
    OBVIOUS
  <2>2. \A b \in asks' : b \in asks
    OBVIOUS
  <2> QED
    BY <1>1, <1>2, <2>1, <2>2 DEF StorageAgrees
<1>6. ProjectsAreAskedFor'
  <2>1. a.kind = "projects" => projects' \/ failed'
    OBVIOUS
  <2>2. a.kind # "projects" => \A b \in asks : b.kind = "projects" => b \in asks'
    OBVIOUS
  <2>3. (projects' = projects \/ projects' = TRUE) /\ (failed' = failed \/ failed' = TRUE)
    OBVIOUS
  <2>4. (projects => projects') /\ (failed => failed')
    <3>1. projects => projects'
      <4>1. CASE projects' = projects
        BY Zenon, <4>1
      <4>2. CASE projects' = TRUE
        BY <4>2
      <4> QED
        BY <2>3, <4>1, <4>2
    <3>2. failed => failed'
      <4>1. CASE failed' = failed
        BY Zenon, <4>1
      <4>2. CASE failed' = TRUE
        BY <4>2
      <4> QED
        BY <2>3, <4>1, <4>2
    <3> QED
      BY <3>1, <3>2
  <2> QED
    BY <1>1, <1>2, <2>1, <2>2, <2>4 DEF ProjectsAreAskedFor
<1>7. AdmittedOnTheServersWord'
  BY <1>1, <1>2 DEF IInv, AdmittedOnTheServersWord, TypeOK
<1> QED
  BY <1>3, <1>4, <1>5, <1>6, <1>7 DEF IInv, AccessInv

LEMMA UnconcernedSteps ==
    ASSUME IInv, NEW a \in asks, LoginFailed(a) \/ ProjectsAnswered(a) \/ ProjectsFailed(a)
    PROVE  IInv'
<1>1. TypeOK
  BY DEF IInv, AccessInv
<1>2. CASE LoginFailed(a)
  <2>1. moves' = moves /\ mishaps' \in 0..MaxMishaps /\ moves \in 0..MaxMoves
    BY <1>1, <1>2, MishapStays DEF LoginFailed, TypeOK
  <2> QED
    BY <1>2, <2>1, Unconcerned
       DEF LoginFailed, Stop, storage, session, place, history
<1>3. CASE ProjectsAnswered(a)
  <2>1. moves' \in 0..MaxMoves /\ mishaps' \in 0..MaxMishaps
    BY <1>1, <1>3 DEF ProjectsAnswered, TypeOK, counts
  <2> QED
    BY <1>3, <2>1, Unconcerned
       DEF ProjectsAnswered, Stop, storage, session, place, history
<1>4. CASE ProjectsFailed(a)
  <2>1. moves' = moves /\ mishaps' \in 0..MaxMishaps /\ moves \in 0..MaxMoves
    BY <1>1, <1>4, MishapStays DEF ProjectsFailed, TypeOK
  <2> QED
    BY <1>4, <2>1, Unconcerned
       DEF ProjectsFailed, Stop, storage, session, place
<1> QED
  BY <1>2, <1>3, <1>4

\* The token stays somebody's, and nothing else changes in the browser.
LEMMA TokenStays ==
    ASSUME IInv, roleOf' \in [Users -> Roles],
           access' \in [user : Users, role : Roles] \cup {None},
           access' = None <=> access = None,
           access # None => access'.user = access.user,
           profile' = profile, me' = me, authed' = authed, booting' = booting,
           path' = path, from' = from, asks' = asks, projects' = projects,
           told' = told, elsewhere' = elsewhere, overtaken' = overtaken, failed' = failed,
           moves' \in 0..MaxMoves, mishaps' \in 0..MaxMishaps
    PROVE  IInv'
<1>1. TypeOK /\ AsksAreInPlace /\ StorageAgrees /\ ProjectsAreAskedFor
  BY DEF IInv, AccessInv
<1>2. ProfileAsks' = ProfileAsks /\ HalfSignedIn' = HalfSignedIn /\ Shown' = Shown
  BY DEF ProfileAsks, HalfSignedIn, Shown
<1>3. TypeOK'
  BY <1>1 DEF TypeOK
<1>4. AsksAreInPlace'
  BY <1>1 DEF AsksAreInPlace
<1>5. StorageAgrees'
  BY <1>1, <1>2 DEF StorageAgrees
<1>6. ProjectsAreAskedFor' /\ AdmittedOnTheServersWord'
  BY <1>1, <1>2 DEF ProjectsAreAskedFor, IInv, AdmittedOnTheServersWord
<1> QED
  BY <1>3, <1>4, <1>5, <1>6 DEF IInv, AccessInv

LEMMA TokenSteps ==
    ASSUME IInv,
           \/ \E u \in Users, r \in Roles : ChangeRole(u, r)
           \/ Renew
           \/ UNCHANGED vars
    PROVE  IInv'
<1>1. TypeOK
  BY DEF IInv, AccessInv
<1>2. ASSUME NEW u \in Users, NEW r \in Roles, ChangeRole(u, r)
      PROVE  IInv'
  <2>1. moves' = moves /\ mishaps' \in 0..MaxMishaps /\ moves \in 0..MaxMoves
    BY <1>1, <1>2, MishapStays DEF ChangeRole, TypeOK
  <2>2. roleOf' \in [Users -> Roles]
    BY <1>1, <1>2 DEF ChangeRole, TypeOK
  <2> QED
    BY <1>1, <1>2, <2>1, <2>2, TokenStays
       DEF ChangeRole, TypeOK, storage, session, place, history
<1>3. CASE Renew
  <2>1. access # None /\ access.user \in Users /\ access' = Profile(access.user)
    BY <1>1, <1>3 DEF Renew, TypeOK
  <2>2. /\ access' \in [user : Users, role : Roles] /\ access'.user = access.user
        /\ access' # None
    BY <1>1, <2>1, ProfileType
  <2>3. /\ roleOf' = roleOf /\ profile' = profile /\ me' = me /\ authed' = authed
        /\ booting' = booting /\ path' = path /\ from' = from /\ asks' = asks
        /\ projects' = projects /\ told' = told /\ elsewhere' = elsewhere
        /\ overtaken' = overtaken /\ failed' = failed /\ moves' = moves /\ mishaps' = mishaps
    BY <1>3 DEF Renew, session, place, history, counts
  <2> QED
    BY <1>1, <2>1, <2>2, <2>3, TokenStays DEF TypeOK
<1>4. CASE UNCHANGED vars
  <2>1. /\ roleOf' = roleOf /\ access' = access /\ profile' = profile /\ me' = me
        /\ authed' = authed /\ booting' = booting /\ path' = path /\ from' = from
        /\ asks' = asks /\ projects' = projects /\ told' = told /\ elsewhere' = elsewhere
        /\ overtaken' = overtaken /\ failed' = failed /\ moves' = moves /\ mishaps' = mishaps
    BY <1>4 DEF vars, storage, session, place, history, counts
  <2> QED
    BY <1>1, <2>1, TokenStays DEF TypeOK
<1> QED
  BY <1>2, <1>3, <1>4
----------------------------------------------------------------------------
(* Signing in and out *)

LEMMA SubmitStep ==
    ASSUME IInv, NEW user \in Users, Submit(user)
    PROVE  IInv'
<1> DEFINE n == Ask("login", user, 1, from)
<1>1. TypeOK /\ AsksAreInPlace /\ StorageAgrees /\ ProjectsAreAskedFor
  BY DEF IInv, AccessInv
<1>2. /\ n \in Asks /\ n.kind = "login" /\ n.user = user /\ n.step = 1
  BY <1>1, AskType DEF TypeOK
<1>3. /\ path = "/login" /\ asks' = asks \cup {n} /\ \A a \in asks : a.kind # "login"
      /\ roleOf' = roleOf /\ access' = access /\ profile' = profile /\ me' = me
      /\ authed' = authed /\ booting' = booting /\ path' = path /\ from' = from
      /\ projects' = projects /\ told' = told /\ elsewhere' = elsewhere
      /\ overtaken' = overtaken /\ failed' = failed
  BY DEF Submit, storage, session, place, history
<1>4. moves' \in 0..MaxMoves /\ mishaps' = mishaps
  BY <1>1, MishapStays DEF Submit
<1> HIDE DEF n
<1>5. ProfileAsks' = ProfileAsks /\ HalfSignedIn' = HalfSignedIn /\ Shown' = Shown
  BY <1>2, <1>3 DEF ProfileAsks, HalfSignedIn, Shown
<1>6. TypeOK'
  BY <1>1, <1>2, <1>3, <1>4 DEF TypeOK, Asks
<1>7. AsksAreInPlace'
  BY <1>1, <1>2, <1>3 DEF AsksAreInPlace
<1>8. StorageAgrees'
  BY <1>1, <1>2, <1>3, <1>5 DEF StorageAgrees
<1>9. ProjectsAreAskedFor' /\ AdmittedOnTheServersWord'
  BY <1>1, <1>3, <1>5 DEF ProjectsAreAskedFor, IInv, AdmittedOnTheServersWord
<1> QED
  BY <1>6, <1>7, <1>8, <1>9 DEF IInv, AccessInv

\* A sign-in goes on to its second step.
LEMMA SecondStep ==
    ASSUME TypeOK, AsksAreInPlace, NEW a \in asks, a.step = 1, a.kind # "projects",
           asks' = (asks \ {a}) \cup {[a EXCEPT !.step = 2]}
    PROVE  \E n \in Asks :
               /\ n.kind = a.kind /\ n.user = a.user /\ n.step = 2
               /\ a.user \in Users
               /\ asks' = (asks \ {a}) \cup {n} /\ asks' \in SUBSET Asks
               /\ \A b \in asks \ {a} : b.kind # a.kind
               /\ \A b \in asks' : b.kind # "projects" => b.user \in Users
<1> DEFINE n == [a EXCEPT !.step = 2]
<1>1. a \in Asks /\ asks \in SUBSET Asks /\ a.user \in Users
  BY DEF TypeOK, Asks
<1>2. n \in Asks /\ n.kind = a.kind /\ n.user = a.user /\ n.step = 2
  BY <1>1 DEF Asks
<1>3. asks' = (asks \ {a}) \cup {n}
  OBVIOUS
<1> HIDE DEF n
<1>4. \A b \in asks \ {a} : b.kind # a.kind
  BY DEF AsksAreInPlace
<1>5. \A b \in asks' : b.kind # "projects" => b.user \in Users
  BY <1>1, <1>2, <1>3 DEF TypeOK
<1> QED
  BY <1>1, <1>2, <1>3, <1>4, <1>5

LEMMA LoginTokensStep ==
    ASSUME IInv, NEW a \in asks, LoginTokens(a)
    PROVE  IInv'
<1>1. TypeOK /\ AsksAreInPlace /\ StorageAgrees /\ ProjectsAreAskedFor
  BY DEF IInv, AccessInv
<1>2. a.kind = "login" /\ a.step = 1
  BY DEF LoginTokens
<1>3. path = "/login" /\ a.user \in Users
  BY <1>1, <1>2 DEF AsksAreInPlace, TypeOK
<1>4. /\ access' = Profile(a.user) /\ asks' = (asks \ {a}) \cup {[a EXCEPT !.step = 2]}
      /\ overtaken' = (overtaken \/ ProfileAsks # {})
      /\ roleOf' = roleOf /\ profile' = profile /\ me' = me
      /\ authed' = authed /\ booting' = booting /\ path' = path /\ from' = from
      /\ projects' = projects /\ told' = told /\ elsewhere' = elsewhere /\ failed' = failed
      /\ moves' = moves /\ mishaps' = mishaps
  BY DEF LoginTokens, Stop, session, place, counts
<1>5. access' \in [user : Users, role : Roles] /\ access'.user = a.user /\ access' # None
  BY <1>1, <1>3, <1>4, ProfileType
<1>6. PICK n \in Asks :
          /\ n.kind = a.kind /\ n.user = a.user /\ n.step = 2 /\ a.user \in Users
          /\ asks' = (asks \ {a}) \cup {n} /\ asks' \in SUBSET Asks
          /\ \A b \in asks \ {a} : b.kind # a.kind
          /\ \A b \in asks' : b.kind # "projects" => b.user \in Users
  BY <1>1, <1>2, <1>4, SecondStep
<1>7. n \in asks' /\ \A b \in asks' : b = n \/ (b \in asks /\ b.kind # "login")
  BY <1>2, <1>6
<1>8. ProfileAsks' = ProfileAsks \cup {n} /\ HalfSignedIn' /\ ~Shown'
  BY <1>2, <1>3, <1>4, <1>6, <1>7 DEF ProfileAsks, HalfSignedIn, Shown, Public
<1>9. TypeOK'
  BY <1>1, <1>4, <1>5, <1>6 DEF TypeOK, Asks
<1>10. AsksAreInPlace'
  <2>1. \A b \in asks : b.kind # "login" => b \in asks'
    BY <1>2, <1>6
  <2> QED
    BY <1>1, <1>2, <1>3, <1>4, <1>6, <1>7, <2>1 DEF AsksAreInPlace
<1>11. StorageAgrees'
  <2>1. ~overtaken' => \A b \in ProfileAsks' : b.user = access'.user
    BY <1>4, <1>5, <1>6, <1>8
  <2>2. \A b \in asks : b.kind = "sso" => b \in asks'
    BY <1>2, <1>6
  <2>3. \A b \in asks' : b.kind = "sso" => b \in asks
    BY <1>2, <1>6, <1>7
  <2> QED
    BY <1>1, <1>4, <1>5, <1>8, <2>1, <2>2, <2>3 DEF StorageAgrees
<1>12. ProjectsAreAskedFor'
  <2>1. \A b \in asks : b.kind = "projects" => b \in asks'
    BY <1>2, <1>6
  <2> QED
    BY <1>1, <1>4, <1>8, <2>1 DEF ProjectsAreAskedFor
<1>13. AdmittedOnTheServersWord'
  BY <1>8 DEF AdmittedOnTheServersWord
<1> QED
  BY <1>9, <1>10, <1>11, <1>12, <1>13 DEF IInv, AccessInv

LEMMA SsoStoredStep ==
    ASSUME IInv, NEW a \in asks, SsoStored(a)
    PROVE  IInv'
<1>1. TypeOK /\ AsksAreInPlace /\ StorageAgrees /\ ProjectsAreAskedFor
  BY DEF IInv, AccessInv
<1>2. a.kind = "sso" /\ a.step = 1
  BY DEF SsoStored
<1>3. path = "/sso/callback" /\ a.user \in Users /\ a \in ProfileAsks
  BY <1>1, <1>2 DEF AsksAreInPlace, TypeOK, ProfileAsks
<1>4. /\ profile' = Profile(a.user) \/ profile' = Stub(a.user)
      /\ asks' = (asks \ {a}) \cup {[a EXCEPT !.step = 2]}
      /\ roleOf' = roleOf /\ access' = access /\ me' = me
      /\ authed' = authed /\ booting' = booting /\ path' = path /\ from' = from
      /\ projects' = projects /\ told' = told /\ elsewhere' = elsewhere
      /\ overtaken' = overtaken /\ failed' = failed
  BY DEF SsoStored, Stop, session, place, history
<1>5. moves' \in 0..MaxMoves /\ mishaps' \in 0..MaxMishaps
  BY <1>1, MishapStays DEF SsoStored, counts, TypeOK
<1>6. profile' \in Profiles /\ profile'.user = a.user /\ profile' # None
  BY <1>1, <1>3, <1>4, ProfileType
<1>7. PICK n \in Asks :
          /\ n.kind = a.kind /\ n.user = a.user /\ n.step = 2 /\ a.user \in Users
          /\ asks' = (asks \ {a}) \cup {n} /\ asks' \in SUBSET Asks
          /\ \A b \in asks \ {a} : b.kind # a.kind
          /\ \A b \in asks' : b.kind # "projects" => b.user \in Users
  BY <1>1, <1>2, <1>4, SecondStep
<1>8. n \in asks' /\ \A b \in asks' : b = n \/ (b \in asks /\ b.kind # "sso")
  BY <1>2, <1>7
<1>9. ProfileAsks' = (ProfileAsks \ {a}) \cup {n} /\ ~Shown'
  BY <1>2, <1>3, <1>4, <1>7, <1>8 DEF ProfileAsks, Shown, Public
<1>10. TypeOK'
  BY <1>1, <1>4, <1>5, <1>6, <1>7 DEF TypeOK, Asks
<1>11. AsksAreInPlace'
  <2>1. \A b \in asks : b.kind # "sso" => b \in asks'
    BY <1>2, <1>7
  <2> QED
    BY <1>1, <1>2, <1>3, <1>4, <1>7, <1>8, <2>1 DEF AsksAreInPlace
<1>12. StorageAgrees'
  <2>1. access # None /\ (~overtaken => \A b \in ProfileAsks : b.user = access.user)
    BY <1>1, <1>3 DEF StorageAgrees
  <2>2. ~overtaken' => /\ \A b \in ProfileAsks' : b.user = access'.user
                       /\ profile'.user = access'.user
    BY <1>3, <1>4, <1>6, <1>7, <1>9, <2>1
  <2> QED
    BY <1>1, <1>2, <1>4, <1>6, <1>7, <1>8, <2>1, <2>2 DEF StorageAgrees
<1>13. ProjectsAreAskedFor'
  <2>1. \A b \in asks : b.kind = "projects" => b \in asks'
    BY <1>2, <1>7
  <2> QED
    BY <1>1, <1>4, <1>9, <2>1 DEF ProjectsAreAskedFor
<1>14. AdmittedOnTheServersWord'
  BY <1>9 DEF AdmittedOnTheServersWord
<1> QED
  BY <1>10, <1>11, <1>12, <1>13, <1>14 DEF IInv, AccessInv

LEMMA SignedInStep ==
    ASSUME IInv, NEW a \in asks, NEW who \in Profiles, SignedIn(a, who),
           a.kind \in {"login", "sso"}, a.step = 2,
           ~overtaken => who.user = access.user,
           failed' = failed, moves' \in 0..MaxMoves, mishaps' \in 0..MaxMishaps
    PROVE  IInv'
<1> DEFINE landed == Land(a.to, who, TRUE, booting)
<1>1. TypeOK /\ AsksAreInPlace /\ StorageAgrees /\ ProjectsAreAskedFor
  BY DEF IInv, AccessInv
<1>2. path \in Public /\ ~Shown /\ a \in ProfileAsks /\ a.to \in Places
  BY <1>1 DEF AsksAreInPlace, Public, Shown, ProfileAsks, TypeOK
<1>3. access # None /\ who # None
  BY <1>1, <1>2, ConstantsAssumption DEF StorageAgrees
<1>4. /\ profile' = who /\ access' = access /\ me' = who /\ authed' = TRUE
      /\ booting' = booting /\ path' = landed.path /\ from' = landed.from
      /\ asks' = (asks \ {a}) \cup AskOnMount(landed.path, TRUE, booting)
      /\ elsewhere' = (landed.path # "/" \/ booting)
      /\ told' = TRUE
      /\ roleOf' = roleOf /\ projects' = projects /\ overtaken' = overtaken
  <2>1. (access # None) = TRUE
    BY <1>3
  <2> QED
    BY <2>1 DEF SignedIn, Stop
<1>5. /\ landed.path \in Places \cup Public /\ landed.from \in Places
      /\ landed.path \notin Public /\ ~booting => who.role \in Admits(landed.path)
  BY <1>1, <1>2, LandsRight DEF TypeOK
<1> HIDE DEF landed
<1>6. /\ asks' \in SUBSET Asks /\ asks \ {a} \subseteq asks' /\ asks' \subseteq (asks \ {a}) \cup {List}
  BY <1>1, <1>4, MountAsks, ListType DEF TypeOK, Asks
<1>7. /\ \A b \in asks' : b.kind # "projects" => b \in asks /\ b.kind # a.kind /\ b.user \in Users
      /\ \A b, c \in asks' : b.kind = c.kind => b = c
      /\ \A b \in asks' : b.kind = "projects" => b = List
      /\ \A b \in asks : b.kind # a.kind => b \in asks'
  BY <1>1, <1>6, AsksStay
<1>8. \A b \in asks' : b.kind \notin {"login", "sso"}
  <2>1. \A b \in asks : b.kind \in {"login", "sso"} => b.kind = a.kind
    BY <1>1 DEF AsksAreInPlace
  <2> QED
    BY <1>7, <2>1
<1>9. TypeOK'
  BY <1>1, <1>4, <1>5, <1>6, <1>7 DEF TypeOK, Asks
<1>10. AsksAreInPlace'
  BY <1>1, <1>4, <1>7, <1>8 DEF AsksAreInPlace, List
<1>11. StorageAgrees'
  <2>1. ~overtaken' => \A b \in ProfileAsks' : b.user = access'.user
    BY <1>1, <1>4, <1>7 DEF StorageAgrees, ProfileAsks
  <2> QED
    BY <1>3, <1>4, <1>8, <2>1 DEF StorageAgrees
<1>12. ProjectsAreAskedFor'
  <2>1. ~elsewhere' => List \in asks'
    BY <1>2, <1>4, MountAsks
  <2>2. elsewhere' /\ Shown' => path' # "/"
    BY <1>4 DEF Shown
  <2> QED
    BY <2>1, <2>2, ListType DEF ProjectsAreAskedFor
<1>13. AdmittedOnTheServersWord'
  BY <1>4, <1>5 DEF AdmittedOnTheServersWord, Shown
<1> QED
  BY <1>9, <1>10, <1>11, <1>12, <1>13 DEF IInv, AccessInv

LEMMA SignInSteps ==
    ASSUME IInv, NEW a \in asks, LoginAnswered(a) \/ LoginUnprofiled(a) \/ SsoAnswered(a)
    PROVE  IInv'
<1>1. TypeOK /\ AsksAreInPlace /\ StorageAgrees
  BY DEF IInv, AccessInv
<1>2. a.kind \in {"login", "sso"} /\ a.step = 2
  BY DEF LoginAnswered, LoginUnprofiled, SsoAnswered
<1>3. a.user \in Users /\ a \in ProfileAsks /\ (~overtaken => a.user = access.user)
  BY <1>1, <1>2 DEF TypeOK, ProfileAsks, StorageAgrees
<1>4. failed' = failed /\ moves' \in 0..MaxMoves /\ mishaps' \in 0..MaxMishaps
  BY <1>1, MishapStays DEF LoginAnswered, LoginUnprofiled, SsoAnswered, counts, TypeOK
<1>5. CASE SignedIn(a, Profile(a.user))
  BY <1>1, <1>2, <1>3, <1>4, <1>5, ProfileType, SignedInStep
<1>6. CASE SignedIn(a, Stub(a.user))
  BY <1>1, <1>2, <1>3, <1>4, <1>6, ProfileType, SignedInStep
<1>7. CASE a.kind = "sso" /\ SignedIn(a, profile)
  <2>1. profile # None /\ profile \in Profiles
    BY <1>1, <1>2, <1>7 DEF StorageAgrees, TypeOK
  <2>2. ~HalfSignedIn
    BY <1>1, <1>2, <1>7 DEF AsksAreInPlace, HalfSignedIn
  <2>3. ~overtaken => profile.user = access.user
    BY <1>1, <2>1, <2>2 DEF StorageAgrees
  <2> QED
    BY <1>2, <1>4, <1>7, <2>1, <2>3, SignedInStep
<1> QED
  BY <1>5, <1>6, <1>7 DEF LoginAnswered, LoginUnprofiled, SsoAnswered

LEMMA SsoReturnStep ==
    ASSUME IInv, NEW user \in Users, NEW to \in Places, SsoReturn(user, to)
    PROVE  IInv'
<1> DEFINE old == access # None
           sso == Ask("sso", user, 1, to)
           boot == Ask("boot", access.user, 1, "/")
<1>1. TypeOK /\ AsksAreInPlace /\ StorageAgrees
  BY DEF IInv, AccessInv
<1>2. /\ sso \in Asks /\ sso.kind = "sso" /\ sso.user = user /\ sso.step = 1
      /\ List \in Asks /\ List.kind = "projects"
  BY AskType, ListType
<1>3. old => boot \in Asks /\ boot.kind = "boot" /\ boot.user \in Users
  <2>1. old => access.user \in Users
    BY <1>1 DEF TypeOK
  <2> QED
    BY <2>1, AskType, ConstantsAssumption
<1>4. /\ access' = Profile(user) /\ profile' = profile /\ me' = profile
      /\ authed' = (old /\ profile # None) /\ booting' = old
      /\ asks' = {sso} \cup (IF old THEN {boot, List} ELSE {})
      /\ overtaken' = old
      /\ path' = "/sso/callback" /\ from' = "/"
      /\ projects' = FALSE /\ told' = FALSE /\ elsewhere' = FALSE /\ failed' = FALSE
      /\ roleOf' = roleOf
  BY DEF SsoReturn, List
<1>5. moves' \in 0..MaxMoves /\ mishaps' = mishaps
  BY <1>1, MishapStays DEF SsoReturn
<1>6. access' \in [user : Users, role : Roles] /\ access'.user = user /\ access' # None
  BY <1>1, <1>4, ProfileType
<1> HIDE DEF sso, boot
<1>7. ~Shown'
  BY <1>4 DEF Shown, Public
<1>8. TypeOK'
  <2>1. asks' \in SUBSET Asks /\ \A b \in asks' : b.kind # "projects" => b.user \in Users
    BY <1>2, <1>3, <1>4
  <2> QED
    BY <1>1, <1>4, <1>5, <1>6, <2>1, ConstantsAssumption DEF TypeOK, Asks, Public
<1>9. AsksAreInPlace'
  BY <1>2, <1>3, <1>4 DEF AsksAreInPlace, List
<1>10. StorageAgrees'
  <2>1. \A b \in asks' : ~(b.kind = "sso" /\ b.step = 2)
    BY <1>2, <1>3, <1>4
  <2>2. ~overtaken' => /\ HalfSignedIn' /\ profile' = None
                       /\ \A b \in ProfileAsks' : b.user = access'.user
    BY <1>1, <1>2, <1>4, <1>6 DEF HalfSignedIn, ProfileAsks, StorageAgrees
  <2> QED
    BY <1>4, <1>6, <2>1, <2>2 DEF StorageAgrees
<1>11. ProjectsAreAskedFor'
  BY <1>2, <1>4 DEF ProjectsAreAskedFor
<1>12. AdmittedOnTheServersWord'
  BY <1>7 DEF AdmittedOnTheServersWord
<1> QED
  BY <1>8, <1>9, <1>10, <1>11, <1>12 DEF IInv, AccessInv

\* Behind the guard nobody is in the middle of a sign-in, nor asked for.
LEMMA ShownMeansSettled ==
    ASSUME TypeOK, AsksAreInPlace, StorageAgrees, Shown
    PROVE  /\ \A a \in asks : a.kind = "projects"
           /\ ProfileAsks = {} /\ ~HalfSignedIn
           /\ me = profile /\ me \in Profiles /\ access # None
<1>1. path \notin Public /\ ~booting /\ authed
  BY DEF Shown
<1>2. \A a \in asks : a.kind = "projects"
  BY <1>1 DEF AsksAreInPlace, Public, TypeOK
<1> QED
  BY <1>1, <1>2 DEF ProfileAsks, HalfSignedIn, StorageAgrees, TypeOK

LEMMA LogoutStep ==
    ASSUME IInv, Logout
    PROVE  IInv'
<1>1. TypeOK /\ AsksAreInPlace /\ StorageAgrees
  BY DEF IInv, AccessInv
<1>2. /\ \A a \in asks : a.kind = "projects"
      /\ ProfileAsks = {} /\ ~booting /\ path \in Places
  BY <1>1, ShownMeansSettled DEF Logout, Shown, TypeOK
<1>3. /\ access' = None /\ profile' = None /\ me' = None /\ authed' = FALSE
      /\ path' = "/login" /\ from' \in {"/", path}
      /\ overtaken' = (overtaken \/ ProfileAsks # {})
      /\ roleOf' = roleOf /\ booting' = booting /\ projects' = projects /\ asks' = asks
      /\ told' = told /\ elsewhere' = elsewhere /\ failed' = failed
  BY DEF Logout
<1>4. moves' \in 0..MaxMoves /\ mishaps' = mishaps
  BY <1>1, MishapStays DEF Logout
<1>5. ProfileAsks' = {} /\ ~Shown'
  BY <1>2, <1>3 DEF ProfileAsks, Shown
<1>6. TypeOK'
  BY <1>1, <1>2, <1>3, <1>4, ConstantsAssumption DEF TypeOK, Public
<1>7. AsksAreInPlace'
  BY <1>1, <1>2, <1>3 DEF AsksAreInPlace
<1>8. StorageAgrees'
  BY <1>2, <1>3, <1>5 DEF StorageAgrees
<1>9. ProjectsAreAskedFor' /\ AdmittedOnTheServersWord'
  BY <1>2, <1>3, <1>5 DEF ProjectsAreAskedFor, AdmittedOnTheServersWord
<1> QED
  BY <1>6, <1>7, <1>8, <1>9 DEF IInv, AccessInv

LEMMA GoStep ==
    ASSUME IInv, NEW p \in Places, Go(p)
    PROVE  IInv'
<1> DEFINE landed == Land(p, me, authed, booting)
<1>1. TypeOK /\ AsksAreInPlace /\ StorageAgrees /\ ProjectsAreAskedFor
  BY DEF IInv, AccessInv
<1>2. Shown /\ authed = TRUE /\ booting = FALSE
  BY <1>1 DEF Go, Shown, TypeOK
<1>3. /\ \A a \in asks : a.kind = "projects"
      /\ ProfileAsks = {} /\ ~HalfSignedIn
      /\ me = profile /\ me \in Profiles /\ access # None
  BY <1>1, <1>2, ShownMeansSettled
<1>4. /\ path' = landed.path /\ from' = landed.from
      /\ asks' = asks \cup AskOnMount(landed.path, authed, booting)
      /\ elsewhere' = (elsewhere /\ landed.path # "/")
      /\ roleOf' = roleOf /\ access' = access /\ profile' = profile /\ me' = me
      /\ authed' = authed /\ booting' = booting /\ projects' = projects /\ told' = told
      /\ overtaken' = overtaken /\ failed' = failed
  BY DEF Go, storage, session
<1>5. moves' \in 0..MaxMoves /\ mishaps' = mishaps
  BY <1>1, MishapStays DEF Go
<1>6. /\ landed.path \in Places \cup Public /\ landed.from \in Places
      /\ landed.path \notin Public /\ ~booting => me.role \in Admits(landed.path)
  <2>1. authed \in BOOLEAN /\ booting \in BOOLEAN
    BY <1>1 DEF TypeOK
  <2> QED
    BY <1>3, <2>1, LandsRight
<1> HIDE DEF landed
<1>7. /\ asks \subseteq asks' /\ asks' \subseteq asks \cup {List}
      /\ \A a \in asks' : a = List
      /\ landed.path = "/" /\ path # "/" => List \in asks'
  <2>1. \A a \in asks : a = List
    BY <1>1, <1>3 DEF AsksAreInPlace, List
  <2> QED
    BY <1>2, <1>4, <2>1, MountAsks
<1>8. TypeOK'
  BY <1>1, <1>4, <1>5, <1>6, <1>7, ListType DEF TypeOK, Asks
<1>9. AsksAreInPlace'
  BY <1>2, <1>4, <1>7, ListType DEF AsksAreInPlace, List
<1>10. StorageAgrees'
  <2>1. ProfileAsks' = {} /\ ~HalfSignedIn'
    BY <1>7, ListType DEF ProfileAsks, HalfSignedIn
  <2>2. \A a \in asks' : a.kind # "sso"
    BY <1>7, ListType
  <2> QED
    BY <1>1, <1>3, <1>4, <2>1, <2>2 DEF StorageAgrees
<1>11. ProjectsAreAskedFor'
  BY <1>1, <1>2, <1>3, <1>4, <1>7, ListType DEF ProjectsAreAskedFor, Shown
<1>12. AdmittedOnTheServersWord'
  BY <1>2, <1>4, <1>6 DEF IInv, AdmittedOnTheServersWord, Shown
<1> QED
  BY <1>8, <1>9, <1>10, <1>11, <1>12 DEF IInv, AccessInv

LEMMA VisitStep ==
    ASSUME IInv, NEW p \in Places \cup {"/login"}, Visit(p)
    PROVE  IInv'
<1>1. TypeOK
  BY DEF IInv, AccessInv
<1>2. /\ moves' \in 0..MaxMoves /\ mishaps' \in 0..MaxMishaps
  BY <1>1, MishapStays DEF Visit, TypeOK
<1>3. PICK back \in {from, "/"} : Load(p, back)
  BY DEF Visit
<1>4. back \in Places /\ p \in Places \cup Public
  BY <1>1, ConstantsAssumption DEF TypeOK, Public
<1> QED
  BY <1>2, <1>3, <1>4, LoadStep DEF Visit, storage

\* Sent to the login page, for an expired token or a wrong password.
LEMMA SentToLoginStep ==
    ASSUME IInv, Mishap, SendToLogin
    PROVE  IInv'
<1>1. TypeOK
  BY DEF IInv, AccessInv
<1>2. /\ moves' \in 0..MaxMoves /\ mishaps' \in 0..MaxMishaps
  BY <1>1, MishapStays DEF TypeOK
<1> QED
  BY <1>2, LoadStep, ConstantsAssumption DEF SendToLogin, Public
----------------------------------------------------------------------------
(* The specification *)

LEMMA InitStep ==
    ASSUME Init
    PROVE  IInv
<1>1. TypeOK
  <2>1. /\ path = "/login" /\ from = "/" /\ access = None /\ profile = None /\ me = None
        /\ asks = {} /\ roleOf \in [Users -> Roles]
    BY DEF Init
  <2>2. /\ authed \in BOOLEAN /\ booting \in BOOLEAN /\ projects \in BOOLEAN
        /\ {told, elsewhere, overtaken, failed} \subseteq BOOLEAN
    BY DEF Init
  <2>3. moves \in 0..MaxMoves /\ mishaps \in 0..MaxMishaps
    BY ConstantsAssumption DEF Init
  <2> QED
    BY <2>1, <2>2, <2>3, ConstantsAssumption DEF TypeOK, Public
<1>2. AsksAreInPlace /\ StorageAgrees /\ ProjectsAreAskedFor /\ AdmittedOnTheServersWord
  BY DEF Init, AsksAreInPlace, StorageAgrees, ProjectsAreAskedFor, ProfileAsks,
         AdmittedOnTheServersWord, Shown
<1> QED
  BY <1>1, <1>2 DEF IInv, AccessInv

LEMMA NextStep ==
    ASSUME IInv, [Next]_vars
    PROVE  IInv'
<1>1. ASSUME NEW a \in asks, Answer(a)
      PROVE  IInv'
  <2>1. CASE LoginRefused(a)
    BY <2>1, SentToLoginStep DEF LoginRefused
  <2> QED
    BY <1>1, <2>1, BootAnsweredStep, BootFailedStep, LoginTokensStep, UnconcernedSteps,
       SignInSteps, SsoStoredStep DEF Answer
<1>2. CASE Expire
  BY <1>2, SentToLoginStep DEF Expire
<1> QED
  BY <1>1, <1>2, VisitStep, GoStep, SubmitStep, SsoReturnStep, LogoutStep, TokenSteps
     DEF Next

LEMMA Invariance == Spec => []IInv
<1>1. Init => IInv
  BY InitStep
<1>2. IInv /\ [Next]_vars => IInv'
  BY NextStep
<1> QED
  BY <1>1, <1>2, PTL DEF Spec

\* One request of a kind is under way at a time and a sign-in stays on its
\* page; nobody counts as signed in without a token, and token, profile and the
\* requests for it are one person's unless overtaken (useAuth.ts, authService.ts).
THEOREM SessionIsConsistent == Spec => []AccessInv
<1>1. IInv => AccessInv
  BY DEF IInv
<1> QED
  BY <1>1, Invariance, PTL

\* A page behind the guard is shown only to somebody it admits, and on the word
\* of the server in this page load unless it could not be asked
\* (ProtectedRoute.tsx over the profile left in localStorage).
THEOREM GuardTakesTheServersWord == Spec => []AdmittedOnTheServersWord
<1>1. IInv => AdmittedOnTheServersWord
  BY DEF IInv
<1> QED
  BY <1>1, Invariance, PTL

\* The user in the header, the stored profile and the owner of the token are
\* one person on every page, unless the token was changed while a profile was
\* being asked for, or the page was loaded between the two halves of a sign-in.
THEOREM SessionStaysOnes == Spec => []SessionIsOnes
<1>1. IInv => SessionIsOnes
  <2>1. SUFFICES ASSUME IInv, Shown, ~overtaken
                 PROVE  access # None /\ me = profile /\ me.user = access.user
    BY DEF SessionIsOnes
  <2>2. TypeOK /\ AsksAreInPlace /\ StorageAgrees
    BY <2>1 DEF IInv, AccessInv
  <2>3. /\ ProfileAsks = {} /\ ~HalfSignedIn
        /\ me = profile /\ me \in Profiles /\ access # None
    BY <2>1, <2>2, ShownMeansSettled
  <2>4. me.user = access.user
    BY <2>1, <2>2, <2>3, ConstantsAssumption DEF StorageAgrees
  <2> QED
    BY <2>3, <2>4
<1> QED
  BY <1>1, Invariance, PTL

\* On a page at rest the project list is there, unless it failed to load or the
\* user signed in and has not seen the dashboard since (ProjectContext.tsx).
THEOREM ProjectsStayThere == Spec => []ProjectsAreThere
<1>1. IInv => ProjectsAreThere
  BY DEF IInv, AccessInv, ProjectsAreAskedFor, ProjectsAreThere, Shown
<1> QED
  BY <1>1, Invariance, PTL
----------------------------------------------------------------------------
(* What is offered *)

LEMMA MenuIsHonoured ==
    ASSUME NEW role \in Roles, NEW p \in Menu(role)
    PROVE  role \in Admits(p)
<1>1. CASE p \in {"/users", "/roles", "/audit"}
  <2>1. role \in Guard("canManageUsers")
    BY <1>1 DEF Menu
  <2>2. role = "admin"
    BY <2>1 DEF Guard
  <2> QED
    BY <2>2 DEF Admits, Roles
<1>2. CASE p \notin {"/users", "/roles", "/audit"}
  BY <1>2 DEF Admits
<1> QED
  BY <1>1, <1>2

\* Only the New Project button asks for less than its route does.
LEMMA NewProjectIsForEditors ==
    ASSUME NEW screen \in Screens["/projects"]
    PROVE  screen.actions["new"].guard = "canEdit"
BY DEF Screens, ProjectsPage, Page, ProjectsActions, Editors, Offer

LEMMA ButtonsAreHonoured ==
    ASSUME NEW role \in Roles, NEW p \in DOMAIN Screens, role \in Admits(p),
           NEW screen \in Screens[p], NEW action \in DOMAIN screen.actions,
           role \in Guard(screen.actions[action].guard)
    PROVE  \/ role \in Serves(p, action)
           \/ role = "qa_engineer" /\ p = "/projects" /\ action = "new"
<1>1. CASE p \in {"/users", "/roles"}
  <2>1. role = "admin"
    BY <1>1 DEF Admits
  <2> QED
    BY <1>1, <2>1 DEF Serves, Roles
<1>2. CASE p = "/audit"
  BY <1>2 DEF Admits, Serves
<1>3. CASE p = "/projects"
  <2>1. CASE action = "new"
    <3>1. role \in Guard("canEdit")
      BY <1>3, <2>1, NewProjectIsForEditors
    <3> QED
      BY <1>3, <2>1, <3>1 DEF Guard, Serves
  <2>2. CASE action # "new"
    BY <1>3, <2>2 DEF Serves
  <2> QED
    BY <2>1, <2>2
<1>4. CASE p \notin {"/users", "/roles", "/audit", "/projects"}
  BY <1>4 DEF Serves
<1> QED
  BY <1>1, <1>2, <1>3, <1>4

\* Whoever holds a token for the role the header shows is refused nothing that
\* the menu or a list page offers, except that a QA engineer is offered New
\* Project (roleGuard.ts against the RoleChecker of the routes).
THEOREM OffersStayHonoured == Spec => []OffersAreHonoured
<1>1. IInv => OffersAreHonoured
  <2>1. SUFFICES ASSUME IInv, access # None, me.role = access.role
                 PROVE  /\ \A p \in Menu(me.role) : me.role \in Admits(p)
                        /\ \A p \in DOMAIN Screens : me.role \in Admits(p) =>
                               \A screen \in Screens[p] : \A action \in DOMAIN screen.actions :
                                   me.role \in Guard(screen.actions[action].guard) =>
                                       \/ me.role \in Serves(p, action)
                                       \/ me.role = "qa_engineer" /\ p = "/projects" /\ action = "new"
    BY DEF OffersAreHonoured
  <2>2. me.role \in Roles
    BY <2>1 DEF IInv, AccessInv, TypeOK
  <2> QED
    BY <2>2, MenuIsHonoured, ButtonsAreHonoured
<1> QED
  BY <1>1, Invariance, PTL

----------------------------------------------------------------------------
(* TokenRefresh: type correctness *)

Keys == Owners \cup {Absent}
Store == [access : Keys, refresh : Keys, user : Keys]
Call == [phase : Phases, token : Keys, retry : BOOLEAN, login : Keys]

\* The stores and calls the actions build are well-formed.
LEMMA BuiltType ==
    ASSUME RefreshTypeOK
    PROVE  /\ NoStore \in Store
           /\ Unsent \in Call
           /\ \A c \in Calls, old \in Store : Stored(c, old) \in Store
           /\ \A c \in Calls, k \in Keys : Sent(c, k) \in Call
<1>1. NoStore \in Store /\ Unsent \in Call
  BY DEF NoStore, Unsent, Store, Call, Keys, Phases
<1>2. \A c \in Calls : call[c] \in Call
  BY DEF RefreshTypeOK, Call, Keys
<1>3. \A c \in Calls, old \in Store : Stored(c, old) \in Store
  BY <1>2 DEF Stored, Store, Call
<1>4. \A c \in Calls, k \in Keys : Sent(c, k) \in Call
  BY <1>2 DEF Sent, Call, Phases
<1> QED
  BY <1>1, <1>3, <1>4

\* Every step keeps RefreshTypeOK.
LEMMA RefreshNextType == RefreshTypeOK /\ [RefreshNext]_refreshVars => RefreshTypeOK'
<1> SUFFICES ASSUME RefreshTypeOK, [RefreshNext]_refreshVars
             PROVE  RefreshTypeOK'
  OBVIOUS
<1>1. /\ store \in Store /\ call \in [Calls -> Call]
      /\ isRefreshing \in BOOLEAN /\ leaving \in BOOLEAN /\ loggedOut \in BOOLEAN
  BY DEF RefreshTypeOK, Store, Call, Keys
<1>2. SUFFICES /\ store' \in Store /\ call' \in [Calls -> Call]
               /\ isRefreshing' \in BOOLEAN /\ leaving' \in BOOLEAN
               /\ loggedOut' \in BOOLEAN
  BY <1>2 DEF RefreshTypeOK, Store, Call, Keys
<1> USE <1>1
<1>3. ASSUME NEW c \in Calls, NEW phase \in Phases
      PROVE  [call EXCEPT ![c].phase = phase] \in [Calls -> Call]
  BY DEF Call
<1>4. CASE UNCHANGED refreshVars
  BY <1>4 DEF refreshVars
<1>5. ASSUME NEW c \in Calls, Send(c)
      PROVE  /\ store' \in Store /\ call' \in [Calls -> Call]
             /\ isRefreshing' \in BOOLEAN /\ leaving' \in BOOLEAN
             /\ loggedOut' \in BOOLEAN
  BY <1>5, BuiltType DEF Send, Store
<1>6. ASSUME NEW c \in Calls, Response(c)
      PROVE  /\ store' \in Store /\ call' \in [Calls -> Call]
             /\ isRefreshing' \in BOOLEAN /\ leaving' \in BOOLEAN
             /\ loggedOut' \in BOOLEAN
  <2>1. CASE Succeed(c)
    BY <2>1, <1>3 DEF Succeed, Store, Call, Phases
  <2>2. CASE Fail(c)
    BY <2>2, <1>3, BuiltType DEF Fail, Phases
  <2>3. CASE RejectRetry(c)
    BY <2>3, <1>3, BuiltType DEF RejectRetry, Phases
  <2>4. CASE Enqueue(c)
    BY <2>4, <1>3 DEF Enqueue, Phases
  <2>5. CASE GiveUp(c)
    BY <2>5, BuiltType DEF GiveUp, Call, Phases
  <2>6. CASE BeginRefresh(c)
    BY <2>6 DEF BeginRefresh, Call, Store, Phases
  <2>7. CASE Refreshed(c)
    BY <2>7, BuiltType DEF Refreshed, Call, Store
  <2>8. CASE RefreshFailed(c)
    <3>1. store' \in Store
      BY <2>8, BuiltType DEF RefreshFailed
    <3>2. \A d \in Calls : [call[d] EXCEPT !.phase = "failed"] \in Call
      BY DEF Call, Phases
    <3> QED
      BY <2>8, <3>1, <3>2 DEF RefreshFailed
  <2>9. ASSUME NEW u \in Owners, LoggedIn(c, u)
        PROVE  /\ store' \in Store /\ call' \in [Calls -> Call]
               /\ isRefreshing' \in BOOLEAN /\ leaving' \in BOOLEAN
               /\ loggedOut' \in BOOLEAN
    <3>1. [phase |-> "sent", token |-> u, retry |-> FALSE, login |-> u] \in Call
      BY DEF Call, Phases, Keys
    <3>2. [call EXCEPT ![c].phase = "done"] \in [Calls -> Call]
      BY <1>3 DEF Phases
    <3>3. call' \in [Calls -> Call]
      BY <2>9, <3>1, <3>2 DEF LoggedIn
    <3> QED
      BY <2>9, <3>3 DEF LoggedIn, Store, Keys
  <2> QED
    BY <1>6, <2>1, <2>2, <2>3, <2>4, <2>5, <2>6, <2>7, <2>8, <2>9 DEF Response
<1>7. ASSUME NEW c \in Calls, Login(c)
      PROVE  /\ store' \in Store /\ call' \in [Calls -> Call]
             /\ isRefreshing' \in BOOLEAN /\ leaving' \in BOOLEAN
             /\ loggedOut' \in BOOLEAN
  <2>1. [Unsent EXCEPT !.phase = "sent", !.token = store.access] \in Call
    BY BuiltType DEF Call, Store, Phases
  <2> QED
    BY <1>7, <2>1 DEF Login
<1>8. CASE AuthServiceLogout
  BY <1>8, BuiltType DEF AuthServiceLogout
<1>9. CASE LoadPage
  <2>1. [Unsent EXCEPT !.phase = "sent", !.token = store.access] \in Call
    BY BuiltType DEF Call, Store, Phases
  <2> QED
    BY <1>9, <2>1, BuiltType DEF LoadPage
<1> QED
  BY <1>4, <1>5, <1>6, <1>7, <1>8, <1>9 DEF RefreshNext, Leave

\* Initially everything is well-formed.
LEMMA RefreshInitType == RefreshInit => RefreshTypeOK
<1>1. Unsent \in Call /\ NoStore \in Store
  BY DEF Unsent, NoStore, Call, Store, Keys, Phases
<1> QED
  BY <1>1 DEF RefreshInit, RefreshTypeOK, Call, Store, Keys

----------------------------------------------------------------------------
(* The refresh and its queue *)

\* What is asked of the refresh in a state and in its successor.
Flight == SingleFlight /\ QueueIsServed

\* A step after which the same calls refresh, none is queued that was not,
\* and the flags are as they were keeps all of it.
LEMMA QuietStep ==
    ASSUME Flight, In("refreshing")' = In("refreshing"),
           In("queued")' \subseteq In("queued"),
           isRefreshing' = isRefreshing, leaving' = leaving
    PROVE  Flight'
BY DEF Flight, SingleFlight, QueueIsServed

\* A step after which nobody refreshes or is queued keeps it if the flag is
\* clear.
LEMMA ClearingStep ==
    ASSUME In("refreshing")' = {}, In("queued")' = {}, ~isRefreshing'
    PROVE  Flight'
BY DEF Flight, SingleFlight, QueueIsServed

\* The call that refreshes is the only one.
LEMMA OnlyRefresher ==
    ASSUME SingleFlight, NEW c \in Calls, call[c].phase = "refreshing"
    PROVE  In("refreshing") = {c}
BY DEF SingleFlight, In

\* A sign-in that succeeds disturbs no other call.
LEMMA LoggedInCalls ==
    ASSUME RefreshTypeOK, NEW c \in Calls, NEW u \in Owners, LoggedIn(c, u)
    PROVE  /\ In("refreshing")' = In("refreshing") /\ In("queued")' = In("queued")
           /\ \A d \in In("refreshing") : call'[d] = call[d]
           /\ isRefreshing' = isRefreshing /\ leaving' = leaving /\ loggedOut' = loggedOut
           /\ store'.access = u /\ store'.refresh = u
<1>1. PICK me0 \in ProfileCalls :
          /\ call[me0].phase \in Settled
          /\ call' = [call EXCEPT ![c].phase = "done",
                                  ![me0] = [phase |-> "sent", token |-> u,
                                            retry |-> FALSE, login |-> u]]
  BY DEF LoggedIn
<1>2. /\ DOMAIN call = Calls /\ me0 \in Calls /\ me0 # c /\ call[c].phase = "sent"
      /\ \A d \in Calls : DOMAIN call[d] = {"phase", "token", "retry", "login"}
  BY <1>1, CallsAssumption DEF LoggedIn, RefreshTypeOK
<1>3. /\ call'[c].phase = "done" /\ call'[me0].phase = "sent"
      /\ \A d \in Calls : d # c /\ d # me0 => call'[d] = call[d]
  BY <1>1, <1>2
<1>4. store'.access = u /\ store'.refresh = u
  BY DEF LoggedIn, RefreshTypeOK
<1>5. UNCHANGED <<isRefreshing, leaving, loggedOut>>
  BY DEF LoggedIn
<1> HIDE <1>1
<1>6. call[me0].phase \in {"idle", "done", "failed"}
  BY <1>1 DEF Settled
<1> QED
  BY <1>2, <1>3, <1>4, <1>5, <1>6 DEF In

\* Every step keeps the refresh single and its queue served.
LEMMA NextFlight == RefreshTypeOK /\ Flight /\ [RefreshNext]_refreshVars => Flight'
<1> SUFFICES ASSUME RefreshTypeOK, Flight, [RefreshNext]_refreshVars
             PROVE  Flight'
  OBVIOUS
<1> USE DEF In
<1>1. DOMAIN call = Calls /\ \A c \in Calls : DOMAIN call[c] = {"phase", "token", "retry", "login"}
  BY DEF RefreshTypeOK
<1>2. ASSUME NEW c \in Calls, NEW phase \in {"done", "failed"},
             call[c].phase = "sent",
             \A d \in Calls : call'[d].phase = IF d = c THEN phase ELSE call[d].phase,
             UNCHANGED <<isRefreshing, leaving>>
      PROVE  Flight'
  BY <1>2, QuietStep
<1>3. CASE UNCHANGED refreshVars
  BY <1>3 DEF refreshVars, Flight, SingleFlight, QueueIsServed
<1>4. ASSUME NEW c \in Calls, Send(c)
      PROVE  Flight'
  BY <1>1, <1>4, QuietStep DEF Send, Sent
<1>5. ASSUME NEW c \in Calls, Response(c)
      PROVE  Flight'
  <2>1. CASE Succeed(c)
    BY <1>1, <1>2, <2>1 DEF Succeed
  <2>2. CASE Fail(c)
    BY <1>1, <1>2, <2>2 DEF Fail
  <2>3. CASE RejectRetry(c)
    BY <1>1, <1>2, <2>3 DEF RejectRetry, Got401
  <2>4. CASE Enqueue(c)
    <3>1. In("refreshing")' = In("refreshing")
      BY <1>1, <2>4 DEF Enqueue, Got401
    <3> QED
      BY <2>4, <3>1 DEF Enqueue, Flight, SingleFlight, QueueIsServed
  <2>5. CASE GiveUp(c)
    <3>1. In("refreshing")' = In("refreshing") /\ isRefreshing' /\ leaving'
      BY <1>1, <2>5 DEF GiveUp, Got401
    <3> QED
      BY <3>1 DEF Flight, SingleFlight, QueueIsServed
  <2>6. CASE BeginRefresh(c)
    <3>1. In("refreshing")' = {c} /\ isRefreshing'
      <4>1. In("refreshing") = {}
        BY <2>6 DEF BeginRefresh, Flight, SingleFlight
      <4> QED
        BY <1>1, <2>6, <4>1 DEF BeginRefresh
    <3> QED
      BY <3>1 DEF Flight, SingleFlight, QueueIsServed
  <2>7. CASE Refreshed(c)
    <3>1. In("refreshing") = {c}
      BY <2>7, OnlyRefresher DEF Refreshed, Flight
    <3>2. In("refreshing")' = {} /\ In("queued")' = {}
      BY <1>1, <2>7, <3>1 DEF Refreshed, Sent
    <3> QED
      BY <2>7, <3>2, ClearingStep DEF Refreshed
  <2>8. CASE RefreshFailed(c)
    <3>1. In("refreshing") = {c}
      BY <2>8, OnlyRefresher DEF RefreshFailed, Flight
    <3>2. In("refreshing")' = {} /\ In("queued")' = {}
      BY <1>1, <2>8, <3>1 DEF RefreshFailed
    <3> QED
      BY <2>8, <3>2, ClearingStep DEF RefreshFailed
  <2>9. ASSUME NEW u \in Owners, LoggedIn(c, u)
        PROVE  Flight'
    BY <1>1, <2>9, LoggedInCalls, QuietStep
  <2> QED
    BY <1>5, <2>1, <2>2, <2>3, <2>4, <2>5, <2>6, <2>7, <2>8, <2>9 DEF Response
<1>6. ASSUME NEW c \in Calls, Login(c)
      PROVE  Flight'
  BY <1>1, <1>6, QuietStep DEF Login, Settled, Unsent
<1>7. CASE AuthServiceLogout
  BY <1>7, QuietStep DEF AuthServiceLogout
<1>8. CASE LoadPage
  <2>1. In("refreshing")' = {} /\ In("queued")' = {}
    BY <1>8 DEF LoadPage, Unsent
  <2> QED
    BY <1>8, <2>1, ClearingStep DEF LoadPage
<1> QED
  BY <1>3, <1>4, <1>5, <1>6, <1>7, <1>8 DEF RefreshNext, Leave

----------------------------------------------------------------------------
(* The tokens *)

\* A sign-in sets two tokens, and a user is not the missing key.
LEMMA OwnerIsKey == \A u \in Owners : u # Absent
BY AbsentAssumption

\* A rejected login changes only the stored profile.
LEMMA StoredTokens ==
    ASSUME NEW c \in Calls, NEW old \in Store
    PROVE  Stored(c, old).access = old.access /\ Stored(c, old).refresh = old.refresh
BY DEF Stored, Store

Paired == RefreshIsBacked /\ TokensStayTogether

\* A step that leaves the tokens and the refreshing calls as they are keeps
\* the pair.
LEMMA TokensUntouched ==
    ASSUME Paired, store'.access = store.access, store'.refresh = store.refresh,
           \A c \in In("refreshing")' : c \in In("refreshing") /\ call'[c] = call[c],
           loggedOut' = loggedOut
    PROVE  Paired'
BY DEF Paired, RefreshIsBacked, TokensStayTogether

\* A step after which nobody refreshes and the tokens are both there or both
\* gone does, too.
LEMMA TokensReplaced ==
    ASSUME In("refreshing")' = {}, store'.access = Absent <=> store'.refresh = Absent
    PROVE  Paired'
BY DEF Paired, RefreshIsBacked, TokensStayTogether

\* Every step keeps the pair, given that one call refreshes at a time.
LEMMA NextPaired == RefreshTypeOK /\ Flight /\ Paired /\ [RefreshNext]_refreshVars => Paired'
<1> SUFFICES ASSUME RefreshTypeOK, Flight, Paired, [RefreshNext]_refreshVars
             PROVE  Paired'
  OBVIOUS
<1>1. /\ DOMAIN call = Calls
      /\ \A c \in Calls : DOMAIN call[c] = {"phase", "token", "retry", "login"}
      /\ DOMAIN store = {"access", "refresh", "user"} /\ store \in Store
  BY DEF RefreshTypeOK, Store, Keys
<1>2. NoStore \in Store /\ NoStore.access = Absent /\ NoStore.refresh = Absent
  BY DEF NoStore, Store, Keys
<1>3. CASE UNCHANGED refreshVars
  BY <1>3, TokensUntouched DEF refreshVars, In
<1>4. ASSUME NEW c \in Calls, Send(c)
      PROVE  Paired'
  BY <1>1, <1>4, TokensUntouched DEF Send, Sent, In
<1>5. ASSUME NEW c \in Calls, Response(c)
      PROVE  Paired'
  <2>1. CASE Succeed(c)
    BY <1>1, <2>1, TokensUntouched DEF Succeed, In
  <2>2. CASE Fail(c)
    BY <1>1, <2>2, StoredTokens, TokensUntouched DEF Fail, In
  <2>3. CASE RejectRetry(c)
    BY <1>1, <2>3, StoredTokens, TokensUntouched DEF RejectRetry, Got401, In
  <2>4. CASE Enqueue(c)
    BY <1>1, <2>4, TokensUntouched DEF Enqueue, Got401, In
  <2>5. CASE GiveUp(c)
    <3>1. In("refreshing")' = {}
      <4>1. In("refreshing") = {}
        BY <2>5 DEF GiveUp, Flight, SingleFlight
      <4> QED
        BY <1>1, <2>5, <4>1 DEF GiveUp, In
    <3> QED
      BY <1>2, <2>5, <3>1, StoredTokens, TokensReplaced DEF GiveUp
  <2>6. CASE BeginRefresh(c)
    <3>1. In("refreshing")' = {c} /\ call'[c].token = store.refresh
      <4>1. In("refreshing") = {}
        BY <2>6 DEF BeginRefresh, Flight, SingleFlight
      <4> QED
        BY <1>1, <2>6, <4>1 DEF BeginRefresh, In
    <3> QED
      BY <2>6, <3>1 DEF BeginRefresh, Paired, RefreshIsBacked, TokensStayTogether
  <2>7. CASE Refreshed(c)
    <3>1. In("refreshing") = {c}
      BY <2>7, OnlyRefresher DEF Refreshed, Flight
    <3>2. In("refreshing")' = {}
      BY <1>1, <2>7, <3>1 DEF Refreshed, Sent, In
    <3>3. store'.access = call[c].token /\ store'.refresh = store.refresh
      BY <1>1, <2>7 DEF Refreshed
    <3> QED
      BY <2>7, <3>1, <3>2, <3>3
         DEF Refreshed, Paired, RefreshIsBacked, TokensStayTogether
  <2>8. CASE RefreshFailed(c)
    <3>1. In("refreshing")' = {}
      <4>1. In("refreshing") = {c}
        BY <2>8, OnlyRefresher DEF RefreshFailed, Flight
      <4> QED
        BY <1>1, <2>8, <4>1 DEF RefreshFailed, In
    <3>2. store'.access = Absent /\ store'.refresh = Absent
      BY <1>2, <2>8, StoredTokens DEF RefreshFailed
    <3> QED
      BY <3>1, <3>2, TokensReplaced
  <2>9. ASSUME NEW u \in Owners, LoggedIn(c, u)
        PROVE  Paired'
    BY <2>9, LoggedInCalls, OwnerIsKey DEF Paired, RefreshIsBacked, TokensStayTogether
  <2> QED
    BY <1>5, <2>1, <2>2, <2>3, <2>4, <2>5, <2>6, <2>7, <2>8, <2>9 DEF Response
<1>6. ASSUME NEW c \in Calls, Login(c)
      PROVE  Paired'
  BY <1>1, <1>6, TokensUntouched DEF Login, Settled, Unsent, In
<1>7. CASE AuthServiceLogout
  <2>1. In("refreshing")' = In("refreshing")
    BY <1>7 DEF AuthServiceLogout, In
  <2> QED
    BY <1>2, <1>7, <2>1 DEF AuthServiceLogout, Paired, RefreshIsBacked, TokensStayTogether
<1>8. CASE LoadPage
  <2>1. In("refreshing")' = {}
    BY <1>8 DEF LoadPage, Unsent, In
  <2> QED
    BY <1>8, <2>1 DEF LoadPage, Paired, RefreshIsBacked, TokensStayTogether
<1> QED
  BY <1>3, <1>4, <1>5, <1>6, <1>7, <1>8 DEF RefreshNext, Leave

----------------------------------------------------------------------------
(* The theorems *)

\* The inductive invariant: RefreshInv together with TokensStayTogether.
BrowserInv == RefreshTypeOK /\ Flight /\ Paired

LEMMA InitBrowser == RefreshInit => BrowserInv
<1> SUFFICES ASSUME RefreshInit
             PROVE  BrowserInv
  OBVIOUS
<1>1. In("refreshing") = {} /\ In("queued") = {}
  BY DEF RefreshInit, Unsent, In
<1>2. Flight
  BY <1>1 DEF RefreshInit, Flight, SingleFlight, QueueIsServed
<1>3. Paired
  BY <1>1 DEF RefreshInit, NoStore, Paired, RefreshIsBacked, TokensStayTogether
<1> QED
  BY <1>2, <1>3, RefreshInitType DEF BrowserInv

LEMMA NextBrowser == BrowserInv /\ [RefreshNext]_refreshVars => BrowserInv'
BY RefreshNextType, NextFlight, NextPaired DEF BrowserInv

LEMMA BrowserIsSound == RefreshSpec => []BrowserInv
BY InitBrowser, NextBrowser, PTL DEF RefreshSpec

\* One refresh at a time, made with a token that is still stored, and nobody
\* waits in failedQueue without one, however many calls run into an expired
\* token, log in, log out or reload the page.
THEOREM RefreshIsSingle == RefreshSpec => []RefreshInv
<1>1. BrowserInv => RefreshInv
  BY DEF BrowserInv, Flight, Paired, RefreshInv
<1> QED
  BY <1>1, BrowserIsSound, PTL

\* The access token and the refresh token come and go together, unless
\* someone logged out in the middle of a refresh.
THEOREM TokensArePaired == RefreshSpec => []TokensStayTogether
<1>1. BrowserInv => TokensStayTogether
  BY DEF BrowserInv, Paired
<1> QED
  BY <1>1, BrowserIsSound, PTL
=============================================================================
