------------------------------ MODULE Metadata ------------------------------
(***************************************************************************)
(* How the Primary keeps its Uptane metadata up to date:                   *)
(* SotaUptaneClient::uptaneIteration (updateDirectorMeta, getNewTargets,   *)
(* updateImagesMeta), uptaneOfflineIteration, the two repository objects   *)
(* that verify, and the "meta" table of the database that stores.          *)
(*                                                                         *)
(* A document of a repository is its place in the sequence of everything   *)
(* that repository ever published in that role, so equal documents (equal  *)
(* hashes) are equal numbers and 0 is "none".  What the client can tell    *)
(* about a document is its version, the generation of keys that signed it, *)
(* the one document it pins by hash (timestamp: a snapshot, snapshot:      *)
(* targets) and, for the Director's targets, what getNewTargets makes of   *)
(* it.  The n-th root of a repository has version n and lists the keys of  *)
(* generation roots[r][n]; it is signed with those and its predecessor's.  *)
(***************************************************************************)
EXTENDS Integers, Sequences, FiniteSetsExt

CONSTANTS
  MaxRoots,    \* bound on the roots, per repository
  MaxDocs,     \* bound on the documents of a role, per repository
  MaxFaults,   \* bound on failed fetches, stale answers and expired documents
  MaxCrashes,  \* bound on crashes of the client
  Resets       \* may versions start again from 1 when keys are replaced?

Repo == {"director", "images"}
Role == {"timestamp", "snapshot", "targets"}
RolesOf(r) == IF r = "director" THEN {"targets"} ELSE Role
FirstRole(r) == IF r = "director" THEN "targets" ELSE "timestamp"
NextRole(role) == IF role = "timestamp" THEN "snapshot" ELSE "targets"
PinnedBy(role) == IF role = "targets" THEN "snapshot" ELSE "timestamp"

ASSUME MetadataAssumption ==
  /\ MaxRoots \in [Repo -> Nat \ {0}] /\ MaxDocs \in [Repo -> Nat \ {0}]
  /\ MaxFaults \in Nat /\ MaxCrashes \in Nat
  /\ Resets \subseteq BOOLEAN

VARIABLES
  roots,       \* server: key generation listed by each root of a repository
  docs,        \* server: documents published per repository and role
  root_store,  \* table meta: version |-> root, per repository
  meta_store,  \* table meta: the document of every other role
  root_mem,    \* the root held by director_repo and images_repo
  meta_mem,    \* the other documents they hold
  pc,          \* where updateMeta is, "idle" outside of it
  repo,        \* the repository being updated
  remote,      \* remote_version of the root
  faults, crashes

serverVars == <<roots, docs>>
storeVars == <<root_store, meta_store>>
memVars == <<root_mem, meta_mem>>
vars == <<serverVars, storeVars, memVars, pc, repo, remote, faults, crashes>>

Doc == [ver : Nat, gen : Nat, pin : Nat, assigns : {"nothing", "new", "bad"}]
NoMeta == [role \in Role |-> 0]
Last(s) == s[Len(s)]

(* Repo::generateRepo of aktualizr-repo: version 1 of every role.  The      *)
(* first timestamp is signed with the snapshot's key (generation 0: no key *)
(* the root lists for the role) and not before the first image with its own. *)
generateRepo(r) ==
  [role \in Role |-> IF role \in RolesOf(r)
                     THEN <<[ver |-> 1, gen |-> IF role = "timestamp" THEN 0 ELSE 1, pin |-> 1,
                             assigns |-> "nothing"]>>
                     ELSE <<>>]

Init ==
  /\ roots = [r \in Repo |-> <<1>>]
  /\ docs = [r \in Repo |-> generateRepo(r)]
  /\ root_store = [r \in Repo |-> <<>>]
  /\ meta_store = [r \in Repo |-> NoMeta]
  /\ root_mem = [r \in Repo |-> 0]
  /\ meta_mem = [r \in Repo |-> NoMeta]
  /\ pc = "idle"
  /\ repo = "director"
  /\ remote = 0
  /\ faults = 0
  /\ crashes = 0
-----------------------------------------------------------------------------
(* The repositories, as aktualizr-repo publishes them.  A new image brings  *)
(* new targets and everything that pins them (the files are replaced one   *)
(* after the other: a client that comes in between meets the old ones, as  *)
(* with any stale answer); a refresh only signs a new timestamp; a new     *)
(* root may bring new keys, with which everything is signed again.         *)
signTuf(r, role, ver, gen, pin, assigns) ==
  Append(docs[r][role], [ver |-> ver, gen |-> gen, pin |-> pin, assigns |-> assigns])

Sign(r, gen, reset, assigns) ==
  docs' = [docs EXCEPT ![r] = [role \in Role |->
             IF role \in RolesOf(r)
             THEN signTuf(r, role, IF reset THEN 1 ELSE Last(docs[r][role]).ver + 1, gen,
                          IF role = "timestamp" THEN Len(docs[r]["snapshot"]) + 1
                                                ELSE Len(docs[r]["targets"]) + 1,
                          assigns)
             ELSE <<>>]]

(* Images targets "assign" something once they list an image. *)
addImage ==
  /\ Len(docs["images"]["targets"]) < MaxDocs["images"]
  /\ Sign("images", Last(roots["images"]), FALSE, "new")
  /\ UNCHANGED <<roots, storeVars, memVars, pc, repo, remote, faults, crashes>>

(* The Director's targets are put together in a staging file that nobody   *)
(* else reads: a target is added to it or to a copy of the current ones,   *)
(* all are removed from it, or the current ones copied as they are.        *)
current == Last(docs["director"]["targets"])
addTarget(st, assigns) ==
  [ver |-> current.ver + 1, assigns |-> IF "bad" \in {st.assigns, assigns} THEN "bad"
                                        ELSE IF "new" \in {st.assigns, assigns} THEN "new" ELSE "nothing"]
emptyTargets(st) == [st EXCEPT !.assigns = "nothing"]
oldTargets == [ver |-> current.ver, assigns |-> current.assigns]

(* What a session of such commands may leave; addtarget refuses a target   *)
(* the Images repository does not list.                                    *)
Staged ==
  LET image == Last(docs["images"]["targets"]).assigns = "new"
      add(sts) == IF image THEN {addTarget(st, a) : st \in sts, a \in {"nothing", "new", "bad"}} ELSE {}
      once == {oldTargets} \cup add({oldTargets})
      emptied == {emptyTargets(st) : st \in once}
  IN once \cup emptied \cup add(emptied)

(* Signing the current targets again changes nothing the client can tell. *)
signTargets ==
  /\ Len(docs["director"]["targets"]) < MaxDocs["director"]
  /\ \E st \in Staged \ {oldTargets} :
       docs' = [docs EXCEPT !["director"]["targets"] =
                  signTuf("director", "targets", st.ver, Last(roots["director"]), Len(@) + 1, st.assigns)]
  /\ UNCHANGED <<roots, storeVars, memVars, pc, repo, remote, faults, crashes>>

Refresh ==
  /\ Len(docs["images"]["timestamp"]) < MaxDocs["images"]
  /\ LET ts == Last(docs["images"]["timestamp"])
     IN docs' = [docs EXCEPT !["images"]["timestamp"] =
                   signTuf("images", "timestamp", ts.ver + 1, Last(roots["images"]), ts.pin, ts.assigns)]
  /\ UNCHANGED <<roots, storeVars, memVars, pc, repo, remote, faults, crashes>>

RotateRoot(r) ==
  /\ Len(roots[r]) < MaxRoots[r]
  /\ \/ /\ roots' = [roots EXCEPT ![r] = Append(@, Last(@))]
        /\ UNCHANGED docs
     \/ /\ roots' = [roots EXCEPT ![r] = Append(@, Last(@) + 1)]
        /\ Len(docs[r]["targets"]) < MaxDocs[r]
        /\ \E reset \in Resets :
             Sign(r, Last(roots[r]) + 1, reset, Last(docs[r]["targets"]).assigns)
  /\ UNCHANGED <<storeVars, memVars, pc, repo, remote, faults, crashes>>

Server == addImage \/ signTargets \/ Refresh \/ \E r \in Repo : RotateRoot(r)
-----------------------------------------------------------------------------
(* The "meta" table: loadLatestRoot reads the root with the highest        *)
(* version, storeRoot replaces the row of its version.                     *)
loadOldestRoot(r) == root_store[r][Min(DOMAIN root_store[r])]
loadLatestRoot(r) == root_store[r][Max(DOMAIN root_store[r])]

storeRoot(r, version, root) ==
  root_store' = [root_store EXCEPT ![r] =
                   [v \in DOMAIN @ \cup {version} |-> IF v = version THEN root ELSE @[v]]]

(* Every other role has one row, which storeNonRoot overwrites. *)
storeNonRoot(r, role, d) == meta_store' = [meta_store EXCEPT ![r][role] = d]
loadNonRoot(r, role) == meta_store[r][role]

(* Version of a document, -1 when there is none. *)
Version(r, role, d) == IF d = 0 THEN -1 ELSE docs[r][role][d].ver

(* Root(type, json, root): signed with the keys of the root held and with  *)
(* its own.                                                                *)
DoubleSigned(r, held, new) ==
  roots[r][held] \in {roots[r][new], roots[r][IF new = 1 THEN 1 ELSE new - 1]}

(* Faulty variant: the hash in the pinning document is not compared. *)
VerifiesSignature(r, role, d, root, m) == docs[r][role][d].gen = roots[r][root]

(* Signed with the keys of a root, and the document that the one before it *)
(* in a chain of documents m pins by hash.                                 *)
Verifies(r, role, d, root, m) ==
  /\ docs[r][role][d].gen = roots[r][root]
  /\ r = "images" /\ role # "timestamp" =>
       /\ m[PinnedBy(role)] # 0
       /\ docs[r][PinnedBy(role)][m[PinnedBy(role)]].pin = d
-----------------------------------------------------------------------------
(* A fetch that fails, a document that does not verify, or an expired one: *)
(* the whole update returns false.  What the environment did not need to   *)
(* do is counted.                                                          *)
Fault == faults < MaxFaults /\ faults' = faults + 1

Answer(got, right, age) == IF got = right /\ age = "fresh" THEN UNCHANGED faults ELSE Fault

Fail == pc' = "idle" /\ UNCHANGED <<repo, remote>>

Goto(l) == pc' = l /\ UNCHANGED <<repo, remote>>

(* updateDirectorMeta and updateImagesMeta begin alike: resetMeta, then    *)
(* the stored root, if there is one, is checked against itself.            *)
Begin(r) ==
  /\ repo' = r
  /\ meta_mem' = [meta_mem EXCEPT ![r] = NoMeta]
  /\ IF DOMAIN root_store[r] = {}
     THEN pc' = "first" /\ root_mem' = [root_mem EXCEPT ![r] = 0]
     ELSE pc' = "latest" /\ root_mem' = [root_mem EXCEPT ![r] = loadLatestRoot(r)]

Start ==
  /\ pc = "idle"
  /\ Begin("director")
  /\ UNCHANGED <<serverVars, storeVars, remote, faults, crashes>>

(* The very first root is taken on trust: whichever root the server hands  *)
(* out for version 1 is checked against itself and stored as version 1.    *)
FetchFirstRoot ==
  /\ pc = "first"
  /\ \E root \in 1..Len(roots[repo]) :
       /\ Answer(root, 1, "fresh")
       /\ root_mem' = [root_mem EXCEPT ![repo] = root]
       /\ storeRoot(repo, 1, root)
       /\ Goto("latest")
  /\ UNCHANGED <<serverVars, meta_store, meta_mem, crashes>>

(* The version of the latest root, read before anything is verified. *)
FetchLatestRoot ==
  /\ pc = "latest"
  /\ \E version \in 1..Len(roots[repo]) :
       /\ Answer(version, Len(roots[repo]), "fresh")
       /\ remote' = version
  /\ pc' = "chain"
  /\ UNCHANGED <<serverVars, storeVars, memVars, repo, crashes>>

(* verifyRoot: the version must follow the one held. *)
AnyVersion(held, new) == TRUE
RightVersion(held, new) == new = held + 1

(* One turn of the loop over the versions up to remote_version: fetch,     *)
(* verifyRoot (which keeps the new root even when its version is wrong),   *)
(* storeRoot.                                                              *)
FetchRoot ==
  /\ pc = "chain"
  /\ root_mem[repo] < remote
  /\ \E root \in 1..Len(roots[repo]) :
       LET held == root_mem[repo]
       IN /\ Answer(root, held + 1, "fresh")
          /\ IF DoubleSigned(repo, held, root)
             THEN /\ root_mem' = [root_mem EXCEPT ![repo] = root]
                  /\ IF RightVersion(held, root)
                     THEN storeRoot(repo, held + 1, root) /\ Goto("clear")
                     ELSE Fail /\ UNCHANGED root_store
             ELSE Fail /\ UNCHANGED <<root_mem, root_store>>
  /\ UNCHANGED <<serverVars, meta_store, meta_mem, crashes>>

(* Faulty variant: the loop goes on without clearing. *)
ClearNothing ==
  /\ pc = "clear"
  /\ Goto("chain")
  /\ UNCHANGED <<serverVars, storeVars, memVars, faults, crashes>>

clearNonRootMeta ==
  /\ pc = "clear"
  /\ meta_store' = [meta_store EXCEPT ![repo] = NoMeta]
  /\ Goto("chain")
  /\ UNCHANGED <<serverVars, root_store, memVars, faults, crashes>>

(* The loop is over; only now is the root's expiry looked at. *)
RootsDone ==
  /\ pc = "chain"
  /\ root_mem[repo] >= remote
  /\ \/ Goto(FirstRole(repo)) /\ UNCHANGED faults
     \/ Fault /\ Fail
  /\ UNCHANGED <<serverVars, storeVars, memVars, crashes>>

(* The stored document against the fetched one: an older one is refused,   *)
(* only a newer one is stored.                                             *)
Always(local, fetched) == TRUE
Accepts(local, fetched) == local <= fetched
Replaces(local, fetched) == local < fetched

(* One role: fetch, verify (the repository object keeps what verifies),    *)
(* compare with the stored version, store what is newer, and look at the   *)
(* expiry last.                                                            *)
FetchRole ==
  /\ pc \in Role
  /\ \E d \in 1..Len(docs[repo][pc]), age \in {"fresh", "expired"} :
       LET local == Version(repo, pc, loadNonRoot(repo, pc))
           fetched == Version(repo, pc, d)
           next == IF pc # "targets" THEN NextRole(pc)
                   ELSE IF repo = "director" THEN "new" ELSE "check"
       IN /\ Answer(d, Len(docs[repo][pc]), age)
          /\ IF Verifies(repo, pc, d, root_mem[repo], meta_mem[repo])
             THEN /\ meta_mem' = [meta_mem EXCEPT ![repo][pc] = d]
                  /\ IF Replaces(local, fetched)
                     THEN storeNonRoot(repo, pc, d) ELSE UNCHANGED meta_store
                  /\ IF Accepts(local, fetched) /\ age = "fresh" THEN Goto(next) ELSE Fail
             ELSE Fail /\ UNCHANGED <<meta_mem, meta_store>>
  /\ UNCHANGED <<serverVars, root_store, root_mem, crashes>>

(* getNewTargets: an unknown ECU ends the update, targets that are all     *)
(* installed end it well, and only new ones lead to the Images repository. *)
getNewTargets ==
  /\ pc = "new"
  /\ LET assigns == docs["director"]["targets"][meta_mem["director"]["targets"]].assigns
     IN CASE assigns = "bad"     -> Fail /\ UNCHANGED memVars
          [] assigns = "nothing" -> Goto("check") /\ UNCHANGED memVars
          [] assigns = "new"     -> Begin("images") /\ UNCHANGED remote
  /\ UNCHANGED <<serverVars, storeVars, faults, crashes>>

FetchFails ==
  /\ pc \in {"first", "latest", "chain"} \cup Role
  /\ pc = "chain" => root_mem[repo] < remote
  /\ Fault
  /\ Fail
  /\ UNCHANGED <<serverVars, storeVars, memVars, crashes>>
-----------------------------------------------------------------------------
(* uptaneOfflineIteration: what is stored is verified again from the       *)
(* latest stored root, role by role, until something is missing or fails.  *)
StoredChain(r) ==
  LET root == loadLatestRoot(r)
      ok(role) == /\ loadNonRoot(r, role) # 0
                  /\ Verifies(r, role, loadNonRoot(r, role), root, meta_store[r])
      upto(roles) == DOMAIN root_store[r] # {} /\ \A role \in roles \cap RolesOf(r) : ok(role)
  IN {role \in RolesOf(r) :
        upto(CASE role = "timestamp" -> {"timestamp"}
               [] role = "snapshot"  -> {"timestamp", "snapshot"}
               [] role = "targets"   -> Role)}

Reload(rs, upto) ==
  /\ root_mem' = [r \in Repo |-> IF r \notin rs THEN root_mem[r]
                                ELSE IF DOMAIN root_store[r] = {} THEN 0
                                ELSE loadLatestRoot(r)]
  /\ meta_mem' = [r \in Repo |-> IF r \notin rs THEN meta_mem[r]
                                ELSE [role \in Role |-> IF role \in StoredChain(r) \cap upto[r]
                                                        THEN loadNonRoot(r, role) ELSE 0]]

(* The Images repository is looked at only for new targets of the Director. *)
StoredRepos ==
  IF /\ StoredChain("director") # {}
     /\ docs["director"]["targets"][loadNonRoot("director", "targets")].assigns = "new"
  THEN Repo ELSE {"director"}

uptaneOfflineIteration ==
  /\ \/ Reload(StoredRepos, [r \in Repo |-> Role]) /\ UNCHANGED faults
     \/ /\ Fault    \* a root or a document has expired
        /\ \/ Reload({"director"}, [r \in Repo |-> Role])
           \/ \E upto \in {{}, {"timestamp"}, {"timestamp", "snapshot"}} :
                Reload(StoredRepos, [director |-> Role, images |-> upto])
  /\ Fail
  /\ UNCHANGED <<serverVars, storeVars, crashes>>

(* fetchMeta ends with checkUpdates; the offline pass is also made on its  *)
(* own, by finalizeAfterReboot.                                            *)
checkUpdates == pc = "check" /\ uptaneOfflineIteration

finalizeAfterReboot == pc = "idle" /\ uptaneOfflineIteration

(* The process dies: only the database is left. *)
Crash ==
  /\ crashes < MaxCrashes
  /\ crashes' = crashes + 1
  /\ root_mem' = [r \in Repo |-> 0]
  /\ meta_mem' = [r \in Repo |-> NoMeta]
  /\ Fail
  /\ UNCHANGED <<serverVars, storeVars, faults>>

Update ==
  \/ FetchFirstRoot \/ FetchLatestRoot \/ FetchRoot \/ clearNonRootMeta \/ RootsDone
  \/ FetchRole \/ getNewTargets \/ FetchFails \/ checkUpdates
Next == Server \/ Start \/ Update \/ finalizeAfterReboot \/ Crash

Spec == Init /\ [][Next]_vars

(* The client keeps polling and an update once begun goes on. *)
FairSpec == Spec /\ WF_vars(Start) /\ WF_vars(Update)
-----------------------------------------------------------------------------
(* The types of the variables. *)
TypeOK ==
  /\ roots \in [Repo -> Seq(Nat)]
  /\ docs \in [Repo -> [Role -> Seq(Doc)]]
  /\ \A r \in Repo : DOMAIN root_store[r] \subseteq Nat
  /\ meta_store \in [Repo -> [Role -> Nat]]
  /\ root_mem \in [Repo -> Nat]
  /\ meta_mem \in [Repo -> [Role -> Nat]]
  /\ pc \in {"idle", "first", "latest", "chain", "clear", "new", "check"} \cup Role
  /\ repo \in Repo
  /\ pc \in {"chain", "clear"} \cup Role => root_mem[repo] \in 1..Len(roots[repo])
  /\ remote \in Nat /\ faults \in Nat /\ crashes \in Nat

(* Chain of trust in the database: every root but the first to be stored   *)
(* is stored under its own version and was signed with the keys of the     *)
(* root one version older, which is stored as well.                        *)
RootChain ==
  \A r \in Repo : \A v \in DOMAIN root_store[r] \ {1} :
    /\ root_store[r][v] = v
    /\ \E u \in DOMAIN root_store[r] :
         u < v /\ root_store[r][u] = v - 1 /\ DoubleSigned(r, v - 1, v)

(* No rollback: a stored document is replaced only by one of a higher      *)
(* version, until a new root clears the table.                             *)
NoRollback ==
  [][\A r \in Repo, role \in Role :
       /\ meta_store[r][role] # 0
       /\ meta_store'[r][role] # meta_store[r][role]
       => \/ meta_store'[r] = NoMeta
          \/ Version(r, role, meta_store[r][role]) < Version(r, role, meta_store'[r][role])]_vars

(* storeRoot and clearNonRootMeta are two writes.  The two properties below *)
(* except a client that has died, maybe between them, when versions did    *)
(* not only grow: what it has not cleared then looks as new as what it is   *)
(* offered.                                                                *)
OnlyGrow ==
  \A r \in Repo, role \in Role : \A i \in 2..Len(docs[r][role]) :
    docs[r][role][i - 1].ver < docs[r][role][i].ver

(* Nor may a client tell apart two targets of the Director that have the   *)
(* same version, which oldtargets followed by emptytargets makes.           *)
Numbered ==
  LET d == docs["director"]["targets"]
  IN \A i \in 2..Len(d) : d[i].ver = d[i - 1].ver => d[i].gen # d[i - 1].gen

(* When updateMeta has succeeded, checkUpdates, which reads everything     *)
(* again from the database, must come to the same documents.               *)
CheckAgrees ==
  pc = "check" /\ Numbered /\ (crashes = 0 \/ OnlyGrow) =>
    \A r \in StoredRepos :
      /\ StoredChain(r) = RolesOf(r)
      /\ meta_store[r] = meta_mem[r]
      /\ loadLatestRoot(r) = root_mem[r]

(* Downloads are matched against the Images targets in memory: whenever    *)
(* there are any, they hang together with the snapshot and the timestamp   *)
(* in memory, all signed with the keys of one root (no mix and match).     *)
ImagesChain ==
  LET m == meta_mem["images"]
      d == docs["images"]
  IN /\ m["targets"] # 0 => m["snapshot"] # 0 /\ d["snapshot"][m["snapshot"]].pin = m["targets"]
     /\ m["snapshot"] # 0 => m["timestamp"] # 0 /\ d["timestamp"][m["timestamp"]].pin = m["snapshot"]
     /\ \A role \in Role : m[role] # 0 => d[role][m[role]].gen = roots["images"][root_mem["images"]]

(* Once the repositories rest and the connection is good, the database     *)
(* ends up with their latest documents, whatever interrupted the client    *)
(* before, and whether or not versions start again with new keys; the       *)
(* Images only if the Director assigns something new.                      *)
EventuallyCurrent ==
  [](Numbered /\ (crashes = 0 \/ OnlyGrow)) =>
  /\ <>[](meta_store["director"]["targets"] = Len(docs["director"]["targets"]))
  /\ <>[](Last(docs["director"]["targets"]).assigns = "new" =>
            \A role \in Role : meta_store["images"][role] = Len(docs["images"][role]))
=============================================================================
