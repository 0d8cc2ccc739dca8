--------------------------- MODULE AccountsProofs ---------------------------
(***************************************************************************)
(* Theorems about Accounts for all accounts, names, posts, settings and    *)
(* numbers of runs, with the command line at any moment.                   *)
(***************************************************************************)
EXTENDS Accounts, FiniteSetTheorems, TLAPS

------------------------------------------------------------------------------
(* Type correctness, a part at a time.                                     *)

Phase == {"idle", "list", "count", "replace", "filter", "walk", "avatar", "note", "finish"}

WorldType ==
    /\ name \in [Accounts -> Names] /\ borne \in [Accounts -> SUBSET Names]
    /\ followed \subseteq Accounts /\ changes \in 0 .. MaxChanges
StoredType == DOMAIN stored \subseteq Posts /\ \A p \in DOMAIN stored : stored[p] \in Row
ListsType ==
    /\ following \subseteq Names /\ pending \subseteq Names /\ accepting \subseteq Names
    /\ found \subseteq Names /\ allow \subseteq Names
FacesType ==
    /\ DOMAIN avatar \subseteq Names /\ \A n \in DOMAIN avatar : avatar[n] \in Names
    /\ crops \subseteq Names /\ crop \subseteq Names
DoubtsType ==
    /\ suspects \subseteq Names \X Names \X Posts /\ dismissed \subseteq Names \X Names
    /\ noting \subseteq Names \X Names \X Posts /\ renames \subseteq Names \X Names
RunType ==
    /\ pc \in Phase /\ counted \in Nat /\ runsLeft \in 0 .. MaxRuns
    /\ (crop # {} <=> pc = "avatar") /\ (noting # {} <=> pc = "note")
    /\ Cardinality(noting) <= 1

LEMMA TypeParts ==
    TypeOK <=> WorldType /\ StoredType /\ ListsType /\ FacesType /\ DoubtsType /\ RunType
BY Zenon DEF TypeOK, WorldType, StoredType, ListsType, FacesType, DoubtsType, RunType, Phase

\* The feed walk stores a post, saves a file or notes a suspicion, and nothing else.
LEMMA WalkKeeps ==
    ASSUME Walk
    PROVE  UNCHANGED <<instagram, lists, avatar, doubts, found, counted, allow, renames,
                       accepting, runsLeft>>
<1>1. ASSUME NEW p \in Posts, NEW a \in Accounts, StorePost(p, a) \/ SaveAvatar(p, a)
      PROVE  UNCHANGED <<instagram, lists, avatar, doubts, found, counted, allow, renames,
                         accepting, runsLeft>>
    BY <1>1 DEF StorePost, SaveAvatar, faces, memory
<1>2. ASSUME NEW p \in Posts, NEW a \in Accounts, NEW q \in Posts, NEW certain \in BOOLEAN,
             Suspect(p, a, q, certain)
      PROVE  UNCHANGED <<instagram, lists, avatar, doubts, found, counted, allow, renames,
                         accepting, runsLeft>>
    BY <1>2 DEF Suspect, faces
<1>3. QED
    BY <1>1, <1>2 DEF Walk

LEMMA WorldStep == ASSUME WorldType, [Next]_vars PROVE WorldType'
<1>1. ASSUME NEW a \in Accounts, Unfollow(a) PROVE WorldType'
    BY <1>1, BoundsAssumption DEF Unfollow, WorldType
<1>2. ASSUME NEW a \in Accounts, NEW n \in Names, Rename(a, n) PROVE WorldType'
    BY <1>2, BoundsAssumption DEF Rename, WorldType
<1>3. CASE UNCHANGED instagram
    BY <1>3 DEF instagram, WorldType
<1>4. CASE Refresh \/ UNCHANGED vars
    BY <1>3, <1>4 DEF Refresh, StartRun, ScrapeList, ListFails, CountStored, StoreFollowing,
        ReadFilter, vars
<1>5. CASE Walk
    BY <1>3, <1>5, WalkKeeps
<1>6. CASE Finish
    BY <1>3, <1>6 DEF Finish, UpsertAccount, NoteCandidate, ReadRenames, ApplyRename, EndRun,
        RunDies
<1>7. CASE Cli
    BY <1>3, <1>7 DEF Cli, AcceptRead, AcceptStore, CliRename, Dismiss
<1>8. QED
    BY <1>1, <1>2, <1>4, <1>5, <1>6, <1>7 DEF Next, World

\* What the fold of one account into another does to the tables' types.
LEMMA RenameTypes ==
    ASSUME NEW old \in Names, NEW new \in Names, RenameAccount(old, new),
           StoredType, ListsType, FacesType, DoubtsType
    PROVE  /\ StoredType' /\ following' \subseteq Names
           /\ DOMAIN avatar' \subseteq Names /\ \A n \in DOMAIN avatar' : avatar'[n] \in Names
           /\ crops' \subseteq Names /\ suspects' \subseteq suspects
<1>1. StoredType'
    <2>1. /\ DOMAIN stored' = DOMAIN stored
          /\ \A p \in DOMAIN stored : stored'[p] = IF stored[p].user = old
                                                 THEN [stored[p] EXCEPT !.user = new]
                                                 ELSE stored[p]
        BY DEF RenameAccount
    <2>2. ASSUME NEW p \in DOMAIN stored PROVE stored'[p] \in Row
        <3>1. stored[p] \in Row
            BY DEF StoredType
        <3>2. [stored[p] EXCEPT !.user = new] \in Row
            BY <3>1 DEF Row
        <3>3. QED
            BY <2>1, <3>1, <3>2
    <2>3. QED
        BY <2>1, <2>2 DEF StoredType
<1>2. following' \subseteq Names
    BY DEF RenameAccount, ListRenamed, ListsType
<1>3. DOMAIN avatar' \subseteq Names /\ \A n \in DOMAIN avatar' : avatar'[n] \in Names
    <2>1. CASE old \notin DOMAIN avatar
        BY <2>1 DEF RenameAccount, AvatarMoved, FacesType
    <2>2. CASE old \in DOMAIN avatar
        <3>1. avatar' = [n \in (DOMAIN avatar \ {old}) \cup {new} |->
                            IF n \in DOMAIN avatar THEN avatar[n] ELSE avatar[old]]
            BY <2>2 DEF RenameAccount, AvatarMoved
        <3>2. QED
            BY <2>2, <3>1 DEF FacesType
    <2>3. QED
        BY <2>1, <2>2
<1>4. crops' \subseteq Names /\ suspects' \subseteq suspects
    BY DEF RenameAccount, FacesType
<1>5. QED
    BY <1>1, <1>2, <1>3, <1>4

LEMMA CliRenamed ==
    ASSUME WorldType, NEW a \in Accounts, NEW old \in Names, CliRename(a, old)
    PROVE  name[a] \in Names /\ RenameAccount(old, name[a])
BY DEF WorldType, CliRename

LEMMA RunRenamed ==
    ASSUME DoubtsType, ApplyRename
    PROVE  \E r \in renames : /\ r[1] \in Names /\ r[2] \in Names
                              /\ RenameAccount(r[1], r[2]) /\ renames' = renames \ {r}
<1>1. PICK r \in renames : RenameAccount(r[1], r[2]) /\ renames' = renames \ {r}
    BY DEF ApplyRename
<1>2. r \in Names \X Names
    BY DEF DoubtsType
<1>3. QED
    BY <1>1, <1>2

\* A post stored in the walk is the account's own, under the name it has.
LEMMA PostStored ==
    ASSUME NEW p, NEW a, StorePost(p, a)
    PROVE  /\ a \in Heads[p] /\ DOMAIN stored' = DOMAIN stored \cup {p}
           /\ stored'[p] = [user |-> name[a], by |-> a]
           /\ \A q \in DOMAIN stored : q # p => stored'[q] = stored[q]
BY DEF StorePost, Shown

\* A suspicion pairs the stored post's name with the name of the card it was met on;
\* unless the link is certain it is about the card's own account.
LEMMA Suspected2 ==
    ASSUME NEW p, NEW a, NEW q, NEW certain \in BOOLEAN, Suspect(p, a, q, certain)
    PROVE  /\ a \in Heads[p] /\ q \in DOMAIN stored /\ q = p
           /\ noting' = {<<stored[q].user, name[a], q>>}
<1>1. certain
    BY DEF Suspect, Stale
<1>2. QED
    BY <1>1 DEF Suspect, Shown

LEMMA StoredStep == ASSUME TypeOK, [Next]_vars PROVE StoredType'
<1> USE TypeParts
<1>1. CASE UNCHANGED stored
    BY <1>1 DEF StoredType
<1>2. CASE Walk
    <2>1. ASSUME NEW p \in Posts, NEW a \in Accounts, StorePost(p, a) PROVE StoredType'
        <3>1. [user |-> name[a], by |-> a] \in Row
            BY DEF Row, WorldType
        <3>2. /\ DOMAIN stored' = DOMAIN stored \cup {p}
              /\ stored'[p] = [user |-> name[a], by |-> a]
              /\ \A q \in DOMAIN stored : q # p => stored'[q] = stored[q]
            BY <2>1, PostStored
        <3>3. QED
            BY <3>1, <3>2 DEF StoredType
    <2>2. ASSUME NEW p \in Posts, NEW a \in Accounts, SaveAvatar(p, a) PROVE UNCHANGED stored
        BY <2>2 DEF SaveAvatar
    <2>3. ASSUME NEW p \in Posts, NEW a \in Accounts, NEW q \in Posts, NEW certain \in BOOLEAN,
                 Suspect(p, a, q, certain)
          PROVE  UNCHANGED stored
        BY <2>3 DEF Suspect
    <2>4. QED
        BY <1>1, <1>2, <2>1, <2>2, <2>3 DEF Walk
<1>3. CASE ApplyRename
    BY <1>3, RunRenamed, RenameTypes
<1>4. CASE EndRun
    BY <1>4 DEF EndRun, StoredType
<1>5. ASSUME NEW a \in Accounts, NEW old \in Names, CliRename(a, old) PROVE StoredType'
    BY <1>5, CliRenamed, RenameTypes
<1>6. CASE World \/ Refresh \/ UNCHANGED vars
    <2>1. UNCHANGED stored
        BY <1>6 DEF World, Rename, Unfollow, Refresh, StartRun, ScrapeList, ListFails,
            CountStored, StoreFollowing, ReadFilter, vars
    <2>2. QED
        BY <1>1, <2>1
<1>7. CASE UpsertAccount \/ NoteCandidate \/ ReadRenames \/ RunDies
    BY <1>1, <1>7 DEF UpsertAccount, NoteCandidate, ReadRenames, RunDies
<1>8. CASE AcceptRead \/ AcceptStore \/ \E r \in Suspected : Dismiss(r)
    BY <1>1, <1>8 DEF AcceptRead, AcceptStore, Dismiss
<1>9. QED
    BY <1>2, <1>3, <1>4, <1>5, <1>6, <1>7, <1>8 DEF Next, Finish, Cli

LEMMA ListsStep == ASSUME TypeOK, [Next]_vars PROVE ListsType'
<1>1. ListsType /\ WorldType
    BY TypeParts
<1>2. ASSUME UNCHANGED lists, allow' \in {allow, Names}, found' \in {found, {}},
             accepting' = accepting
      PROVE  ListsType'
    BY <1>1, <1>2 DEF lists, ListsType
<1>3. CASE World
    BY <1>2, <1>3 DEF World, Rename, Unfollow, memory
<1>4. CASE Walk
    BY <1>2, <1>4, WalkKeeps
<1>5. CASE Refresh
    <2>1. CASE ScrapeList
        <3>1. found' \subseteq Names
            BY <1>1, <2>1 DEF ScrapeList, WorldType
        <3>2. UNCHANGED <<lists, allow, accepting>>
            BY <2>1 DEF ScrapeList
        <3>3. QED
            BY <1>1, <3>1, <3>2 DEF ListsType, lists
    <2>2. CASE StoreFollowing
        BY <1>1, <2>2 DEF StoreFollowing, ListsType
    <2>3. CASE ReadFilter
        BY <1>1, <2>3 DEF ReadFilter, ListsType, lists
    <2>4. CASE StartRun \/ ListFails \/ CountStored
        BY <1>2, <2>4 DEF StartRun, ListFails, CountStored, memory
    <2>5. QED
        BY <1>5, <2>1, <2>2, <2>3, <2>4 DEF Refresh
<1>6. CASE ApplyRename
    <2>1. following' \subseteq Names
        BY <1>6, RunRenamed, RenameTypes, TypeParts
    <2>2. UNCHANGED <<pending, accepting, found, allow>>
        BY <1>6 DEF ApplyRename
    <2>3. QED
        BY <1>1, <2>1, <2>2 DEF ListsType
<1>7. CASE UpsertAccount \/ NoteCandidate \/ ReadRenames \/ EndRun \/ RunDies
    BY <1>2, <1>7 DEF UpsertAccount, NoteCandidate, ReadRenames, EndRun, RunDies
<1>8. ASSUME NEW a \in Accounts, NEW old \in Names, CliRename(a, old) PROVE ListsType'
    <2>1. following' \subseteq Names
        BY <1>1, <1>8, CliRenamed, RenameTypes, TypeParts
    <2>2. UNCHANGED <<pending, accepting, found, allow>>
        BY <1>8 DEF CliRename, memory
    <2>3. QED
        BY <1>1, <2>1, <2>2 DEF ListsType
<1>9. CASE AcceptRead \/ AcceptStore
    BY <1>1, <1>9 DEF AcceptRead, AcceptStore, ListsType, memory, lists
<1>10. CASE \E r \in Suspected : Dismiss(r)
    BY <1>2, <1>10 DEF Dismiss, memory
<1>11. CASE UNCHANGED vars
    BY <1>2, <1>11 DEF vars, memory
<1>12. QED
    BY <1>3, <1>4, <1>5, <1>6, <1>7, <1>8, <1>9, <1>10, <1>11 DEF Next, Finish, Cli

LEMMA FacesStep == ASSUME TypeOK, [Next]_vars PROVE FacesType'
<1>1. FacesType /\ WorldType
    BY TypeParts
<1>2. ASSUME UNCHANGED faces, crop' \in {crop, {}} PROVE FacesType'
    BY <1>1, <1>2 DEF faces, FacesType
<1>3. CASE World \/ Refresh \/ UNCHANGED vars
    <2>1. World => UNCHANGED <<faces, crop>>
        BY DEF World, Rename, Unfollow, memory
    <2>2. Refresh => UNCHANGED <<faces, crop>>
        BY DEF Refresh, StartRun, ScrapeList, ListFails, CountStored, StoreFollowing,
            ReadFilter, memory
    <2>3. QED
        BY <1>2, <1>3, <2>1, <2>2 DEF vars, memory
<1>4. CASE Walk
    <2>1. ASSUME NEW p \in Posts, NEW a \in Accounts, StorePost(p, a) PROVE FacesType'
        BY <1>2, <2>1 DEF StorePost, memory
    <2>2. ASSUME NEW p \in Posts, NEW a \in Accounts, SaveAvatar(p, a) PROVE FacesType'
        <3>1. name[a] \in Names
            BY <1>1 DEF WorldType
        <3>2. QED
            BY <1>1, <2>2, <3>1 DEF SaveAvatar, FacesType
    <2>3. ASSUME NEW p \in Posts, NEW a \in Accounts, NEW q \in Posts, NEW certain \in BOOLEAN,
                 Suspect(p, a, q, certain)
          PROVE  FacesType'
        BY <1>2, <2>3 DEF Suspect
    <2>4. QED
        BY <1>4, <2>1, <2>2, <2>3 DEF Walk
<1>5. CASE UpsertAccount
    BY <1>1, <1>5 DEF UpsertAccount, FacesType
<1>6. CASE ApplyRename
    <2>1. /\ DOMAIN avatar' \subseteq Names /\ \A n \in DOMAIN avatar' : avatar'[n] \in Names
          /\ crops' \subseteq Names
        BY <1>6, RunRenamed, RenameTypes, TypeParts
    <2>2. QED
        BY <1>1, <1>6, <2>1 DEF ApplyRename, FacesType
<1>7. CASE NoteCandidate \/ ReadRenames \/ EndRun \/ RunDies
    BY <1>2, <1>7 DEF NoteCandidate, ReadRenames, EndRun, RunDies
<1>8. ASSUME NEW a \in Accounts, NEW old \in Names, CliRename(a, old) PROVE FacesType'
    <2>1. /\ DOMAIN avatar' \subseteq Names /\ \A n \in DOMAIN avatar' : avatar'[n] \in Names
          /\ crops' \subseteq Names
        BY <1>1, <1>8, CliRenamed, RenameTypes, TypeParts
    <2>2. crop' = crop
        BY <1>8 DEF CliRename, memory
    <2>3. QED
        BY <1>1, <2>1, <2>2 DEF FacesType
<1>9. CASE AcceptRead \/ AcceptStore \/ \E r \in Suspected : Dismiss(r)
    BY <1>2, <1>9 DEF AcceptRead, AcceptStore, Dismiss, memory
<1>10. QED
    BY <1>3, <1>4, <1>5, <1>6, <1>7, <1>8, <1>9 DEF Next, Finish, Cli

LEMMA SuspectedType == DoubtsType => Suspected \subseteq Names \X Names
BY DEF DoubtsType, Suspected

LEMMA DoubtsStep == ASSUME TypeOK, [Next]_vars PROVE DoubtsType'
<1>1. DoubtsType /\ WorldType /\ StoredType
    BY TypeParts
<1>2. ASSUME suspects' \subseteq suspects \cup noting, UNCHANGED dismissed,
             noting' \in {noting, {}}, renames' \subseteq renames
      PROVE  DoubtsType'
    BY <1>1, <1>2 DEF DoubtsType
<1>3. CASE World \/ Refresh \/ UNCHANGED vars
    <2>1. World => UNCHANGED <<doubts, noting, renames>>
        BY DEF World, Rename, Unfollow, memory
    <2>2. Refresh => UNCHANGED <<doubts, noting, renames>>
        BY DEF Refresh, StartRun, ScrapeList, ListFails, CountStored, StoreFollowing,
            ReadFilter, memory
    <2>3. UNCHANGED <<doubts, noting, renames>>
        BY <1>3, <2>1, <2>2 DEF vars, memory
    <2>4. QED
        BY <1>2, <2>3 DEF doubts
<1>4. CASE Walk
    <2>1. ASSUME NEW p \in Posts, NEW a \in Accounts, StorePost(p, a) \/ SaveAvatar(p, a)
          PROVE  DoubtsType'
        BY <1>2, <2>1 DEF StorePost, SaveAvatar, memory, doubts
    <2>2. ASSUME NEW p \in Posts, NEW a \in Accounts, NEW q \in Posts, NEW certain \in BOOLEAN,
                 Suspect(p, a, q, certain)
          PROVE  DoubtsType'
        <3>1. noting' = {<<stored[q].user, name[a], q>>} /\ q \in DOMAIN stored
            BY <2>2, Suspected2
        <3>2. stored[q].user \in Names /\ name[a] \in Names
            BY <1>1, <3>1 DEF StoredType, Row, WorldType
        <3>3. UNCHANGED <<suspects, dismissed, renames>>
            BY <2>2 DEF Suspect, doubts
        <3>4. QED
            BY <1>1, <3>1, <3>2, <3>3 DEF DoubtsType
    <2>3. QED
        BY <1>4, <2>1, <2>2 DEF Walk
<1>5. CASE NoteCandidate
    BY <1>2, <1>5 DEF NoteCandidate
<1>6. CASE ReadRenames
    <2>1. renames' \subseteq Names \X Names
        BY <1>1, <1>6, SuspectedType DEF ReadRenames, Confirmed
    <2>2. UNCHANGED <<suspects, dismissed, noting>>
        BY <1>6 DEF ReadRenames, doubts
    <2>3. QED
        BY <1>1, <2>1, <2>2 DEF DoubtsType
<1>7. CASE ApplyRename
    <2>1. suspects' \subseteq suspects /\ renames' \subseteq renames
        BY <1>7, RunRenamed, RenameTypes, TypeParts
    <2>2. QED
        BY <1>2, <1>7, <2>1 DEF ApplyRename
<1>8. CASE UpsertAccount \/ EndRun \/ RunDies
    BY <1>2, <1>8 DEF UpsertAccount, EndRun, RunDies, doubts
<1>9. ASSUME NEW a \in Accounts, NEW old \in Names, CliRename(a, old) PROVE DoubtsType'
    <2>1. suspects' \subseteq suspects
        BY <1>1, <1>9, CliRenamed, RenameTypes, TypeParts
    <2>2. QED
        BY <1>2, <1>9, <2>1 DEF CliRename, memory
<1>10. CASE AcceptRead \/ AcceptStore
    BY <1>2, <1>10 DEF AcceptRead, AcceptStore, memory, doubts
<1>11. ASSUME NEW r \in Suspected, Dismiss(r) PROVE DoubtsType'
    <2>1. r \in Names \X Names
        BY <1>1, SuspectedType
    <2>2. suspects' \subseteq suspects /\ dismissed' = dismissed \cup {r}
             /\ UNCHANGED <<noting, renames>>
        BY <1>11 DEF Dismiss, memory
    <2>3. QED
        BY <1>1, <2>1, <2>2 DEF DoubtsType
<1>12. QED
    BY <1>3, <1>4, <1>5, <1>6, <1>7, <1>8, <1>9, <1>10, <1>11 DEF Next, Finish, Cli

LEMMA RunTypeStep == ASSUME TypeOK, [Next]_vars PROVE RunType'
<1>1. RunType /\ ListsType
    BY TypeParts
<1>2. ASSUME UNCHANGED <<pc, counted, crop, noting, runsLeft>> PROVE RunType'
    BY <1>1, <1>2 DEF RunType
<1>3. CASE World \/ Cli \/ UNCHANGED vars
    <2>1. World => UNCHANGED <<pc, counted, crop, noting, runsLeft>>
        BY DEF World, Rename, Unfollow, memory
    <2>2. Cli => UNCHANGED <<pc, counted, crop, noting, runsLeft>>
        BY DEF Cli, AcceptRead, AcceptStore, CliRename, Dismiss, memory
    <2>3. QED
        BY <1>2, <1>3, <2>1, <2>2 DEF vars, memory
<1>4. CASE StartRun \/ ScrapeList \/ ListFails \/ ReadFilter
    BY <1>1, <1>4, BoundsAssumption
       DEF StartRun, ScrapeList, ListFails, ReadFilter, memory, RunType, Phase
<1>5. CASE CountStored
    <2>1. Cardinality(following) \in Nat
        BY <1>1, AccountsAssumption, FS_Subset, FS_CardinalityType DEF ListsType
    <2>2. QED
        BY <1>1, <1>5, <2>1 DEF CountStored, RunType, Phase
<1>6. CASE StoreFollowing
    BY <1>1, <1>6 DEF StoreFollowing, RunType, Phase
<1>7. CASE Walk
    <2>1. ASSUME NEW p \in Posts, NEW a \in Accounts, StorePost(p, a) PROVE RunType'
        BY <1>2, <2>1 DEF StorePost, memory
    <2>2. ASSUME NEW p \in Posts, NEW a \in Accounts, SaveAvatar(p, a) PROVE RunType'
        BY <1>1, <2>2 DEF SaveAvatar, Shown, RunType, Phase
    <2>3. ASSUME NEW p \in Posts, NEW a \in Accounts, NEW q \in Posts, NEW certain \in BOOLEAN,
                 Suspect(p, a, q, certain)
          PROVE  RunType'
        <3>1. noting' = {<<stored[q].user, name[a], q>>}
            BY <2>3, Suspected2
        <3>2. Cardinality(noting') = 1 /\ noting' # {}
            BY <3>1, FS_Singleton
        <3>3. QED
            BY <1>1, <2>3, <3>2 DEF Suspect, Shown, RunType, Phase
    <2>4. QED
        BY <1>7, <2>1, <2>2, <2>3 DEF Walk
<1>8. Cardinality({}) = 0
    BY FS_EmptySet
<1>9. CASE UpsertAccount \/ NoteCandidate \/ ReadRenames \/ ApplyRename \/ EndRun
    BY <1>1, <1>8, <1>9 DEF UpsertAccount, NoteCandidate, ReadRenames, ApplyRename, EndRun,
        RunType, Phase
<1>10. CASE RunDies
    BY <1>1, <1>8, <1>10 DEF RunDies, RunType, Phase
<1>11. QED
    BY <1>3, <1>4, <1>5, <1>6, <1>7, <1>9, <1>10 DEF Next, Refresh, Finish

LEMMA TypeInit == Init => TypeOK
<1> SUFFICES ASSUME Init PROVE TypeOK
    OBVIOUS
<1>1. WorldType /\ ListsType /\ FacesType /\ StoredType
    BY AccountsAssumption, BoundsAssumption
       DEF Init, WorldType, ListsType, FacesType, StoredType
<1>2. DoubtsType /\ RunType
    BY BoundsAssumption, FS_EmptySet DEF Init, DoubtsType, RunType, Phase
<1>3. QED
    BY <1>1, <1>2, TypeParts

LEMMA TypeStep == TypeOK /\ [Next]_vars => TypeOK'
<1> SUFFICES ASSUME TypeOK, [Next]_vars PROVE TypeOK'
    OBVIOUS
<1>1. WorldType' /\ StoredType' /\ ListsType' /\ FacesType' /\ DoubtsType' /\ RunType'
    BY TypeParts, WorldStep, StoredStep, ListsStep, FacesStep, DoubtsStep, RunTypeStep
<1>2. QED
    BY <1>1, Zenon
       DEF TypeOK, WorldType, StoredType, ListsType, FacesType, DoubtsType, RunType, Phase

\* The tables, the files, the run's memory and the command line's are always of their
\* types, with an avatar or a suspicion in hand just while it is being recorded.
THEOREM TypeCorrect == Spec => []TypeOK
BY TypeInit, TypeStep, PTL DEF Spec

------------------------------------------------------------------------------
(* The allowlist.                                                          *)

\* What AllowlistStays rests on: the names a refresh is about to store are some.
FoundSome == pc \in {"count", "replace"} => found # {}

\* At the start nothing is collected.
LEMMA FoundInit == Init => FoundSome
BY DEF Init, FoundSome

\* A rename, by whomever, leaves a name in the place of the one it takes.
LEMMA RenamedSome ==
    ASSUME NEW old, NEW new, RenameAccount(old, new), following # {}
    PROVE  following' # {}
BY DEF RenameAccount, ListRenamed

\* A step of anything but a refresh neither collects names nor starts to store them.
LEMMA RunStep ==
    World \/ Walk \/ Finish \/ Cli \/ UNCHANGED vars =>
        pc' \notin {"count", "replace"} \/ UNCHANGED <<pc, found>>
<1>1. World => UNCHANGED <<pc, found>>
    BY DEF World, Rename, Unfollow, memory
<1>2. ASSUME NEW p \in Posts, NEW a \in Accounts,
             \/ StorePost(p, a) \/ SaveAvatar(p, a)
             \/ \E q \in Posts, certain \in BOOLEAN : Suspect(p, a, q, certain)
      PROVE  UNCHANGED <<pc, found>> \/ pc' \in {"avatar", "note"}
  <2>1. CASE StorePost(p, a)
      BY <2>1 DEF StorePost, memory
  <2>2. CASE SaveAvatar(p, a)
      BY <2>2 DEF SaveAvatar
  <2>3. ASSUME NEW q \in Posts, NEW certain \in BOOLEAN, Suspect(p, a, q, certain)
        PROVE  pc' = "note"
      BY <2>3 DEF Suspect
  <2> QED
      BY <1>2, <2>1, <2>2, <2>3
<1>3. Finish => UNCHANGED <<pc, found>> \/ pc' \in {"walk", "finish", "idle"}
    BY DEF Finish, UpsertAccount, NoteCandidate, ReadRenames, ApplyRename, EndRun, RunDies
<1>4. Cli => UNCHANGED <<pc, found>>
    BY DEF Cli, AcceptRead, AcceptStore, CliRename, Dismiss, memory
<1> QED
    BY <1>1, <1>2, <1>3, <1>4 DEF vars, memory, Walk

\* Every step of the run, of Instagram and of the command line.
LEMMA FoundStep == FoundSome /\ [Next]_vars => FoundSome'
<1> SUFFICES ASSUME FoundSome, [Next]_vars PROVE FoundSome'
    OBVIOUS
<1>1. CASE ScrapeList
  <2>1. found' \in (SUBSET {name[a] : a \in followed}) \ {{}}
      BY <1>1 DEF ScrapeList
  <2> QED
      BY <2>1 DEF FoundSome
<1>2. CASE CountStored
    BY <1>2 DEF CountStored, FoundSome
<1>3. CASE StartRun \/ ListFails \/ StoreFollowing \/ ReadFilter
  <2>1. pc' \in {"list", "filter", "walk"}
      BY <1>3 DEF StartRun, ListFails, StoreFollowing, ReadFilter
  <2> QED
      BY <2>1 DEF FoundSome
<1>4. CASE World \/ Walk \/ Finish \/ Cli \/ UNCHANGED vars
    BY <1>4, RunStep DEF FoundSome
<1> QED
    BY <1>1, <1>2, <1>3, <1>4 DEF Next, Refresh

\* What is written to the list is never nothing.
LEMMA ListStep == FoundSome /\ [Next]_vars => (following # {} => following' # {})
<1> SUFFICES ASSUME FoundSome, [Next]_vars, following # {} PROVE following' # {}
    OBVIOUS
<1>1. CASE World \/ Walk \/ UNCHANGED vars
  <2>1. World => UNCHANGED following
      BY DEF World, Rename, Unfollow, lists
  <2>2. Walk => UNCHANGED following
      BY WalkKeeps DEF lists
  <2> QED
      BY <1>1, <2>1, <2>2 DEF vars, lists
<1>2. CASE Refresh
  <2>1. CASE StoreFollowing
      BY <2>1 DEF StoreFollowing, FoundSome
  <2>2. CASE StartRun \/ ScrapeList \/ ListFails \/ CountStored \/ ReadFilter
      BY <2>2 DEF StartRun, ScrapeList, ListFails, CountStored, ReadFilter, lists
  <2> QED
      BY <1>2, <2>1, <2>2 DEF Refresh
<1>3. CASE Finish
  <2>1. CASE ApplyRename
      BY <2>1, RenamedSome DEF ApplyRename
  <2>2. CASE ~ApplyRename
      BY <1>3, <2>2 DEF Finish, UpsertAccount, NoteCandidate, ReadRenames, EndRun, RunDies, lists
  <2> QED
      BY <2>1, <2>2
<1>4. CASE Cli
  <2>1. ASSUME NEW a \in Accounts, NEW old \in Names, CliRename(a, old) PROVE following' # {}
      BY <2>1, RenamedSome DEF CliRename
  <2>2. CASE AcceptRead \/ AcceptStore \/ \E r \in Suspected : Dismiss(r)
      BY <2>2 DEF AcceptRead, AcceptStore, Dismiss, lists
  <2> QED
      BY <1>4, <2>1, <2>2 DEF Cli
<1> QED
    BY <1>1, <1>2, <1>3, <1>4 DEF Next

\* A list that has been stored is never empty again, whatever is refreshed, renamed or
\* accepted: the filter of the feed is never turned off by itself (store_following).
THEOREM ListNeverEmpties == Spec => AllowlistStays
<1>1. FoundSome /\ [Next]_vars => [following # {} => following' # {}]_vars
    BY ListStep
<1> QED
    BY <1>1, FoundInit, FoundStep, PTL DEF Spec, AllowlistStays

------------------------------------------------------------------------------
(* Whose posts they are.                                                   *)

\* No post has two accounts at its head: a shared one whose owner renames itself is
\* taken for the other account's, and then two histories may be joined.
OneHead == \A p \in Posts : \A a, b \in Heads[p] : a = b

\* Two names one account has borne.
SamePerson(m, n) == \E a \in Accounts : m \in borne[a] /\ n \in borne[a]

\* A name has been borne by one account only, its own name by each.
NamesInv ==
    /\ \A a, b \in Accounts : \A n \in borne[a] \cap borne[b] : a = b
    /\ \A a \in Accounts : name[a] \in borne[a]

\* A row is its author's, who heads the post.
RowsInv ==
    \A p \in DOMAIN stored :
        stored[p].user \in borne[stored[p].by] /\ stored[p].by \in Heads[p]

\* Every rename suspected, recorded or confirmed is one account's.
DoubtsInv ==
    /\ \A c \in suspects \cup noting : SamePerson(c[1], c[2])
    /\ \A r \in renames : SamePerson(r[1], r[2])

LEMMA NamesStep ==
    ASSUME WorldType, NamesInv, [Next]_vars
    PROVE  NamesInv' /\ \A a \in Accounts : borne[a] \subseteq borne'[a]
<1>1. ASSUME NEW a \in Accounts, NEW n \in Names, Rename(a, n)
      PROVE  NamesInv' /\ \A b \in Accounts : borne[b] \subseteq borne'[b]
    <2>1. /\ name' = [name EXCEPT ![a] = n]
          /\ borne' = [borne EXCEPT ![a] = @ \cup {n}]
          /\ \A b \in Accounts : n \notin borne[b]
        BY <1>1 DEF Rename
    <2>2. \A b \in Accounts : /\ name'[b] = IF b = a THEN n ELSE name[b]
                              /\ borne'[b] = IF b = a THEN borne[b] \cup {n} ELSE borne[b]
        BY <2>1 DEF WorldType
    <2>3. QED
        BY <2>1, <2>2 DEF NamesInv
<1>2. CASE UNCHANGED <<name, borne>>
    BY <1>2 DEF NamesInv
<1>3. ASSUME NEW a \in Accounts, Unfollow(a) PROVE UNCHANGED <<name, borne>>
    BY <1>3 DEF Unfollow
<1>4. CASE Refresh \/ UNCHANGED vars
    <2>1. UNCHANGED instagram
        BY <1>4 DEF Refresh, StartRun, ScrapeList, ListFails, CountStored, StoreFollowing,
            ReadFilter, vars
    <2>2. QED
        BY <1>2, <2>1 DEF instagram
<1>5. CASE Walk
    BY <1>2, <1>5, WalkKeeps DEF instagram
<1>6. CASE Finish
    <2>1. UNCHANGED instagram
        BY <1>6 DEF Finish, UpsertAccount, NoteCandidate, ReadRenames, ApplyRename, EndRun,
            RunDies
    <2>2. QED
        BY <1>2, <2>1 DEF instagram
<1>7. CASE Cli
    <2>1. UNCHANGED instagram
        BY <1>7 DEF Cli, AcceptRead, AcceptStore, CliRename, Dismiss
    <2>2. QED
        BY <1>2, <2>1 DEF instagram
<1>8. QED
    BY <1>1, <1>2, <1>3, <1>4, <1>5, <1>6, <1>7 DEF Next, World

\* Once borne by one account, two names stay one account's.
LEMMA SamePersonStays ==
    ASSUME WorldType, NamesInv, [Next]_vars
    PROVE  \A m, n : SamePerson(m, n) => SamePerson(m, n)'
BY NamesStep DEF SamePerson

\* Folding one name of an account into another leaves each row its author's.
LEMMA RowsRenamed ==
    ASSUME NamesInv, RowsInv, StoredType, NEW old, NEW new, SamePerson(old, new),
           RenameAccount(old, new), NEW p \in DOMAIN stored
    PROVE  /\ stored'[p].user \in borne[stored[p].by]
           /\ stored'[p].by = stored[p].by
<1>1. stored[p] \in Row
    BY DEF StoredType
<1>2. stored'[p] = IF stored[p].user = old THEN [stored[p] EXCEPT !.user = new] ELSE stored[p]
    BY DEF RenameAccount
<1>3. stored[p].user \in borne[stored[p].by] /\ stored[p].by \in Accounts
    BY <1>1 DEF RowsInv, Row
<1>4. CASE stored[p].user = old
    <2>1. PICK a \in Accounts : old \in borne[a] /\ new \in borne[a]
        BY DEF SamePerson
    <2>2. a = stored[p].by
        BY <1>3, <1>4, <2>1 DEF NamesInv
    <2>3. stored'[p].user = new /\ stored'[p].by = stored[p].by
        BY <1>1, <1>2, <1>4 DEF Row
    <2>4. QED
        BY <2>1, <2>2, <2>3
<1>5. CASE stored[p].user # old
    BY <1>2, <1>3, <1>5
<1>6. QED
    BY <1>4, <1>5

LEMMA RowsStep ==
    ASSUME OneHead, TypeOK, NamesInv, RowsInv, DoubtsInv, [Next]_vars
    PROVE  RowsInv'
<1>1. WorldType /\ StoredType /\ DoubtsType
    BY TypeParts
<1>2. \A a \in Accounts : borne[a] \subseteq borne'[a]
    BY <1>1, NamesStep
<1>3. \A p \in DOMAIN stored : stored[p].by \in Accounts
    BY <1>1 DEF StoredType, Row
<1>4. ASSUME DOMAIN stored' \subseteq DOMAIN stored,
             \A p \in DOMAIN stored' : stored'[p] = stored[p]
      PROVE  RowsInv'
    BY <1>2, <1>3, <1>4 DEF RowsInv
<1>5. ASSUME NEW old, NEW new, SamePerson(old, new), RenameAccount(old, new)
      PROVE  RowsInv'
    <2>1. DOMAIN stored' = DOMAIN stored
        BY <1>5 DEF RenameAccount
    <2>2. ASSUME NEW p \in DOMAIN stored
          PROVE  stored'[p].user \in borne'[stored'[p].by] /\ stored'[p].by \in Heads[p]
        <3>1. stored'[p].user \in borne[stored[p].by] /\ stored'[p].by = stored[p].by
            BY <1>1, <1>5, <2>2, RowsRenamed
        <3>2. QED
            BY <1>2, <1>3, <3>1 DEF RowsInv
    <2>3. QED
        BY <2>1, <2>2 DEF RowsInv
<1>6. CASE World \/ Refresh \/ UNCHANGED vars
    <2>1. World => UNCHANGED stored
        BY DEF World, Rename, Unfollow
    <2>2. Refresh => UNCHANGED stored
        BY DEF Refresh, StartRun, ScrapeList, ListFails, CountStored, StoreFollowing, ReadFilter
    <2>3. UNCHANGED stored
        BY <1>6, <2>1, <2>2 DEF vars
    <2>4. QED
        BY <1>4, <2>3
<1>7. CASE Walk
    <2>1. ASSUME NEW p \in Posts, NEW a \in Accounts, StorePost(p, a) PROVE RowsInv'
        <3>1. /\ DOMAIN stored' = DOMAIN stored \cup {p} /\ a \in Heads[p]
              /\ stored'[p] = [user |-> name[a], by |-> a]
              /\ \A q \in DOMAIN stored : q # p => stored'[q] = stored[q]
            BY <2>1, PostStored
        <3>2. name[a] \in borne'[a]
            BY <1>2 DEF NamesInv
        <3>3. QED
            BY <1>2, <1>3, <3>1, <3>2 DEF RowsInv
    <2>2. ASSUME NEW p \in Posts, NEW a \in Accounts, SaveAvatar(p, a) PROVE RowsInv'
        BY <1>4, <2>2 DEF SaveAvatar
    <2>3. ASSUME NEW p \in Posts, NEW a \in Accounts, NEW q \in Posts, NEW certain \in BOOLEAN,
                 Suspect(p, a, q, certain)
          PROVE  RowsInv'
        BY <1>4, <2>3 DEF Suspect
    <2>4. QED
        BY <1>7, <2>1, <2>2, <2>3 DEF Walk
<1>8. CASE ApplyRename
    <2>1. PICK r \in renames : RenameAccount(r[1], r[2])
        BY <1>8 DEF ApplyRename
    <2>2. SamePerson(r[1], r[2])
        BY DEF DoubtsInv
    <2>3. QED
        BY <1>5, <2>1, <2>2
<1>9. CASE EndRun
    BY <1>4, <1>9 DEF EndRun
<1>10. CASE UpsertAccount \/ NoteCandidate \/ ReadRenames \/ RunDies
    BY <1>4, <1>10 DEF UpsertAccount, NoteCandidate, ReadRenames, RunDies
<1>11. ASSUME NEW a \in Accounts, NEW old \in Names, CliRename(a, old) PROVE RowsInv'
    <2>1. SamePerson(old, name[a])
        BY <1>11 DEF CliRename, NamesInv, SamePerson
    <2>2. RenameAccount(old, name[a])
        BY <1>11 DEF CliRename
    <2>3. QED
        BY <1>5, <2>1, <2>2
<1>12. CASE AcceptRead \/ AcceptStore \/ \E r \in Suspected : Dismiss(r)
    BY <1>4, <1>12 DEF AcceptRead, AcceptStore, Dismiss
<1>13. QED
    BY <1>6, <1>7, <1>8, <1>9, <1>10, <1>11, <1>12 DEF Next, Finish, Cli

LEMMA DoubtsInvStep ==
    ASSUME OneHead, TypeOK, NamesInv, RowsInv, DoubtsInv, [Next]_vars
    PROVE  DoubtsInv'
<1>1. WorldType /\ StoredType /\ DoubtsType
    BY TypeParts
<1>2. \A m, n : SamePerson(m, n) => SamePerson(m, n)'
    BY <1>1, SamePersonStays
<1>3. ASSUME suspects' \subseteq suspects \cup noting, noting' \in {noting, {}},
             renames' \subseteq renames
      PROVE  DoubtsInv'
    BY <1>2, <1>3 DEF DoubtsInv
<1>4. CASE World \/ Refresh \/ UNCHANGED vars
    <2>1. World => UNCHANGED <<suspects, noting, renames>>
        BY DEF World, Rename, Unfollow, memory, doubts
    <2>2. Refresh => UNCHANGED <<suspects, noting, renames>>
        BY DEF Refresh, StartRun, ScrapeList, ListFails, CountStored, StoreFollowing,
            ReadFilter, memory, doubts
    <2>3. UNCHANGED <<suspects, noting, renames>>
        BY <1>4, <2>1, <2>2 DEF vars, memory, doubts
    <2>4. QED
        BY <1>3, <2>3
<1>5. CASE Walk
    <2>1. ASSUME NEW p \in Posts, NEW a \in Accounts, StorePost(p, a) \/ SaveAvatar(p, a)
          PROVE  DoubtsInv'
        BY <1>3, <2>1 DEF StorePost, SaveAvatar, memory, doubts
    <2>2. ASSUME NEW p \in Posts, NEW a \in Accounts, NEW q \in Posts, NEW certain \in BOOLEAN,
                 Suspect(p, a, q, certain)
          PROVE  DoubtsInv'
        <3>1. /\ a \in Heads[p] /\ q = p /\ q \in DOMAIN stored
              /\ noting' = {<<stored[q].user, name[a], q>>}
            BY <2>2, Suspected2
        <3>2. stored[q].user \in borne[a] /\ name[a] \in borne[a]
            BY <3>1 DEF RowsInv, OneHead, NamesInv
        <3>3. SamePerson(stored[q].user, name[a])
            BY <3>2 DEF SamePerson
        <3>4. UNCHANGED <<suspects, renames>>
            BY <2>2 DEF Suspect, doubts
        <3>5. \A c \in noting' : SamePerson(c[1], c[2])'
            BY <1>2, <3>1, <3>3
        <3>6. QED
            BY <1>2, <3>4, <3>5 DEF DoubtsInv
    <2>3. QED
        BY <1>5, <2>1, <2>2 DEF Walk
<1>6. CASE NoteCandidate
    BY <1>3, <1>6 DEF NoteCandidate
<1>7. CASE ReadRenames
    <2>1. \A r \in Confirmed : SamePerson(r[1], r[2])
        BY DEF DoubtsInv, Confirmed, Suspected
    <2>2. \A r \in renames' : SamePerson(r[1], r[2])
        BY <1>7, <2>1 DEF ReadRenames
    <2>3. UNCHANGED <<suspects, noting>>
        BY <1>7 DEF ReadRenames, doubts
    <2>4. QED
        BY <1>2, <2>2, <2>3 DEF DoubtsInv
<1>8. CASE ApplyRename
    <2>1. suspects' \subseteq suspects /\ renames' \subseteq renames
        BY <1>8 DEF ApplyRename, RenameAccount
    <2>2. QED
        BY <1>3, <1>8, <2>1 DEF ApplyRename
<1>9. CASE UpsertAccount \/ EndRun \/ RunDies
    BY <1>3, <1>9 DEF UpsertAccount, EndRun, RunDies, doubts
<1>10. ASSUME NEW a \in Accounts, NEW old \in Names, CliRename(a, old) PROVE DoubtsInv'
    <2>1. suspects' \subseteq suspects
        BY <1>10 DEF CliRename, RenameAccount
    <2>2. QED
        BY <1>3, <1>10, <2>1 DEF CliRename, memory
<1>11. CASE AcceptRead \/ AcceptStore
    BY <1>3, <1>11 DEF AcceptRead, AcceptStore, memory, doubts
<1>12. ASSUME NEW r \in Suspected, Dismiss(r) PROVE DoubtsInv'
    BY <1>3, <1>12 DEF Dismiss, memory
<1>13. QED
    BY <1>4, <1>5, <1>6, <1>7, <1>8, <1>9, <1>10, <1>11, <1>12 DEF Next, Finish, Cli

PersonInv == NamesInv /\ RowsInv /\ DoubtsInv

LEMMA PersonInit == Init => PersonInv
BY AccountsAssumption DEF Init, PersonInv, NamesInv, RowsInv, DoubtsInv

LEMMA PersonStep == ASSUME OneHead, TypeOK, PersonInv, [Next]_vars PROVE PersonInv'
BY NamesStep, RowsStep, DoubtsInvStep, TypeParts DEF PersonInv

\* Where no post is shared, every stored post stays filed under a name its author has
\* borne, whatever renames are suspected, confirmed, applied or typed, by a run and the
\* command line at once, for any accounts and any number of renames (rename_account).
THEOREM AuthorsStay == ASSUME OneHead PROVE Spec => []AuthorsKept
<1>1. PersonInv => AuthorsKept
    BY DEF PersonInv, RowsInv, AuthorsKept
<1>2. TypeOK /\ PersonInv /\ [Next]_vars => PersonInv'
    BY PersonStep
<1>3. QED
    BY <1>1, <1>2, PersonInit, TypeCorrect, PTL DEF Spec

------------------------------------------------------------------------------
(* How much shorter the list may get.                                      *)

\* Names that accounts have borne, one of each account at the most.
OneName(S) ==
    /\ \A n \in S : SamePerson(n, n)
    /\ \A m, n \in S : SamePerson(m, n) => m = n

\* Each list is such a set, being what one refresh saw, and later renames keep it one.
ListsInv == OneName(found) /\ OneName(following) /\ OneName(pending) /\ OneName(accepting)

\* A rename on Instagram gives an account a name that is in no list yet.
LEMMA OneNameStays ==
    ASSUME WorldType, NamesInv, [Next]_vars, NEW S, OneName(S)
    PROVE  /\ \A n \in S : SamePerson(n, n)'
           /\ \A m, n \in S : SamePerson(m, n)' => m = n
<1>1. \A m, n : SamePerson(m, n) => SamePerson(m, n)'
    BY SamePersonStays
<1>2. NamesInv' /\ \A a \in Accounts : borne[a] \subseteq borne'[a]
    BY NamesStep
<1>3. ASSUME NEW m \in S, NEW n \in S, SamePerson(m, n)' PROVE m = n
    <2>1. PICK a \in Accounts : m \in borne'[a] /\ n \in borne'[a]
        BY <1>3 DEF SamePerson
    <2>2. PICK b \in Accounts : m \in borne[b]
        BY DEF OneName, SamePerson
    <2>3. PICK c \in Accounts : n \in borne[c]
        BY DEF OneName, SamePerson
    <2>4. b = a /\ c = a
        BY <1>2, <2>1, <2>2, <2>3 DEF NamesInv
    <2>5. QED
        BY <2>2, <2>3, <2>4 DEF OneName, SamePerson
<1>4. QED
    BY <1>1, <1>3 DEF OneName

\* A list stays of this kind, and of its length, when a name makes way for another
\* of the same account.
LEMMA ListRenamedOneName ==
    ASSUME NamesInv, OneName(following), NEW old, NEW new, SamePerson(old, new)
    PROVE  OneName(ListRenamed(old, new))
<1>1. CASE old \notin following
    BY <1>1 DEF ListRenamed
<1>2. CASE old \in following
    <2>1. ListRenamed(old, new) = (following \ {old}) \cup {new}
        BY <1>2 DEF ListRenamed
    <2>2. SamePerson(new, new)
        BY DEF SamePerson
    <2>3. \A n \in following \ {old} : ~SamePerson(n, new) /\ ~SamePerson(new, n)
        <3> SUFFICES ASSUME NEW n \in following \ {old}, NEW a \in Accounts,
                            n \in borne[a], new \in borne[a]
                     PROVE  FALSE
            BY DEF SamePerson
        <3>1. PICK b \in Accounts : old \in borne[b] /\ new \in borne[b]
            BY DEF SamePerson
        <3>2. b = a
            BY <3>1 DEF NamesInv
        <3>3. QED
            BY <1>2, <3>1, <3>2 DEF OneName, SamePerson
    <2>4. QED
        BY <2>1, <2>2, <2>3 DEF OneName
<1>3. QED
    BY <1>1, <1>2

LEMMA ListRenamedLength ==
    ASSUME NamesInv, ListsType, OneName(following),
           NEW old, NEW new, SamePerson(old, new)
    PROVE  Cardinality(ListRenamed(old, new)) = Cardinality(following)
<1>1. IsFiniteSet(following)
    BY AccountsAssumption, FS_Subset DEF ListsType
<1>2. CASE old \notin following \/ old = new
    BY <1>2 DEF ListRenamed
<1>3. CASE old \in following /\ old # new
    <2>1. new \notin following
        BY <1>3 DEF OneName
    <2>2. /\ IsFiniteSet(following \ {old})
          /\ Cardinality(following \ {old}) = Cardinality(following) - 1
        BY <1>1, <1>3, FS_RemoveElement, Zenon
    <2>3. Cardinality((following \ {old}) \cup {new}) = Cardinality(following \ {old}) + 1
        BY <2>1, <2>2, FS_AddElement
    <2>4. Cardinality(following) \in Nat
        BY <1>1, FS_CardinalityType
    <2>5. ListRenamed(old, new) = (following \ {old}) \cup {new}
        BY <1>3 DEF ListRenamed
    <2>6. QED
        BY <2>2, <2>3, <2>4, <2>5
<1>4. QED
    BY <1>2, <1>3

LEMMA ListsInvStep ==
    ASSUME TypeOK, PersonInv, ListsInv, [Next]_vars PROVE ListsInv'
<1>1. WorldType /\ NamesInv /\ ListsType
    BY TypeParts DEF PersonInv
<1>2. ASSUME NEW S, OneName(S)
      PROVE  /\ \A n \in S : SamePerson(n, n)'
             /\ \A m, n \in S : SamePerson(m, n)' => m = n
    BY <1>1, <1>2, OneNameStays
<1>3. OneName({})
    BY DEF OneName
<1>4. ASSUME OneName(found'), OneName(following'), OneName(pending'), OneName(accepting')
      PROVE  ListsInv'
    <2>1. OneName(found)'
        BY <1>2, <1>4 DEF OneName
    <2>2. OneName(following)'
        BY <1>2, <1>4 DEF OneName
    <2>3. OneName(pending)'
        BY <1>2, <1>4 DEF OneName
    <2>4. OneName(accepting)'
        BY <1>2, <1>4 DEF OneName
    <2>5. QED
        BY <2>1, <2>2, <2>3, <2>4 DEF ListsInv
<1>5. ASSUME found' \in {found, {}}, following' \in {following, found, accepting},
             pending' \in {pending, found, {}}, accepting' \in {accepting, pending, {}}
      PROVE  ListsInv'
    <2>1. OneName(found') /\ OneName(following')
        BY <1>3, <1>5 DEF ListsInv
    <2>2. OneName(pending') /\ OneName(accepting')
        BY <1>3, <1>5 DEF ListsInv
    <2>3. QED
        BY <1>4, <2>1, <2>2
<1>6. CASE World \/ UNCHANGED vars
    <2>1. UNCHANGED <<lists, found, accepting>>
        BY <1>6 DEF World, Rename, Unfollow, memory, vars
    <2>2. QED
        BY <1>5, <2>1 DEF lists
<1>7. CASE ScrapeList
    <2>1. found' \subseteq {name[a] : a \in Accounts}
        BY <1>1, <1>7 DEF ScrapeList, WorldType
    <2>2. OneName(found')
        BY <1>1, <2>1 DEF OneName, SamePerson, NamesInv
    <2>3. UNCHANGED <<following, pending, accepting>>
        BY <1>7 DEF ScrapeList, lists
    <2>4. QED
        BY <1>4, <2>2, <2>3 DEF ListsInv
<1>8. CASE StoreFollowing
    <2>1. /\ found' = {} /\ UNCHANGED accepting
          /\ following' \in {following, found} /\ pending' \in {pending, found, {}}
        BY <1>8 DEF StoreFollowing
    <2>2. QED
        BY <1>5, <2>1
<1>9. CASE StartRun \/ ListFails \/ CountStored \/ ReadFilter
    <2>1. UNCHANGED <<lists, found, accepting>>
        BY <1>9 DEF StartRun, ListFails, CountStored, ReadFilter, memory
    <2>2. QED
        BY <1>5, <2>1 DEF lists
<1>10. CASE Walk
    BY <1>5, <1>10, WalkKeeps DEF lists
<1>11. ASSUME NEW old, NEW new, SamePerson(old, new), RenameAccount(old, new),
              UNCHANGED <<found, pending, accepting>>
       PROVE  ListsInv'
    <2>1. OneName(following')
        BY <1>1, <1>11, ListRenamedOneName DEF RenameAccount, ListsInv
    <2>2. QED
        BY <1>4, <1>11, <2>1 DEF ListsInv
<1>12. CASE ApplyRename
    <2>1. PICK r \in renames : RenameAccount(r[1], r[2])
        BY <1>12 DEF ApplyRename
    <2>2. SamePerson(r[1], r[2])
        BY DEF PersonInv, DoubtsInv
    <2>3. UNCHANGED <<found, pending, accepting>>
        BY <1>12 DEF ApplyRename
    <2>4. QED
        BY <1>11, <2>1, <2>2, <2>3
<1>13. CASE UpsertAccount \/ NoteCandidate \/ ReadRenames \/ EndRun \/ RunDies
    <2>1. UNCHANGED <<lists, accepting>> /\ found' \in {found, {}}
        BY <1>13 DEF UpsertAccount, NoteCandidate, ReadRenames, EndRun, RunDies
    <2>2. QED
        BY <1>5, <2>1 DEF lists
<1>14. ASSUME NEW a \in Accounts, NEW old \in Names, CliRename(a, old) PROVE ListsInv'
    <2>1. SamePerson(old, name[a])
        BY <1>1, <1>14 DEF CliRename, NamesInv, SamePerson
    <2>2. RenameAccount(old, name[a]) /\ UNCHANGED <<found, pending, accepting>>
        BY <1>14 DEF CliRename, memory
    <2>3. QED
        BY <1>11, <2>1, <2>2
<1>15. CASE AcceptRead \/ AcceptStore \/ \E r \in Suspected : Dismiss(r)
    <2>1. /\ found' = found /\ following' \in {following, accepting}
          /\ pending' \in {pending, {}} /\ accepting' \in {accepting, pending, {}}
        BY <1>15 DEF AcceptRead, AcceptStore, Dismiss, memory, lists
    <2>2. QED
        BY <1>5, <2>1
<1>16. QED
    BY <1>6, <1>7, <1>8, <1>9, <1>10, <1>12, <1>13, <1>14, <1>15 DEF Next, Refresh, Finish, Cli

\* The count a refresh has read is a number: a list it does not hold back is at least
\* FOLLOWING_SHRINK_PERCENT of it.
LEMMA NotHeldBack ==
    ASSUME ListsType, counted \in Nat, ~HeldBack(found, counted),
           Cardinality(following) <= counted
    PROVE  Cardinality(found) * 100 >= Cardinality(following) * ShrinkPercent
<1>1. Cardinality(found) \in Nat /\ Cardinality(following) \in Nat
    BY AccountsAssumption, FS_Subset, FS_CardinalityType DEF ListsType
<1>2. CASE ShrinkPercent = 0
    BY <1>1, <1>2
<1>3. CASE ShrinkPercent > 0
    <2>1. Cardinality(found) * 100 >= counted * ShrinkPercent
        BY <1>1, <1>3, BoundsAssumption DEF HeldBack
    <2>2. \A m, n, k \in Nat : m <= n => m * k <= n * k
        OBVIOUS
    <2>3. counted * ShrinkPercent >= Cardinality(following) * ShrinkPercent
        BY <1>1, <2>2, BoundsAssumption
    <2>4. counted * ShrinkPercent \in Nat /\ Cardinality(following) * ShrinkPercent \in Nat
        BY <1>1, BoundsAssumption
    <2>5. QED
        BY <1>1, <2>1, <2>3, <2>4
<1>4. QED
    BY <1>2, <1>3, BoundsAssumption

LEMMA ShrinkStep ==
    ASSUME TypeOK, PersonInv, ListsInv, [Next]_vars,
           pc # pc' \/ renames # renames', ~OutgrewCount
    PROVE  Cardinality(following') * 100 >= Cardinality(following) * ShrinkPercent
<1>1. WorldType /\ NamesInv /\ ListsType /\ RunType
    BY TypeParts DEF PersonInv
<1>2. Cardinality(following) \in Nat
    BY <1>1, AccountsAssumption, FS_Subset, FS_CardinalityType DEF ListsType
<1>3. ASSUME Cardinality(following') = Cardinality(following)
      PROVE  Cardinality(following') * 100 >= Cardinality(following) * ShrinkPercent
    <2>1. \A m \in Nat : \A k \in 0 .. 100 : m * 100 >= m * k
        OBVIOUS
    <2>2. QED
        BY <1>2, <1>3, <2>1, BoundsAssumption
<1>4. CASE World \/ Cli \/ UNCHANGED vars
    <2>1. World => UNCHANGED <<pc, renames>>
        BY DEF World, Rename, Unfollow, memory
    <2>2. Cli => UNCHANGED <<pc, renames>>
        BY DEF Cli, AcceptRead, AcceptStore, CliRename, Dismiss, memory
    <2>3. QED
        BY <1>4, <2>1, <2>2 DEF vars, memory
<1>5. CASE StoreFollowing
    <2>1. CASE HeldBack(found, counted)
        BY <1>3, <1>5, <2>1 DEF StoreFollowing
    <2>2. CASE ~HeldBack(found, counted)
        <3>1. following' = found /\ pc = "replace"
            BY <1>5, <2>2 DEF StoreFollowing
        <3>2. counted \in Nat /\ Cardinality(following) <= counted
            BY <1>1, <1>2, <3>1 DEF OutgrewCount, RunType
        <3>3. QED
            BY <1>1, <2>2, <3>1, <3>2, NotHeldBack
    <2>3. QED
        BY <2>1, <2>2
<1>6. CASE ApplyRename
    <2>1. PICK r \in renames : RenameAccount(r[1], r[2])
        BY <1>6 DEF ApplyRename
    <2>2. SamePerson(r[1], r[2])
        BY DEF PersonInv, DoubtsInv
    <2>3. Cardinality(following') = Cardinality(following)
        BY <1>1, <2>1, <2>2, ListRenamedLength DEF RenameAccount, ListsInv
    <2>4. QED
        BY <1>3, <2>3
<1>7. CASE StartRun \/ ScrapeList \/ ListFails \/ CountStored \/ ReadFilter
    BY <1>3, <1>7 DEF StartRun, ScrapeList, ListFails, CountStored, ReadFilter, lists
<1>8. CASE UpsertAccount \/ NoteCandidate \/ ReadRenames \/ EndRun \/ RunDies
    BY <1>3, <1>8 DEF UpsertAccount, NoteCandidate, ReadRenames, EndRun, RunDies, lists
<1>9. CASE Walk
    BY <1>3, <1>9, WalkKeeps DEF lists
<1>10. QED
    BY <1>4, <1>5, <1>6, <1>7, <1>8, <1>9 DEF Next, Refresh, Finish

\* Where no post is shared, no step of a run leaves the list shorter than the percentage
\* of what it was, whatever the command line renames or accepts between a refresh's
\* count and its write, but for a list accepted longer in between (store_following).
THEOREM ShrinkTakesAPerson == ASSUME OneHead PROVE Spec => ShrinkNeedsPerson
<1>1. Init => ListsInv
    BY DEF Init, ListsInv, OneName
<1>2. TypeOK /\ PersonInv /\ ListsInv /\ [Next]_vars => PersonInv' /\ ListsInv'
    BY PersonStep, ListsInvStep
<1>3. TypeOK /\ PersonInv /\ ListsInv /\ [Next]_vars =>
        [(pc # pc' \/ renames # renames') /\ ~OutgrewCount =>
            Cardinality(following') * 100 >= Cardinality(following) * ShrinkPercent]_vars
    BY ShrinkStep
<1>4. QED
    BY <1>1, <1>2, <1>3, PersonInit, TypeCorrect, PTL DEF Spec, ShrinkNeedsPerson

------------------------------------------------------------------------------
(* The avatars.  Which of an account's names is the older one matters: a     *)
(* file may be shown by rows of later names, never of earlier ones.          *)

\* A rename leads from a name its account no longer has to one that was not its first.
Earlier(old, new) ==
    old # new /\ \A a \in Accounts : old # name[a] /\ new # FirstName[a]

PairsInv ==
    /\ \A c \in suspects \cup noting : Earlier(c[1], c[2])
    /\ \A r \in renames : Earlier(r[1], r[2])
    /\ renames # {} => pc = "finish"

\* An account bears its first name until it takes another; rows, files and the avatar at
\* hand are under names that were borne.
BorneInv ==
    /\ \A a \in Accounts : /\ FirstName[a] \in borne[a]
                           /\ name[a] = FirstName[a] => borne[a] = {FirstName[a]}
    /\ \A n \in DOMAIN avatar \cup crop : \E a \in Accounts : n \in borne[a]
    /\ \A a \in Accounts : \A n \in DOMAIN avatar \cap borne[a] : avatar[n] \in borne[a]

\* The rows of an account that have an avatar.
Faced(a) == DOMAIN avatar \cap borne[a]

\* A row's file was taken under its own name or an older one.  While the file under the
\* first name waits for its row there is no later file; a second row with that file
\* comes from a rename after which nothing is stored under the first name, so that no
\* rename of it is confirmed any more.
AgeInv(a) ==
    /\ \A n \in Faced(a) : /\ n = FirstName[a] => avatar[n] = FirstName[a]
                           /\ avatar[n] = name[a] => n = name[a]
    /\ FirstName[a] \in crop => \A n \in Faced(a) : avatar[n] = FirstName[a]
    /\ (\E n \in Faced(a) : n # FirstName[a] /\ avatar[n] = FirstName[a]) =>
            \A p \in DOMAIN stored : stored[p].user # FirstName[a]
    /\ (FirstName[a] \in DOMAIN avatar /\ \E r \in renames : r[1] = FirstName[a]) =>
            \A n \in Faced(a) : avatar[n] = FirstName[a] => n = FirstName[a]

\* Up to the third name: the file of the row in use is on disk and, until there is such
\* a row, so is every row's that it may get.
FilesInv(a) ==
    /\ name[a] \in DOMAIN avatar => avatar[name[a]] \in crops
    /\ name[a] \in crop => name[a] \in crops
    /\ name[a] \notin DOMAIN avatar \/ borne[a] \subseteq {FirstName[a], name[a]} =>
            /\ \A n \in Faced(a) : avatar[n] \in crops
            /\ crop \cap borne[a] \subseteq crops

FacesInv ==
    /\ PairsInv /\ BorneInv
    /\ \A a \in Accounts : AgeInv(a) /\ (Cardinality(borne[a]) <= 3 => FilesInv(a))

LEMMA FacesInit == Init => FacesInv
BY AccountsAssumption DEF Init, FacesInv, PairsInv, BorneInv, AgeInv, FilesInv, Faced

\* Three names are no four.
LEMMA ThreeNames ==
    ASSUME NEW S \in SUBSET Names, Cardinality(S) <= 3,
           NEW w \in S, NEW x \in S, NEW y \in S, NEW z \in S
    PROVE  w \in {x, y, z} \/ x \in {y, z} \/ y = z
<1>1. IsFiniteSet(S)
    BY AccountsAssumption, FS_Subset
<1>2. SUFFICES ASSUME w \notin {x, y, z}, x \notin {y, z}, y # z PROVE FALSE
    OBVIOUS
<1> DEFINE S1 == {y}  S2 == S1 \cup {z}  S3 == S2 \cup {x}  S4 == S3 \cup {w}
<1>3. IsFiniteSet(S1) /\ Cardinality(S1) = 1
    BY FS_Singleton
<1>4. z \notin S1 /\ x \notin S2 /\ w \notin S3 /\ S4 \subseteq S
    BY <1>2
<1> HIDE DEF S1
<1>5. IsFiniteSet(S2) /\ Cardinality(S2) = 2
    BY <1>3, <1>4, FS_AddElement
<1> HIDE DEF S2
<1>6. IsFiniteSet(S3) /\ Cardinality(S3) = 3
    BY <1>4, <1>5, FS_AddElement
<1> HIDE DEF S3
<1>7. IsFiniteSet(S4) /\ Cardinality(S4) = 4
    BY <1>4, <1>6, FS_AddElement
<1> HIDE DEF S4
<1>8. Cardinality(S4) <= Cardinality(S) /\ Cardinality(S) \in Nat
    BY <1>1, <1>4, FS_Subset, FS_CardinalityType
<1>9. QED
    BY <1>7, <1>8

\* A step that moves no avatar, forgets what is at hand and stores nothing new.
LEMMA FacesKeep ==
    ASSUME FacesInv, UNCHANGED <<name, borne, avatar, crops>>, crop' \in {crop, {}},
           renames' \subseteq renames, renames' # {} => pc' = "finish",
           suspects' \subseteq suspects \cup noting, noting' \in {noting, {}},
           \A p \in DOMAIN stored' : p \in DOMAIN stored /\ stored'[p] = stored[p]
    PROVE  FacesInv'
<1>1. PairsInv' /\ BorneInv'
    BY DEF FacesInv, PairsInv, BorneInv, Earlier
<1>2. ASSUME NEW a \in Accounts PROVE AgeInv(a)' /\ (FilesInv(a) => FilesInv(a)')
    <2>1. Faced(a)' = Faced(a)
        BY DEF Faced
    <2>2. AgeInv(a)
        BY DEF FacesInv
    <2>3. AgeInv(a)'
        BY <2>1, <2>2 DEF AgeInv
    <2>4. FilesInv(a) => FilesInv(a)'
        BY <2>1 DEF FilesInv
    <2>5. QED
        BY <2>3, <2>4
<1>3. QED
    BY <1>1, <1>2 DEF FacesInv

\* What rename_account does to the rows with an avatar, to the files and to the posts.
Moved(old, new) ==
    /\ old \notin DOMAIN avatar => avatar' = avatar /\ crops' = crops
    /\ old \in DOMAIN avatar =>
        /\ DOMAIN avatar' = (DOMAIN avatar \ {old}) \cup {new}
        /\ \A n \in DOMAIN avatar' :
              avatar'[n] = IF n \in DOMAIN avatar THEN avatar[n] ELSE avatar[old]
    /\ old \in DOMAIN avatar /\ new \notin DOMAIN avatar => crops' = crops
    /\ old \in DOMAIN avatar /\ new \in DOMAIN avatar =>
        crops' = crops \ ({avatar[old]} \ {avatar[new]})

MovedPosts(old, new) ==
    /\ DOMAIN stored' = DOMAIN stored /\ suspects' \subseteq suspects
    /\ \A p \in DOMAIN stored : stored'[p] = IF stored[p].user = old
                                             THEN [stored[p] EXCEPT !.user = new]
                                             ELSE stored[p]

LEMMA FaceMoves ==
    ASSUME NEW old, NEW new, RenameAccount(old, new)
    PROVE  Moved(old, new) /\ MovedPosts(old, new)
<1>1. old \notin DOMAIN avatar => avatar' = avatar /\ crops' = crops
    BY DEF RenameAccount, AvatarMoved, Dropped
<1>2. old \in DOMAIN avatar =>
        avatar' = [n \in (DOMAIN avatar \ {old}) \cup {new} |->
                      IF n \in DOMAIN avatar THEN avatar[n] ELSE avatar[old]]
    BY DEF RenameAccount, AvatarMoved
<1>3. /\ old \in DOMAIN avatar /\ new \notin DOMAIN avatar => crops' = crops
      /\ old \in DOMAIN avatar /\ new \in DOMAIN avatar =>
            crops' = crops \ ({avatar[old]} \ {avatar[new]})
    BY DEF RenameAccount, Dropped
<1>4. MovedPosts(old, new)
    BY DEF RenameAccount, MovedPosts
<1>5. QED
    BY <1>1, <1>2, <1>3, <1>4 DEF Moved

\* Folding one name's row into a later name's.
LEMMA FacesRenamed ==
    ASSUME TypeOK, PersonInv, FacesInv, NEW old, NEW new,
           SamePerson(old, new), Earlier(old, new), RenameAccount(old, new),
           (\E b \in Accounts : new = name[b]) \/ <<old, new>> \in renames,
           UNCHANGED <<name, borne, crop, noting, pc>>, renames' \subseteq renames
    PROVE  FacesInv'
<1>0. Moved(old, new) /\ MovedPosts(old, new)
    BY FaceMoves
<1>1. old # new /\ \A a \in Accounts : old # name[a] /\ new # FirstName[a]
    BY DEF Earlier
<1>2. PICK o \in Accounts : old \in borne[o] /\ new \in borne[o]
    BY DEF SamePerson
<1>3. BorneInv /\ NamesInv
    BY DEF FacesInv, PersonInv
<1>4. \A a \in Accounts : a # o => borne[a] \cap {old, new} = {}
    BY <1>2, <1>3 DEF NamesInv
<1>5. PairsInv'
    BY <1>0 DEF MovedPosts, FacesInv, PairsInv, Earlier
<1>6. BorneInv'
    <2>1. \A n \in DOMAIN avatar' \cup crop' : \E a \in Accounts : n \in borne'[a]
        BY <1>0, <1>1, <1>2, <1>3 DEF Moved, BorneInv
    <2>2. ASSUME NEW a \in Accounts, NEW n \in DOMAIN avatar' \cap borne'[a]
          PROVE  avatar'[n] \in borne'[a]
        <3>1. CASE old \notin DOMAIN avatar
            BY <1>0, <1>1, <1>3, <3>1 DEF Moved, BorneInv
        <3>2. CASE old \in DOMAIN avatar /\ n \in DOMAIN avatar
            BY <1>0, <1>1, <1>3, <3>2 DEF Moved, BorneInv
        <3>3. CASE old \in DOMAIN avatar /\ n \notin DOMAIN avatar
            <4>1. n = new /\ avatar'[n] = avatar[old]
                BY <1>0, <1>1, <3>3 DEF Moved
            <4>2. a = o
                BY <1>4, <4>1
            <4>3. QED
                BY <1>2, <1>3, <3>3, <4>1, <4>2 DEF BorneInv
        <3>4. QED
            BY <3>1, <3>2, <3>3
    <2>3. QED
        BY <1>3, <2>1, <2>2 DEF BorneInv
<1>7. \A p \in DOMAIN stored' : p \in DOMAIN stored /\ stored'[p].user \in {stored[p].user, new}
                                /\ stored'[p].user # old
    <2>1. \A p \in DOMAIN stored : stored[p] \in Row
        BY TypeParts DEF StoredType
    <2>2. QED
        BY <1>0, <1>1, <2>1 DEF MovedPosts, Row
<1>8. ASSUME NEW a \in Accounts, a # o
      PROVE  AgeInv(a)' /\ (FilesInv(a) => FilesInv(a)')
    <2>1. borne[a] \cap {old, new} = {} /\ FirstName[a] \in borne[a] /\ name[a] \in borne[a]
        BY <1>3, <1>4, <1>8 DEF BorneInv, NamesInv
    <2>2. /\ Faced(a)' = Faced(a) /\ \A n \in Faced(a) : avatar'[n] = avatar[n]
          /\ \A n \in borne[a] : n \in DOMAIN avatar' <=> n \in DOMAIN avatar
        BY <1>0, <1>1, <2>1 DEF Moved, Faced
    <2>3. \A n \in borne[a] : n \in crops => n \in crops'
        <3>1. old \in DOMAIN avatar => avatar[old] \in borne[o]
            BY <1>2, <1>3 DEF BorneInv
        <3>2. old \in DOMAIN avatar => avatar[old] \notin borne[a]
            BY <1>3, <1>8, <3>1 DEF NamesInv
        <3>3. QED
            BY <1>0, <1>1, <3>2 DEF Moved
    <2>4. AgeInv(a)
        BY DEF FacesInv
    <2>5. AgeInv(a)'
        BY <1>7, <2>1, <2>2, <2>4 DEF AgeInv
    <2>6. \A n \in Faced(a) : avatar[n] \in borne[a]
        BY <1>3 DEF BorneInv, Faced
    <2>7. ASSUME FilesInv(a) PROVE FilesInv(a)'
        <3>1. name'[a] \in DOMAIN avatar' => avatar'[name[a]] \in crops'
            BY <2>1, <2>2, <2>3, <2>6, <2>7 DEF FilesInv, Faced
        <3>2. name'[a] \in crop' => name'[a] \in crops'
            BY <2>1, <2>3, <2>7 DEF FilesInv
        <3>3. name'[a] \notin DOMAIN avatar' \/ borne'[a] \subseteq {FirstName[a], name'[a]} =>
                /\ \A n \in Faced(a)' : avatar'[n] \in crops'
                /\ crop' \cap borne'[a] \subseteq crops'
            BY <2>1, <2>2, <2>3, <2>6, <2>7 DEF FilesInv
        <3>4. QED
            BY <3>1, <3>2, <3>3 DEF FilesInv
    <2>8. QED
        BY <2>5, <2>7
<1>9. AgeInv(o)'
    <2>1. AgeInv(o) /\ FirstName[o] \in borne[o] /\ new # FirstName[o]
        BY <1>1, <1>3 DEF FacesInv, BorneInv
    <2>2. CASE old \notin DOMAIN avatar
        <3>1. Faced(o)' = Faced(o) /\ avatar' = avatar
            BY <1>0, <1>1, <2>2 DEF Moved, Faced
        <3>2. QED
            BY <1>7, <2>1, <3>1 DEF AgeInv
    <2>3. CASE old \in DOMAIN avatar
        <3>1. /\ Faced(o)' = (Faced(o) \ {old}) \cup {new} /\ old \in Faced(o)
              /\ \A n \in Faced(o)' : avatar'[n] = IF n \in Faced(o) THEN avatar[n] ELSE avatar[old]
            BY <1>0, <1>1, <1>2, <2>3 DEF Moved, Faced
        <3>2. \A n \in Faced(o)' : /\ n = FirstName[o] => avatar'[n] = FirstName[o]
                                   /\ avatar'[n] = name[o] => n = name[o]
            BY <1>1, <2>1, <3>1 DEF AgeInv
        <3>3. FirstName[o] \in crop => \A n \in Faced(o)' : avatar'[n] = FirstName[o]
            BY <2>1, <3>1 DEF AgeInv
        <3>4. (\E n \in Faced(o)' : n # FirstName[o] /\ avatar'[n] = FirstName[o]) =>
                \A p \in DOMAIN stored' : stored'[p].user # FirstName[o]
            BY <1>7, <2>1, <3>1 DEF AgeInv
        <3>5. (FirstName[o] \in DOMAIN avatar' /\ \E r \in renames' : r[1] = FirstName[o]) =>
                \A n \in Faced(o)' : avatar'[n] = FirstName[o] => n = FirstName[o]
            <4>1. FirstName[o] \in DOMAIN avatar' => FirstName[o] \in DOMAIN avatar /\ old # FirstName[o]
                BY <1>0, <1>1, <2>1, <2>3 DEF Moved
            <4>2. QED
                BY <2>1, <3>1, <4>1 DEF AgeInv
        <3>6. QED
            BY <3>2, <3>3, <3>4, <3>5 DEF AgeInv
    <2>4. QED
        BY <2>2, <2>3
<1>10. ASSUME Cardinality(borne[o]) <= 3, FilesInv(o) PROVE FilesInv(o)'
    <2>1. /\ AgeInv(o) /\ FirstName[o] \in borne[o] /\ name[o] \in borne[o]
          /\ old # name[o] /\ new # FirstName[o] /\ borne[o] \in SUBSET Names
        BY <1>1, <1>3, TypeParts DEF FacesInv, BorneInv, NamesInv, WorldType
    <2>2. old = FirstName[o] \/ new = name[o]
        <3>1. FirstName[o] # name[o]
            BY <1>1, <1>2, <1>3 DEF BorneInv
        <3>2. QED
            BY <1>1, <1>2, <1>10, <2>1, <3>1, ThreeNames
    <2>3. \A n \in Faced(o) : avatar[n] \in borne[o]
        BY <1>3 DEF BorneInv, Faced
    <2>4. CASE old \notin DOMAIN avatar
        BY <1>0, <1>1, <1>10, <2>4 DEF Moved, FilesInv, Faced
    <2>5. CASE old \in DOMAIN avatar /\ new \notin DOMAIN avatar
        <3>1. /\ crops' = crops /\ Faced(o)' = (Faced(o) \ {old}) \cup {new} /\ old \in Faced(o)
              /\ \A n \in DOMAIN avatar' : avatar'[n] = IF n = new THEN avatar[old] ELSE avatar[n]
              /\ \A n \in DOMAIN avatar' : n # new => n \in DOMAIN avatar
              /\ \A n \in DOMAIN avatar : n # old => n \in DOMAIN avatar'
            BY <1>0, <1>1, <1>2, <2>5 DEF Moved, Faced
        <3>2. name[o] \in DOMAIN avatar' => avatar'[name[o]] \in crops'
            BY <1>10, <2>1, <2>5, <3>1 DEF FilesInv
        <3>3. name[o] \in crop => name[o] \in crops'
            BY <1>10, <3>1 DEF FilesInv
        <3>4. name[o] \notin DOMAIN avatar' \/ borne[o] \subseteq {FirstName[o], name[o]} =>
                /\ \A n \in Faced(o)' : avatar'[n] \in crops'
                /\ crop \cap borne[o] \subseteq crops'
            BY <1>10, <2>1, <3>1 DEF FilesInv, Faced
        <3>5. QED
            BY <3>2, <3>3, <3>4 DEF FilesInv
    <2>6. CASE old \in DOMAIN avatar /\ new \in DOMAIN avatar
        <3>1. /\ crops' = crops \ ({avatar[old]} \ {avatar[new]})
              /\ Faced(o)' = Faced(o) \ {old} /\ old \in Faced(o) /\ new \in Faced(o)
              /\ DOMAIN avatar' = DOMAIN avatar \ {old}
              /\ \A n \in DOMAIN avatar' : avatar'[n] = avatar[n]
            BY <1>0, <1>1, <1>2, <2>6 DEF Moved, Faced
        <3>2. avatar[old] # name[o]
            BY <2>1, <3>1 DEF AgeInv
        <3>3. name[o] \in DOMAIN avatar' => avatar'[name[o]] \in crops'
            <4>1. SUFFICES ASSUME name[o] \in DOMAIN avatar PROVE avatar[name[o]] \in crops'
                BY <3>1
            <4>2. avatar[name[o]] \in crops
                BY <1>10, <4>1 DEF FilesInv
            <4>3. CASE new = name[o]
                BY <3>1, <4>2, <4>3
            <4>4. CASE new # name[o]
                <5>1. old = FirstName[o] /\ <<old, new>> \in renames
                    <6>1. ASSUME NEW b \in Accounts, new = name[b] PROVE FALSE
                        BY <1>2, <1>3, <4>4, <6>1 DEF NamesInv
                    <6>2. QED
                        BY <2>2, <4>4, <6>1
                <5>2. avatar[old] = FirstName[o]
                    BY <2>1, <3>1, <5>1 DEF AgeInv
                <5>3. name[o] # FirstName[o] /\ name[o] \in Faced(o)
                    BY <2>1, <4>1, <5>1 DEF Faced
                <5>4. \E r \in renames : r[1] = FirstName[o]
                    <6>1. <<old, new>>[1] = FirstName[o]
                        BY <5>1
                    <6>2. QED
                        BY <5>1, <6>1
                <5>5. avatar[name[o]] # FirstName[o]
                    BY <2>1, <2>6, <5>1, <5>3, <5>4 DEF AgeInv
                <5>6. QED
                    BY <3>1, <4>2, <5>2, <5>5
            <4>5. QED
                BY <4>3, <4>4
        <3>4. name[o] \in crop => name[o] \in crops'
            BY <1>10, <3>1, <3>2 DEF FilesInv
        <3>5. ASSUME name[o] \notin DOMAIN avatar' \/ borne[o] \subseteq {FirstName[o], name[o]}
              PROVE  /\ \A n \in Faced(o)' : avatar'[n] \in crops'
                     /\ crop \cap borne[o] \subseteq crops'
            <4>1. /\ \A n \in Faced(o) : avatar[n] \in crops
                  /\ crop \cap borne[o] \subseteq crops
                BY <1>10, <2>1, <3>1, <3>5 DEF FilesInv
            <4>2. old = FirstName[o]
                BY <1>2, <2>1, <2>2, <2>6, <3>1, <3>5
            <4>3. avatar[old] = FirstName[o]
                BY <2>1, <3>1, <4>2 DEF AgeInv
            <4>4. Faced(o)' \subseteq {new, name[o]}
                <5>1. ASSUME NEW n \in Faced(o)', n \notin {new, name[o]} PROVE FALSE
                    <6>1. n \in borne[o] /\ n # old /\ n \in DOMAIN avatar'
                        BY <3>1, <5>1 DEF Faced
                    <6>2. CASE new = name[o]
                        BY <1>1, <2>1, <2>6, <3>1, <3>5, <4>2, <5>1, <6>1, <6>2
                    <6>3. CASE new # name[o]
                        BY <1>1, <1>2, <1>10, <2>1, <4>2, <5>1, <6>1, <6>3, ThreeNames
                    <6>4. QED
                        BY <6>2, <6>3
                <5>2. QED
                    BY <5>1
            <4>5. \A n \in Faced(o)' : n = new
                BY <2>1, <3>1, <3>5, <4>2, <4>4, <1>1, <1>2 DEF Faced
            <4>6. avatar[new] \in crops'
                BY <3>1, <4>1
            <4>7. crop \cap borne[o] \subseteq crops'
                <5>1. CASE FirstName[o] \in crop
                    <6>1. avatar[new] = FirstName[o]
                        BY <2>1, <3>1, <5>1 DEF AgeInv
                    <6>2. QED
                        BY <3>1, <4>1, <4>3, <6>1
                <5>2. CASE FirstName[o] \notin crop
                    BY <3>1, <4>1, <4>3, <5>2
                <5>3. QED
                    BY <5>1, <5>2
            <4>8. QED
                BY <3>1, <4>5, <4>6, <4>7 DEF Faced
        <3>6. QED
            BY <3>3, <3>4, <3>5 DEF FilesInv
    <2>7. QED
        BY <2>4, <2>5, <2>6
<1>11. QED
    BY <1>5, <1>6, <1>8, <1>9, <1>10 DEF FacesInv

\* A rename on Instagram: the new name is nobody's row's, file's or suspicion's.
LEMMA FacesNamed ==
    ASSUME TypeOK, PersonInv, FacesInv, NEW b \in Accounts, NEW new \in Names, Rename(b, new)
    PROVE  FacesInv'
<1>1. /\ UNCHANGED <<stored, avatar, crops, suspects, pc, crop, noting, renames>>
      /\ name' = [name EXCEPT ![b] = new] /\ borne' = [borne EXCEPT ![b] = @ \cup {new}]
      /\ \A a \in Accounts : new \notin borne[a]
    BY DEF Rename, faces, doubts, memory
<1>2. \A a \in Accounts : /\ name'[a] = IF a = b THEN new ELSE name[a]
                          /\ borne'[a] = IF a = b THEN borne[a] \cup {new} ELSE borne[a]
    BY <1>1, TypeParts DEF WorldType
<1>3. BorneInv /\ NamesInv /\ PairsInv /\ DoubtsInv
    BY DEF FacesInv, PersonInv
<1>4. /\ new \notin DOMAIN avatar /\ new \notin crop
      /\ \A a \in Accounts : new # FirstName[a]
      /\ \A a \in Accounts : \A n \in Faced(a) : avatar[n] # new
    BY <1>1, <1>3 DEF BorneInv, Faced
<1>5. PairsInv'
    <2>1. ASSUME NEW m, NEW n, Earlier(m, n), SamePerson(m, n) PROVE Earlier(m, n)'
        BY <1>1, <1>2, <2>1 DEF Earlier, SamePerson
    <2>2. QED
        BY <1>1, <1>3, <2>1 DEF PairsInv, DoubtsInv
<1>6. BorneInv'
    <2>1. \A a \in Accounts : /\ FirstName[a] \in borne'[a]
                              /\ name'[a] = FirstName[a] => borne'[a] = {FirstName[a]}
        BY <1>2, <1>3, <1>4 DEF BorneInv
    <2>2. \A n \in DOMAIN avatar' \cup crop' : \E a \in Accounts : n \in borne'[a]
        BY <1>1, <1>2, <1>3 DEF BorneInv
    <2>3. \A a \in Accounts : \A n \in DOMAIN avatar' \cap borne'[a] : avatar'[n] \in borne'[a]
        BY <1>1, <1>2, <1>3, <1>4 DEF BorneInv
    <2>4. QED
        BY <2>1, <2>2, <2>3 DEF BorneInv
<1>7. ASSUME NEW a \in Accounts PROVE Faced(a)' = Faced(a)
    BY <1>1, <1>2, <1>4 DEF Faced
<1>8. ASSUME NEW a \in Accounts PROVE AgeInv(a)'
    <2>1. AgeInv(a)
        BY DEF FacesInv
    <2>2. \A n \in Faced(a) : avatar[n] = name'[a] => n = name'[a]
        BY <1>2, <1>4, <2>1 DEF AgeInv
    <2>3. QED
        BY <1>1, <1>7, <2>1, <2>2 DEF AgeInv
<1>9. ASSUME NEW a \in Accounts, a # b, FilesInv(a) PROVE FilesInv(a)'
    <2>1. name'[a] = name[a] /\ borne'[a] = borne[a]
        BY <1>2, <1>9
    <2>2. QED
        BY <1>1, <1>7, <1>9, <2>1 DEF FilesInv
<1>10. ASSUME Cardinality(borne'[b]) <= 3 PROVE FilesInv(b)'
    <2>1. borne[b] \in SUBSET Names /\ IsFiniteSet(borne[b]) /\ borne'[b] = borne[b] \cup {new}
          /\ new \notin borne[b]
        BY <1>1, <1>2, AccountsAssumption, FS_Subset, TypeParts DEF WorldType
    <2>2. Cardinality(borne[b]) <= 3
        <3>1. Cardinality(borne[b]) \in Nat
            BY <2>1, FS_CardinalityType
        <3>2. Cardinality(borne[b] \cup {new}) = Cardinality(borne[b]) + 1
            BY <2>1, FS_AddElement
        <3>3. QED
            BY <1>10, <2>1, <3>1, <3>2
    <2>3. borne[b] \subseteq {FirstName[b], name[b]}
        <3>1. ASSUME NEW n \in borne[b], n \notin {FirstName[b], name[b]} PROVE FALSE
            <4>1. FirstName[b] \in borne[b] /\ name[b] \in borne[b] /\ FirstName[b] # name[b]
                BY <1>3, <3>1 DEF BorneInv, NamesInv
            <4>2. borne'[b] \in SUBSET Names
                BY <2>1
            <4>3. QED
                BY <1>10, <2>1, <3>1, <4>1, <4>2, ThreeNames
        <3>2. QED
            BY <3>1
    <2>4. /\ \A n \in Faced(b) : avatar[n] \in crops
          /\ crop \cap borne[b] \subseteq crops
        BY <2>2, <2>3 DEF FacesInv, FilesInv
    <2>5. name'[b] = new
        BY <1>2
    <2>6. QED
        BY <1>1, <1>4, <1>7, <2>1, <2>4, <2>5 DEF FilesInv
<1>11. QED
    BY <1>2, <1>5, <1>6, <1>8, <1>9, <1>10 DEF FacesInv

\* A file saved in the walk waits for its row under the name its account has.
LEMMA FacesSaved ==
    ASSUME TypeOK, PersonInv, FacesInv, NEW p, NEW b \in Accounts, SaveAvatar(p, b)
    PROVE  FacesInv'
<1>1. /\ UNCHANGED <<name, borne, stored, avatar, suspects, noting, renames>>
      /\ pc = "walk" /\ crop' = {name[b]} /\ crops' = crops \cup {name[b]}
    BY DEF SaveAvatar, Shown, instagram, doubts
<1>2. BorneInv /\ NamesInv /\ PairsInv
    BY DEF FacesInv, PersonInv
<1>3. PairsInv'
    BY <1>1, <1>2 DEF PairsInv, Earlier
<1>4. BorneInv'
    BY <1>1, <1>2 DEF BorneInv, NamesInv
<1>5. ASSUME NEW a \in Accounts PROVE AgeInv(a)' /\ (FilesInv(a) => FilesInv(a)')
    <2>1. AgeInv(a) /\ Faced(a)' = Faced(a)
        BY <1>1 DEF FacesInv, Faced
    <2>2. FirstName[a] \in crop' => \A n \in Faced(a) : avatar[n] = FirstName[a]
        <3>1. FirstName[a] = name[b] => a = b /\ borne[a] = {FirstName[a]}
            BY <1>2 DEF BorneInv, NamesInv
        <3>2. QED
            BY <1>1, <2>1, <3>1 DEF AgeInv, Faced
    <2>3. AgeInv(a)'
        BY <1>1, <2>1, <2>2 DEF AgeInv
    <2>4. FilesInv(a) => FilesInv(a)'
        BY <1>1, <2>1 DEF FilesInv
    <2>5. QED
        BY <2>3, <2>4
<1>6. QED
    BY <1>1, <1>3, <1>4, <1>5 DEF FacesInv

\* The row of the avatar at hand is written under the name the file was saved under,
\* which may be the account's no more.
LEMMA FacesWritten ==
    ASSUME TypeOK, PersonInv, FacesInv, UpsertAccount
    PROVE  FacesInv'
<1>1. /\ UNCHANGED <<name, borne, stored, crops, suspects, noting, renames>>
      /\ pc = "avatar" /\ crop' = {} /\ DOMAIN avatar' = DOMAIN avatar \cup crop
      /\ \A n \in DOMAIN avatar' : avatar'[n] = IF n \in crop THEN n ELSE avatar[n]
    BY DEF UpsertAccount, instagram, doubts
<1>2. BorneInv /\ NamesInv /\ PairsInv
    BY DEF FacesInv, PersonInv
<1>3. renames = {}
    BY <1>1, <1>2 DEF PairsInv
<1>4. PairsInv'
    BY <1>1, <1>2, <1>3 DEF PairsInv, Earlier
<1>5. BorneInv'
    BY <1>1, <1>2 DEF BorneInv
<1>6. ASSUME NEW a \in Accounts
      PROVE  AgeInv(a)' /\ (FilesInv(a) => FilesInv(a)')
    <2>1. /\ AgeInv(a) /\ Faced(a)' = Faced(a) \cup (crop \cap borne[a])
          /\ \A n \in Faced(a)' : avatar'[n] = IF n \in crop THEN n ELSE avatar[n]
        BY <1>1 DEF FacesInv, Faced
    <2>2. \A n \in Faced(a)' : /\ n = FirstName[a] => avatar'[n] = FirstName[a]
                               /\ avatar'[n] = name[a] => n = name[a]
        BY <2>1 DEF AgeInv
    <2>3. (\E n \in Faced(a)' : n # FirstName[a] /\ avatar'[n] = FirstName[a]) =>
            \A q \in DOMAIN stored : stored[q].user # FirstName[a]
        BY <2>1 DEF AgeInv
    <2>4. AgeInv(a)'
        BY <1>1, <1>3, <2>2, <2>3 DEF AgeInv
    <2>5. ASSUME FilesInv(a) PROVE FilesInv(a)'
        <3>1. name[a] \in DOMAIN avatar' => avatar'[name[a]] \in crops
            BY <1>1, <2>5 DEF FilesInv
        <3>2. name[a] \notin DOMAIN avatar' \/ borne[a] \subseteq {FirstName[a], name[a]} =>
                \A n \in Faced(a)' : avatar'[n] \in crops
            BY <1>1, <2>1, <2>5 DEF FilesInv, Faced
        <3>3. QED
            BY <1>1, <3>1, <3>2 DEF FilesInv
    <2>6. QED
        BY <2>4, <2>5
<1>7. QED
    BY <1>1, <1>4, <1>5, <1>6 DEF FacesInv

\* A post is stored under a name in use, which is no renamed account's first.
LEMMA FacesStored ==
    ASSUME TypeOK, PersonInv, FacesInv, NEW p, NEW b \in Accounts, StorePost(p, b)
    PROVE  FacesInv'
<1>1. /\ UNCHANGED <<name, borne, avatar, crops, crop, suspects, noting, renames, pc>>
      /\ DOMAIN stored' = DOMAIN stored \cup {p} /\ p \notin DOMAIN stored
      /\ stored'[p].user = name[b]
      /\ \A q \in DOMAIN stored : q # p => stored'[q] = stored[q]
    BY PostStored DEF StorePost, instagram, faces, doubts, memory
<1>2. PairsInv' /\ BorneInv'
    BY <1>1 DEF FacesInv, PairsInv, BorneInv, Earlier
<1>3. ASSUME NEW a \in Accounts PROVE AgeInv(a)' /\ (FilesInv(a) => FilesInv(a)')
    <2>1. AgeInv(a) /\ Faced(a)' = Faced(a)
        BY <1>1 DEF FacesInv, Faced
    <2>2. (\E n \in Faced(a) : n # FirstName[a]) => name[b] # FirstName[a]
        BY DEF FacesInv, BorneInv, PersonInv, NamesInv, Faced
    <2>3. (\E n \in Faced(a) : n # FirstName[a] /\ avatar[n] = FirstName[a]) =>
            \A q \in DOMAIN stored' : stored'[q].user # FirstName[a]
        BY <1>1, <2>1, <2>2 DEF AgeInv
    <2>4. AgeInv(a)'
        BY <1>1, <2>1, <2>3 DEF AgeInv
    <2>5. FilesInv(a) => FilesInv(a)'
        BY <1>1, <2>1 DEF FilesInv
    <2>6. QED
        BY <2>4, <2>5
<1>4. QED
    BY <1>1, <1>2, <1>3 DEF FacesInv

\* A suspicion leads from a stored name to the one its account has since.
LEMMA FacesSuspected ==
    ASSUME OneHead, TypeOK, PersonInv, FacesInv, NEW p \in Posts, NEW b \in Accounts, NEW q,
           NEW certain \in BOOLEAN, Suspect(p, b, q, certain)
    PROVE  FacesInv'
<1>1. /\ UNCHANGED <<name, borne, stored, avatar, crops, crop, suspects, renames>>
      /\ pc = "walk" /\ b \in Heads[p] /\ q \in DOMAIN stored /\ q = p
      /\ noting' = {<<stored[q].user, name[b], q>>} /\ stored[q].user # name[b]
    BY Suspected2 DEF Suspect, Shown, instagram, faces, doubts
<1>2. BorneInv /\ NamesInv /\ PairsInv
    BY DEF FacesInv, PersonInv
<1>3. stored[q].user \in borne[b] /\ name[b] \in borne[b]
    BY <1>1 DEF PersonInv, RowsInv, OneHead, NamesInv
<1>4. Earlier(stored[q].user, name[b])
    BY <1>1, <1>2, <1>3 DEF Earlier, BorneInv, NamesInv
<1>5. PairsInv'
    BY <1>1, <1>2, <1>4 DEF PairsInv, Earlier
<1>6. BorneInv' /\ \A a \in Accounts : AgeInv(a)' /\ (FilesInv(a) => FilesInv(a)')
    BY <1>1 DEF FacesInv, BorneInv, AgeInv, FilesInv, Faced
<1>7. QED
    BY <1>1, <1>5, <1>6 DEF FacesInv

\* A rename is confirmed while posts are still stored under the old name.
LEMMA FacesConfirmed ==
    ASSUME TypeOK, PersonInv, FacesInv, ReadRenames
    PROVE  FacesInv'
<1>1. /\ UNCHANGED <<name, borne, stored, avatar, crops, crop, suspects, noting>>
      /\ pc' = "finish" /\ renames' \subseteq Suspected
    BY DEF ReadRenames, instagram, faces, doubts, Confirmed
<1>2. \A r \in renames' : \E c \in suspects : /\ r[1] = c[1] /\ r[2] = c[2]
                                              /\ c[3] \in DOMAIN stored /\ stored[c[3]].user = c[1]
    BY <1>1 DEF Suspected
<1>3. PairsInv' /\ BorneInv'
    BY <1>1, <1>2 DEF FacesInv, PairsInv, BorneInv, Earlier
<1>4. ASSUME NEW a \in Accounts PROVE AgeInv(a)' /\ (FilesInv(a) => FilesInv(a)')
    <2>1. AgeInv(a) /\ Faced(a)' = Faced(a)
        BY <1>1 DEF FacesInv, Faced
    <2>2. (\E r \in renames' : r[1] = FirstName[a]) =>
            \A n \in Faced(a) : avatar[n] = FirstName[a] => n = FirstName[a]
        BY <1>2, <2>1 DEF AgeInv
    <2>3. AgeInv(a)'
        BY <1>1, <2>1, <2>2 DEF AgeInv
    <2>4. FilesInv(a) => FilesInv(a)'
        BY <1>1, <2>1 DEF FilesInv
    <2>5. QED
        BY <2>3, <2>4
<1>5. QED
    BY <1>1, <1>3, <1>4 DEF FacesInv

LEMMA FacesInvStep == ASSUME OneHead, TypeOK, PersonInv, FacesInv, [Next]_vars PROVE FacesInv'
<1>1. ASSUME NEW a \in Accounts, NEW n \in Names, Rename(a, n) PROVE FacesInv'
    BY <1>1, FacesNamed
<1>2. renames # {} => pc = "finish"
    BY DEF FacesInv, PairsInv
<1>3. ASSUME UNCHANGED <<name, borne, faces, stored, memory, doubts>>,
             pc' = pc \/ renames = {}
      PROVE  FacesInv'
    BY <1>2, <1>3, FacesKeep DEF faces, memory, doubts
<1>4. ASSUME NEW a \in Accounts, Unfollow(a) PROVE FacesInv'
    BY <1>3, <1>4 DEF Unfollow
<1>5. CASE UNCHANGED vars
    BY <1>3, <1>5 DEF vars, instagram
<1>6. CASE Refresh
    <2>1. /\ UNCHANGED <<name, borne, avatar, crops, crop, renames, suspects, noting, stored>>
          /\ pc # "finish"
        BY <1>6 DEF Refresh, StartRun, ScrapeList, ListFails, CountStored, StoreFollowing,
            ReadFilter, instagram, faces, memory, doubts
    <2>2. QED
        BY <1>2, <2>1, FacesKeep
<1>7. CASE Walk
    BY <1>7, FacesStored, FacesSaved, FacesSuspected DEF Walk
<1>8. CASE UpsertAccount
    BY <1>8, FacesWritten
<1>9. CASE ReadRenames
    BY <1>9, FacesConfirmed
<1>10. CASE NoteCandidate
    <2>1. /\ UNCHANGED <<name, borne, avatar, crops, crop, renames, stored>>
          /\ pc = "note" /\ suspects' = suspects \cup noting /\ noting' = {}
        BY <1>10 DEF NoteCandidate, instagram, faces
    <2>2. QED
        BY <1>2, <2>1, FacesKeep
<1>11. CASE EndRun
    <2>1. /\ UNCHANGED <<name, borne, avatar, crops, crop, renames, suspects, noting>>
          /\ renames = {} /\ \A p \in DOMAIN stored' : p \in DOMAIN stored /\ stored'[p] = stored[p]
        BY <1>11 DEF EndRun, instagram, faces, doubts
    <2>2. QED
        BY <2>1, FacesKeep
<1>12. CASE RunDies
    <2>1. /\ UNCHANGED <<name, borne, avatar, crops, suspects, stored>>
          /\ crop' = {} /\ noting' = {} /\ renames' = {}
        BY <1>12 DEF RunDies, instagram, faces, doubts
    <2>2. QED
        BY <2>1, FacesKeep
<1>13. CASE ApplyRename
    <2>1. PICK r \in renames : RenameAccount(r[1], r[2]) /\ renames' = renames \ {r}
        BY <1>13 DEF ApplyRename
    <2>2. r \in Names \X Names
        BY TypeParts DEF DoubtsType
    <2>3. <<r[1], r[2]>> \in renames
        BY <2>2
    <2>4. SamePerson(r[1], r[2]) /\ Earlier(r[1], r[2])
        BY DEF PersonInv, DoubtsInv, FacesInv, PairsInv
    <2>5. UNCHANGED <<name, borne, crop, noting, pc>>
        BY <1>13 DEF ApplyRename, instagram
    <2>6. QED
        BY <2>1, <2>3, <2>4, <2>5, FacesRenamed
<1>14. ASSUME NEW a \in Accounts, NEW old \in Names, CliRename(a, old) PROVE FacesInv'
    <2>1. /\ old \in borne[a] /\ old # name[a] /\ RenameAccount(old, name[a])
          /\ UNCHANGED <<name, borne, crop, noting, pc, renames>>
        BY <1>14 DEF CliRename, instagram, memory
    <2>2. SamePerson(old, name[a]) /\ Earlier(old, name[a])
        BY <2>1 DEF PersonInv, NamesInv, SamePerson, FacesInv, BorneInv, Earlier
    <2>3. QED
        BY <2>1, <2>2, FacesRenamed
<1>15. CASE AcceptRead \/ AcceptStore
    BY <1>3, <1>15 DEF AcceptRead, AcceptStore, instagram
<1>16. ASSUME NEW r \in Suspected, Dismiss(r) PROVE FacesInv'
    <2>1. /\ UNCHANGED <<name, borne, avatar, crops, crop, renames, noting, stored, pc>>
          /\ suspects' \subseteq suspects
        BY <1>16 DEF Dismiss, instagram, faces, memory
    <2>2. QED
        BY <1>2, <2>1, FacesKeep
<1>17. QED
    BY <1>1, <1>4, <1>5, <1>6, <1>7, <1>8, <1>9, <1>10, <1>11, <1>12, <1>13, <1>14, <1>15, <1>16
    DEF Next, World, Finish, Cli

\* Where no post is shared, the avatar of an account under the name it has, up to its
\* third, is on disk, whatever renames are applied or typed, in whichever order and
\* however late a row is written (rename_account, upsert_account).
THEOREM AvatarsStay == ASSUME OneHead PROVE Spec => []AvatarOnDisk
<1>1. FacesInv => AvatarOnDisk
    BY DEF FacesInv, FilesInv, AvatarOnDisk
<1>2. TypeOK /\ PersonInv /\ FacesInv /\ [Next]_vars => FacesInv'
    BY FacesInvStep
<1>3. TypeOK /\ PersonInv /\ [Next]_vars => PersonInv'
    BY PersonStep
<1>4. QED
    BY <1>1, <1>2, <1>3, FacesInit, PersonInit, TypeCorrect, PTL DEF Spec
=============================================================================
