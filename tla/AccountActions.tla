--------------------------- MODULE AccountActions ---------------------------
(***************************************************************************)
(* The service calls that remove and create things in the account: other   *)
(* people's devices and push registrations, temporary guest links, shared  *)
(* accesses and invitations (services.py, authorized_devices.py,           *)
(* fcm_sessions.py, guest_store.py).  Several calls run at once; each reads *)
(* who owns what, lists, picks its targets, sends its requests one by one  *)
(* and looks again.  Meanwhile phones log in and out, guests accept, links *)
(* expire, and the entries register their own device.                      *)
(*                                                                         *)
(* A device id stands for its opaque reference, a link for its token.  A   *)
(* request and its answer are one step.                                    *)
(***************************************************************************)
EXTENDS Naturals, FiniteSets, Sequences, SequencesExt

CONSTANTS
  Calls,             \* service calls
  Entries,           \* config entries of the account
  IdsOf,             \* IdsOf[e]: device ids entry e may come up with
  NoDevice,              \* no device id
  Phones,            \* devices of other installations
  Links, Grants,     \* temporary guest links, accepted shared accesses
  Invites,           \* invitation URLs the server may issue
  Account,           \* the scope of devices
  ScopeOf,           \* the intercom of each link, grant and invitation
  MaxStoredInvites,  \* MAX_STORED_INVITES
  MaxRestarts        \* bound: restarts of Home Assistant

OwnIds == UNION {IdsOf[e] : e \in Entries}
Devices == Phones \cup OwnIds
Items == Devices \cup Links \cup Grants

ASSUME ItemsAssumption ==
  /\ \A e, f \in Entries : e # f => IdsOf[e] \cap IdsOf[f] = {}
  /\ NoDevice \notin Items /\ OwnIds \cap Phones = {}
  /\ Devices \cap (Links \cup Grants) = {} /\ Items \cap Invites = {}
  /\ IsFiniteSet(Items)
ASSUME InvitesAssumption == MaxStoredInvites \in Nat \ {0} /\ MaxRestarts \in Nat

Scope(i) == IF i \in Devices THEN Account ELSE ScopeOf[i]

VARIABLES
  proven,     \* the id that entry's manager or else its store names
  withdrawing,    \* the entries that are having their registration removed
  remote,     \* what is registered or valid at Ufanet
  call,       \* each service call, see Idle
  removed,    \* what the requests of each call have removed (history)
  back,       \* targets of each call that have come back since (history)
  late,       \* devices of entries that registered after each call had asked what
              \* the entry owns, and before it listed the devices (history)
  memory,     \* the invite store's list, newest first
  saved,      \* what is on disk
  issued,     \* invitations in the order they were stored (history)
  forgotten,  \* invitations the user has forgotten and that were not saved since (history)
  restarts

own == <<proven, withdrawing>>
accountVars ==
  <<own, remote, call, removed, back, late, memory, saved, issued, forgotten, restarts>>
accountHistory == <<removed, back, late>>
inviteVars == <<memory, saved, issued, forgotten>>

-----------------------------------------------------------------------------
(* The handlers.  "one" removes the given item, "others" everything that is *)
(* not Home Assistant's if the count is the confirmed one; an unregistration *)
(* is answered with what is still listed instead of being verified.        *)

ListFcmSessions == [class |-> Devices, act |-> "list", verified |-> FALSE]
RevokeFcmSession == [class |-> Devices, act |-> "one", verified |-> TRUE]
RevokeOtherFcmSessions == [class |-> Devices, act |-> "others", verified |-> TRUE]

ListAuthorizedDevices == ListFcmSessions
RevokeAuthorizedDevice == RevokeFcmSession
RevokeOtherAuthorizedDevices == RevokeOtherFcmSessions
ListFcmRegistrations == ListFcmSessions
UnregisterFcmRegistration == [class |-> Devices, act |-> "one", verified |-> FALSE]
UnregisterOtherFcmRegistrations == [class |-> Devices, act |-> "others", verified |-> FALSE]

GetGuestAccess == [class |-> Links \cup Grants, act |-> "list", verified |-> FALSE]
CreateTemporaryGuestLink == [class |-> Links, act |-> "create", verified |-> FALSE]
RevokeTemporaryGuestLink == [class |-> Links, act |-> "one", verified |-> TRUE]
RevokeSharedAccess == [class |-> Grants, act |-> "one", verified |-> TRUE]
CreateGuestInvite == [class |-> Invites, act |-> "invite", verified |-> FALSE]
ForgetGuestInvite == [class |-> Invites, act |-> "forget", verified |-> FALSE]

Handlers ==
  {ListFcmSessions, RevokeFcmSession, RevokeOtherFcmSessions,
   ListAuthorizedDevices, RevokeAuthorizedDevice, RevokeOtherAuthorizedDevices,
   ListFcmRegistrations, UnregisterFcmRegistration, UnregisterOtherFcmRegistrations,
   GetGuestAccess, CreateTemporaryGuestLink, RevokeTemporaryGuestLink,
   RevokeSharedAccess, CreateGuestInvite, ForgetGuestInvite}

Idle == [do |-> ListFcmSessions, at |-> Account, ref |-> NoDevice, count |-> 0, pc |-> "idle",
         unread |-> {}, spared |-> {}, targets |-> {}, todo |-> {}, result |-> "none"]

\* Where a call goes on, and how it ends.
Goes(c, pc) == call' = [call EXCEPT ![c].pc = pc]
Ends(c, result) ==
  call' = [call EXCEPT ![c] =
    IF result \in {"refused", "listed"} THEN [Idle EXCEPT !.pc = "done", !.result = result]
    ELSE [call[c] EXCEPT !.pc = "done", !.result = result,
                         !.unread = {}, !.spared = {}, !.todo = {}]]

\* Targets of running or finished calls that these items bring back.
CameBack(items) ==
  back' = [c \in Calls |-> back[c] \cup (items \cap call[c].targets)]

AccountInit ==
  /\ proven = [e \in Entries |-> NoDevice] /\ withdrawing = {}
  /\ remote \in {Phones, Phones \cup Links \cup Grants}
  /\ call = [c \in Calls |-> Idle]
  /\ removed = [c \in Calls |-> {}] /\ back = [c \in Calls |-> {}]
  /\ late = [c \in Calls |-> {}]
  /\ memory = <<>> /\ saved = <<>> /\ issued = <<>> /\ forgotten = {}
  /\ restarts = 0

-----------------------------------------------------------------------------
(* A call.                                                                 *)

\* A reference comes from a list, so an entry's own device has one once it is registered.
Call(c) ==
  /\ call[c].pc = "idle"
  /\ \E h \in Handlers :
       LET ofDevices == h.class = Devices IN
       \E at \in IF ofDevices THEN {Account} ELSE {ScopeOf[i] : i \in DOMAIN ScopeOf},
          ref \in IF h.act \in {"one", "forget"} THEN h.class ELSE {NoDevice},
          n \in IF h.act = "others" THEN 1..Cardinality(Phones) ELSE {0} :
         /\ ref \in OwnIds => ref \in remote
         /\ call' = [call EXCEPT ![c] =
              [Idle EXCEPT !.do = h, !.at = at, !.ref = ref, !.count = n,
                           !.unread = IF ofDevices THEN Entries ELSE {},
                           !.pc = CASE ofDevices -> "owners"
                                    [] h.act \in {"create", "invite", "forget"} -> h.act
                                    [] OTHER -> "list"]]
  /\ UNCHANGED <<own, remote, accountHistory, inviteVars, restarts>>

\* A faulty ReadOwner, which looks at the first entry only.
ReadOneOwner(c) ==
  /\ call[c].pc = "owners"
  /\ \E e \in call[c].unread :
       call' = [call EXCEPT
         ![c].unread = {},
         ![c].spared = {proven[e]} \ {NoDevice},
         ![c].pc = "list"]
  /\ UNCHANGED <<own, remote, accountHistory, inviteVars, restarts>>

\* async_owned_fcm_device_ids_for_account, one entry after the other: the id of
\* the manager or else of the store.
ReadOwner(c) ==
  /\ call[c].pc = "owners"
  /\ \E e \in call[c].unread :
       call' = [call EXCEPT
         ![c].unread = @ \ {e},
         ![c].spared = @ \cup ({proven[e]} \ {NoDevice}),
         ![c].pc = IF call[c].unread = {e} THEN "list" ELSE "owners"]
  /\ UNCHANGED <<own, remote, accountHistory, inviteVars, restarts>>

\* A store cannot be read, a list request fails, its answer is not valid.
IsRefused(c) ==
  /\ call[c].pc \in {"owners", "list"}
  /\ Ends(c, "refused")
  /\ UNCHANGED <<own, remote, accountHistory, inviteVars, restarts>>

\* What the call's list request shows it and it may remove.
Free(c) == {i \in remote \cap call[c].do.class : Scope(i) = call[c].at} \ call[c].spared

\* resolve_authorized_session and its likes, the protection and the count.
Chosen(c) ==
  CASE call[c].do.act = "one"    -> Free(c) \cap {call[c].ref}
    [] call[c].do.act = "others" -> IF Cardinality(Free(c)) = call[c].count
                                    THEN Free(c) ELSE {}
    [] OTHER                     -> {}

Listed(c) ==
  /\ call[c].pc = "list"
  /\ IF Chosen(c) = {}
     THEN Ends(c, IF call[c].do.act = "list" THEN "listed" ELSE "refused")
     ELSE call' = [call EXCEPT ![c].targets = Chosen(c), ![c].todo = Chosen(c),
                               ![c].pc = "remove"]
  /\ UNCHANGED <<own, remote, accountHistory, inviteVars, restarts>>

\* One request of the call is carried out, or has no effect, and is answered.
Ask(c) ==
  /\ call[c].pc = "remove"
  /\ \E i \in call[c].todo :
       /\ \/ /\ remote' = remote \ {i}
             /\ removed' = [removed EXCEPT ![c] = @ \cup {i}]
          \/ UNCHANGED <<remote, removed>>
       /\ call' = [call EXCEPT ![c].todo = @ \ {i},
                               ![c].pc = IF call[c].todo = {i} THEN "verify" ELSE @]
  /\ UNCHANGED <<own, back, late, inviteVars, restarts>>

\* One request fails, or only its answer does.
AskFails(c) ==
  /\ call[c].pc = "remove"
  /\ \E i \in call[c].todo :
       \/ /\ remote' = remote \ {i}
          /\ removed' = [removed EXCEPT ![c] = @ \cup {i}]
       \/ UNCHANGED <<remote, removed>>
  /\ Ends(c, "failed")
  /\ UNCHANGED <<own, back, late, inviteVars, restarts>>

\* A faulty Verify, which takes the answers of the requests for the proof.
VerifyNothing(c) ==
  /\ call[c].pc = "verify"
  /\ Ends(c, IF call[c].do.verified THEN "revoked" ELSE "answered")
  /\ UNCHANGED <<own, remote, accountHistory, inviteVars, restarts>>

\* The list after the requests.  A bulk revocation also reads the owners again,
\* which may fail.
Verify(c) ==
  /\ call[c].pc = "verify"
  /\ \/ Ends(c, "failed")
     \/ Ends(c, IF ~call[c].do.verified THEN "answered"
                ELSE IF call[c].targets \cap remote = {} THEN "revoked" ELSE "unverified")
     \/ call[c].do = RevokeOtherFcmSessions /\ Ends(c, "unverified")
  /\ UNCHANGED <<own, remote, accountHistory, inviteVars, restarts>>

\* The link is created; the list that completes the answer, or the answer
\* itself, may fail.
CreateLink(c) ==
  /\ call[c].pc = "create"
  /\ \/ \E l \in Links \ remote :
          /\ ScopeOf[l] = call[c].at
          /\ remote' = remote \cup {l}
          /\ CameBack({l})
     \/ UNCHANGED <<remote, back>>
  /\ Ends(c, "failed") \/ (remote' # remote /\ Ends(c, "answered"))
  /\ UNCHANGED <<own, removed, late, inviteVars, restarts>>

\* async_add: a URL that is known is not stored again.
Added(list, i) ==
  IF i \in ToSet(list) THEN list
  ELSE SubSeq(<<i>> \o list, 1, IF Len(list) < MaxStoredInvites THEN Len(list) + 1
                                ELSE MaxStoredInvites)

Invite(c) ==
  /\ call[c].pc = "invite"
  /\ \/ \E i \in Invites :
          /\ ScopeOf[i] = call[c].at
          /\ memory' = Added(memory, i)
          /\ IF i \in ToSet(memory)
             THEN Ends(c, "answered") /\ UNCHANGED issued
             ELSE /\ call' = [call EXCEPT ![c] = [@ EXCEPT !.pc = "save", !.ref = i]]
                  /\ issued' = Append(issued, i)
     \/ Ends(c, "failed") /\ UNCHANGED <<memory, issued>>
  /\ UNCHANGED <<own, remote, accountHistory, saved, forgotten, restarts>>

\* async_remove: of the one record with the id, if it is one of this intercom.
ForgetInvite(c) ==
  /\ call[c].pc = "forget"
  /\ LET places == {k \in DOMAIN memory : memory[k] = call[c].ref /\ ScopeOf[memory[k]] = call[c].at} IN
     \/ places = {} /\ Ends(c, "refused") /\ UNCHANGED <<memory, forgotten>>
     \/ \E k \in places :
          /\ memory' = RemoveAt(memory, k)
          /\ Goes(c, "save") /\ forgotten' = forgotten \cup {call[c].ref}
  /\ UNCHANGED <<own, remote, accountHistory, saved, issued, restarts>>

\* The write that ends last writes the list as it was last handed over, which
\* is the list as it is.
Save(c) ==
  /\ call[c].pc = "save"
  /\ saved' = memory /\ forgotten' = forgotten \ ToSet(memory)
  /\ Ends(c, "saved")
  /\ UNCHANGED <<own, remote, accountHistory, memory, issued, restarts>>

-----------------------------------------------------------------------------
(* The rest of the world.                                                  *)

\* Home Assistant restarts: calls die, and the invite store is loaded again.
HostRestarts ==
  /\ restarts < MaxRestarts
  /\ restarts' = restarts + 1
  /\ call' = [c \in Calls |-> IF call[c].pc \in {"idle", "done"} THEN call[c]
                              ELSE [Idle EXCEPT !.pc = "done", !.result = "lost"]]
  /\ removed' = [c \in Calls |-> IF call'[c].result = "lost" THEN {} ELSE removed[c]]
  /\ back' = [c \in Calls |-> IF call'[c].result = "lost" THEN {} ELSE back[c]]
  /\ late' = [c \in Calls |-> IF call'[c].result = "lost" THEN {} ELSE late[c]]
  /\ memory' = saved
  /\ UNCHANGED <<own, remote, saved, issued, forgotten>>

\* A phone logs in, a guest accepts an invitation.
Appears ==
  /\ \E i \in (Phones \cup Grants) \ remote :
       remote' = remote \cup {i} /\ CameBack({i})
  /\ UNCHANGED <<own, call, removed, late, inviteVars, restarts>>

\* A phone logs out, a link expires, an access is given up.
Disappears ==
  /\ \E i \in remote \ OwnIds : remote' = remote \ {i}
  /\ UNCHANGED <<own, call, accountHistory, inviteVars, restarts>>

\* What an entry does with its own device, see OwnDevice and FcmRegistration.
NamesItself(e) ==
  /\ remote \cap IdsOf[e] = {}
  /\ proven' \in {[proven EXCEPT ![e] = id] : id \in IdsOf[e] \cup {NoDevice}}
  /\ UNCHANGED <<withdrawing, remote, call, accountHistory, inviteVars, restarts>>

\* The call has asked what e owns, was not told of this device, and has not listed yet.
HasMissed(c, e) ==
  /\ call[c].do.class = Devices /\ call[c].pc \in {"owners", "list"}
  /\ e \notin call[c].unread /\ proven[e] \notin call[c].spared

Registers(e) ==
  /\ proven[e] # NoDevice /\ remote \cap IdsOf[e] = {}
  /\ remote' = remote \cup {proven[e]}
  /\ CameBack({proven[e]})
  /\ late' = [c \in Calls |-> late[c] \cup IF HasMissed(c, e) THEN {proven[e]} ELSE {}]
  /\ UNCHANGED <<own, call, removed, inviteVars, restarts>>

Withdraws(e) ==
  /\ withdrawing' \in {withdrawing \cup {e}, withdrawing \ {e}}
  /\ remote' \in {remote} \cup IF e \in withdrawing THEN {remote \ IdsOf[e]} ELSE {}
  /\ withdrawing' = withdrawing \/ remote' = remote
  /\ UNCHANGED <<proven, call, accountHistory, inviteVars, restarts>>

\* Home Assistant died before the id was stored: the device is one of other
\* installations from then on, and those the phones stand for.
IsLost(e) ==
  /\ proven' = [proven EXCEPT ![e] = NoDevice]
  /\ remote' = remote \ IdsOf[e]
  /\ withdrawing' = withdrawing \ {e}
  /\ UNCHANGED <<call, accountHistory, inviteVars, restarts>>

Environment ==
  \/ HostRestarts \/ Appears \/ Disappears
  \/ \E e \in Entries : NamesItself(e) \/ Registers(e) \/ Withdraws(e) \/ IsLost(e)

Serve(c) ==
  \/ Call(c) \/ ReadOwner(c) \/ IsRefused(c) \/ Listed(c)
  \/ Ask(c) \/ AskFails(c) \/ Verify(c)
  \/ CreateLink(c) \/ Invite(c) \/ ForgetInvite(c) \/ Save(c)

AccountNext == Environment \/ \E c \in Calls : Serve(c)

AccountSpec == AccountInit /\ [][AccountNext]_accountVars

-----------------------------------------------------------------------------
(* Properties.                                                             *)

CallRecord ==
  [do : Handlers, at : {Account} \cup {ScopeOf[i] : i \in DOMAIN ScopeOf},
   ref : Items \cup Invites \cup {NoDevice}, count : 0..Cardinality(Phones),
   pc : {"idle", "owners", "list", "remove", "verify", "create", "invite", "forget",
         "save", "done"},
   unread : SUBSET Entries, spared : SUBSET OwnIds, targets : SUBSET Items,
   todo : SUBSET Items,
   result : {"none", "refused", "listed", "failed", "answered", "revoked", "unverified",
             "saved", "lost"}]

CallsTypeOK ==
  /\ proven \in [Entries -> OwnIds \cup {NoDevice}]
  /\ \A e \in Entries : proven[e] \in IdsOf[e] \cup {NoDevice}
  /\ remote \subseteq Items /\ withdrawing \subseteq Entries
  /\ call \in [Calls -> CallRecord]
  /\ removed \in [Calls -> SUBSET Items] /\ back \in [Calls -> SUBSET Items]
  /\ late \in [Calls -> SUBSET OwnIds]

AccountTypeOK ==
  /\ CallsTypeOK
  /\ {memory, saved, issued} \subseteq Seq(Invites)
  /\ Len(memory) <= MaxStoredInvites /\ Len(saved) <= MaxStoredInvites
  /\ forgotten \subseteq Invites /\ restarts \in 0..MaxRestarts

\* A call removes nothing but the one thing it was asked for, or no more things
\* than were confirmed, all in its scope; one that was refused has removed
\* nothing, whatever changed in the account since the user saw the list
\* (services.py:307-396, 1048-1190; authorized_devices.py:217-390).
RemovalsAreConfirmed ==
  \A c \in Calls :
    /\ call[c].do.act = "one" => removed[c] \subseteq {call[c].ref}
    /\ call[c].do.act = "others" => Cardinality(removed[c]) <= call[c].count
    /\ \A i \in removed[c] : i \in call[c].do.class /\ Scope(i) = call[c].at
    /\ call[c].result \in {"refused", "listed"} => removed[c] = {}

\* What a call reports as revoked is gone, or has come back after the call
\* chose it (services.py:321-335, 355-372; authorized_devices.py:236-250).
RevokedMeansGone ==
  \A c \in Calls :
    call[c].result = "revoked" => call[c].targets \cap remote \subseteq back[c]

\* An invitation whose call has answered survives a restart, unless the user
\* forgot it or MAX_STORED_INVITES newer ones came (guest_store.py:48-73).
FollowedBy(i, count) ==
  \E n \in 1..Len(issued) : issued[n] = i /\ Len(issued) - n >= count

Kept(i, list) == i \in ToSet(list) \cup forgotten \/ FollowedBy(i, MaxStoredInvites)

AnsweredInvitesSurvive ==
  \A c \in Calls :
    call[c].result = "saved" /\ call[c].do = CreateGuestInvite => Kept(call[c].ref, saved)

-----------------------------------------------------------------------------
(* Why removals are confirmed, what is revoked is gone, and own devices are *)
(* spared that did not register between two reads of a call.               *)

\* What is registered for an entry is what it names.
OwnDevicesAreNamed == \A e \in Entries : remote \cap IdsOf[e] \subseteq {proven[e]}

\* A call that is about to list the devices has read whose they are, but for the late.
OwnersAreRead(c) ==
  /\ call[c].pc = "owners" => call[c].do.class = Devices
  /\ call[c].pc = "list" => call[c].unread = {}
  /\ call[c].pc \in {"owners", "list"} /\ call[c].do.class = Devices =>
       \A e \in Entries \ call[c].unread : remote \cap IdsOf[e] \subseteq call[c].spared \cup late[c]

\* What a call chooses was asked for or confirmed, and is nobody's own device, but a late one.
TargetsAreConfirmed(c) ==
  LET targets == call[c].targets IN
  /\ call[c].todo \cup removed[c] \subseteq targets /\ targets \cap OwnIds \subseteq late[c]
  /\ \A i \in targets : i \in call[c].do.class /\ Scope(i) = call[c].at
  /\ call[c].do.act = "one" => targets \subseteq {call[c].ref}
  /\ call[c].do.act = "others" => Cardinality(targets) <= call[c].count
  /\ call[c].pc \notin {"remove", "verify", "done"} \/ call[c].result \in {"refused", "listed", "lost"}
       => targets = {}
  /\ call[c].result # "none" => call[c].pc = "done"

\* The place of an invitation in a list shows how many are newer; what is answered or
\* being saved is not only on disk but in memory, too, from which the disk is written.
InvitesAreKept ==
  /\ \A list \in {memory, saved} : \A k \in 1..Len(list) : FollowedBy(list[k], k - 1)
  /\ \A c \in Calls :
       call[c].do = CreateGuestInvite /\ (call[c].pc = "save" \/ call[c].result = "saved")
         => Kept(call[c].ref, memory)

AccountInv ==
  /\ AccountTypeOK /\ OwnDevicesAreNamed
  /\ \A c \in Calls : OwnersAreRead(c) /\ TargetsAreConfirmed(c)
  /\ RemovalsAreConfirmed /\ AnsweredInvitesSurvive /\ InvitesAreKept

\* No service call takes away the device of an entry, however calls, registrations and
\* restarts interleave (fcm_sessions.py:142-180).  Excepted is exactly a device that
\* registered after this call had asked its entry what it owns and before it listed.
OwnOf(e) == INSTANCE OwnDevice WITH
  OwnIds <- IdsOf[e], NoId <- NoDevice, present <- TRUE, proven <- proven[e],
  withUfanet <- remote \cap IdsOf[e], givingUp <- e \in withdrawing

TakesLate(c) ==
  \E i \in late[c] : remote' = remote \ {i} /\ removed'[c] = removed[c] \cup {i}

OwnDevicesAreSpared ==
  [][\A e \in Entries :
       \/ OwnOf(e)!OwnNext \/ UNCHANGED OwnOf(e)!ownVars
       \/ \E c \in Calls : TakesLate(c)]_accountVars
=============================================================================
