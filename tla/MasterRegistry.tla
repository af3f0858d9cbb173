--------------------------- MODULE MasterRegistry ---------------------------
(***************************************************************************)
(* runtime/registry.ts: who owns one logical agent (the global master, or  *)
(* the local master of a repository).                                      *)
(*                                                                         *)
(* Every session is a process of its own, and all of them work on the same *)
(* few files, so the unit of interleaving is one file operation:           *)
(*   attachment  registry/attachments/<agent>.json, the owner record;      *)
(*   lease       registry/.lease, the lock around read-modify-write;       *)
(*   handoff     registry/handoff/<agent>.json, the last issued token;     *)
(*   window      registry/transfer-window/<agent>.json is present and      *)
(*               younger than its 24 h.                                    *)
(* Ages are Booleans that may turn at any time: stale is a heartbeat older *)
(* than 10 min, old a lease older than 30 s, expired a token older than    *)
(* 24 h.  A token's random string is modelled by the record that the file  *)
(* stores with it: issuer, issuer's generation and a nonce.                *)
(***************************************************************************)
EXTENDS Naturals, FiniteSets

CONSTANTS
  Sessions,         \* session ids, one process each
  NoSession,        \* "no such file" in an owner or holder field
  Nonces,           \* values a token's random part can take
  MaxGeneration,    \* bound on the generations explored
  MaxTokens,        \* bound on the tokens issued
  LeaseMayAge,      \* may a lease left behind by a crash pass its 30 s?
  HeartbeatCallers  \* sessions that call heartbeatMaster

ASSUME RegistryAssumption ==
  /\ NoSession \notin Sessions
  /\ MaxGeneration \in Nat
  /\ MaxTokens \in Nat
  /\ LeaseMayAge \in BOOLEAN
  /\ HeartbeatCallers \subseteq Sessions

VARIABLES
  attachment, lease, handoff, window,
  alive,    \* the process of the session runs
  pc,       \* next file operation of the session's current call
  call,     \* the call's arguments
  seen,     \* the attachment the call has read
  issued,   \* history: tokens handed out
  granted,  \* history: <<g, s>> when a call told s that it owns generation g
  spent     \* history: <<token, g, s>> when token bought generation g for s

registryVars == <<attachment, lease, handoff, window, alive, pc, call, seen,
                  issued, granted, spent>>

Owners == Sessions \cup {NoSession}

Tokens == [from : Sessions, generation : Nat, nonce : Nonces]
NoToken == [from |-> NoSession, generation |-> 0, nonce |-> 0]

Attachments == [session : Owners, generation : Nat, stale : BOOLEAN]
Leases == [by : Owners, old : BOOLEAN]
Handoffs == [token : Tokens \cup {NoToken}, expired : BOOLEAN]

NoAttachment == [session |-> NoSession, generation |-> 0, stale |-> FALSE]
NoLease == [by |-> NoSession, old |-> FALSE]
NoHandoff == [token |-> NoToken, expired |-> FALSE]

\* The ways into the registry's read-modify-write: attachMaster with neither
\* token nor force ("refresh"), with a token, with forceStale; takeoverMaster.
Calls == [kind : {"none", "refresh", "force", "takeover"}, token : {NoToken},
          human : BOOLEAN]
           \cup [kind : {"token"}, token : Tokens, human : {FALSE}]
NoCall == [kind |-> "none", token |-> NoToken, human |-> FALSE]

UnderLease == {"decide", "bump", "renew", "release", "unlink"}
Labels == {"idle", "create", "lease", "steal", "detach", "heartbeat"} \cup UnderLease

TypeOK ==
  /\ attachment \in Attachments
  /\ lease \in Leases
  /\ handoff \in Handoffs
  /\ window \in BOOLEAN
  /\ alive \in [Sessions -> BOOLEAN]
  /\ pc \in [Sessions -> Labels]
  /\ call \in [Sessions -> Calls]
  /\ seen \in [Sessions -> Attachments]
  /\ issued \subseteq Tokens
  /\ granted \subseteq Nat \X Sessions
  /\ spent \subseteq Tokens \X Nat \X Sessions

RegistryInit ==
  /\ attachment = NoAttachment
  /\ lease = NoLease
  /\ handoff = NoHandoff
  /\ window = FALSE
  /\ alive = [s \in Sessions |-> TRUE]
  /\ pc = [s \in Sessions |-> "idle"]
  /\ call = [s \in Sessions |-> NoCall]
  /\ seen = [s \in Sessions |-> NoAttachment]
  /\ issued = {}
  /\ granted = {}
  /\ spent = {}

-----------------------------------------------------------------------------
(* Steps of a call *)

Exists(a) == a.generation > 0

SameOwner(a, b) == a.session = b.session /\ a.generation = b.generation

At(s, label) == alive[s] /\ pc[s] = label

Goto(s, label) == pc' = [pc EXCEPT ![s] = label]

\* The call returns: its locals are gone.
Return(s) ==
  /\ Goto(s, "idle")
  /\ call' = [call EXCEPT ![s] = NoCall]
  /\ seen' = [seen EXCEPT ![s] = NoAttachment]

\* The call goes on at label with the attachment it has just read.
ReadThenGoto(s, label) ==
  /\ Goto(s, label)
  /\ seen' = [seen EXCEPT ![s] = attachment]

\* attachMaster: first read.  A token never creates an attachment.
AttachRead(s) ==
  /\ At(s, "idle")
  /\ \E kind \in {"refresh", "token", "force"}, human \in BOOLEAN,
        token \in issued \cup {NoToken} :
       /\ (kind = "token") <=> (token # NoToken)
       /\ human => kind = "force"
       /\ kind = "token" => Exists(attachment)
       /\ call' = [call EXCEPT ![s] = [kind |-> kind, token |-> token, human |-> human]]
  /\ ReadThenGoto(s, IF Exists(attachment) THEN "lease" ELSE "create")
  /\ UNCHANGED <<attachment, lease, handoff, window, alive, issued, granted, spent>>

\* Mutant of CreateGenesis: the create is not exclusive.
CreateGenesisOverwrites(s) ==
  /\ At(s, "create")
  /\ attachment' = [session |-> s, generation |-> 1, stale |-> FALSE]
  /\ granted' = granted \cup {<<1, s>>}
  /\ Return(s)
  /\ UNCHANGED <<lease, handoff, window, alive, issued, spent>>

\* attachMaster: genesis, an exclusive create.  The loser reads the winner's
\* record and goes on as if it had found it at once.
CreateGenesis(s) ==
  /\ At(s, "create")
  /\ \/ /\ ~Exists(attachment)
        /\ attachment' = [session |-> s, generation |-> 1, stale |-> FALSE]
        /\ granted' = granted \cup {<<1, s>>}
        /\ Return(s)
     \/ /\ Exists(attachment)
        /\ ReadThenGoto(s, "lease")
        /\ UNCHANGED <<attachment, granted, call>>
  /\ UNCHANGED <<lease, handoff, window, alive, issued, spent>>

\* takeoverMaster, called when the owner's process was found dead: the window
\* is looked at before the lease is taken; a human cancel clears it instead.
TakeoverRead(s) ==
  /\ At(s, "idle")
  /\ Exists(attachment)
  /\ ~alive[attachment.session]
  /\ \E human \in BOOLEAN :
       /\ window => human
       /\ window' = (window /\ ~human)
       /\ call' = [call EXCEPT ![s] =
                     [kind |-> "takeover", token |-> NoToken, human |-> human]]
  /\ ReadThenGoto(s, "lease")
  /\ UNCHANGED <<attachment, lease, handoff, alive, issued, granted, spent>>

\* acquireRegistryLease: exclusive create; a lease in the way is either fresh,
\* and the call gives up, or old, and the call will write over it.
AcquireLease(s) ==
  /\ At(s, "lease")
  /\ \/ /\ lease.by = NoSession
        /\ lease' = [by |-> s, old |-> FALSE]
        /\ Goto(s, "decide")
        /\ UNCHANGED <<call, seen>>
     \/ /\ lease.by # NoSession /\ ~lease.old
        /\ Return(s)
        /\ UNCHANGED lease
     \/ /\ lease.by # NoSession /\ lease.old
        /\ Goto(s, "steal")
        /\ UNCHANGED <<lease, call, seen>>
  /\ UNCHANGED <<attachment, handoff, window, alive, issued, granted, spent>>

\* acquireRegistryLease: rename over a lease that was old when it was read.
StealLease(s) ==
  /\ At(s, "steal")
  /\ lease' = [by |-> s, old |-> FALSE]
  /\ Goto(s, "decide")
  /\ UNCHANGED <<attachment, handoff, window, alive, call, seen, issued, granted, spent>>

\* Mutant of MayBump: the token is compared, but not who issued it and when.
MayBumpAnyIssuer(s) ==
  LET c == call[s] IN
  \/ /\ c.kind = "token"
     /\ handoff.token = c.token
     /\ ~handoff.expired
  \/ /\ c.kind = "force"
     /\ window => c.human
     /\ attachment.stale
  \/ c.kind = "takeover"

\* What attachWithOwnerLocked and takeoverMaster require of the attachment
\* re-read under the lease, once it is the one the call had seen before.
MayBump(s) ==
  LET c == call[s] IN
  \/ /\ c.kind = "token"
     /\ handoff.token = c.token
     /\ ~handoff.expired
     /\ c.token.from = attachment.session
     /\ c.token.generation = attachment.generation
  \/ /\ c.kind = "force"
     /\ window => c.human
     /\ attachment.stale
  \/ c.kind = "takeover"

MayRenew(s) == call[s].kind = "refresh" /\ attachment.session = s

Unmoved(s) == Exists(attachment) /\ SameOwner(attachment, seen[s])

\* Mutant of Decide: the attachment is not read again under the lease.
DecideOnFirstRead(s) ==
  /\ At(s, "decide")
  /\ \/ /\ MayBump(s)
        /\ attachment.generation < MaxGeneration
        /\ Goto(s, "bump")
     \/ /\ MayRenew(s)
        /\ Goto(s, "renew")
     \/ /\ ~(MayBump(s) \/ MayRenew(s))
        /\ Goto(s, "release")
  /\ UNCHANGED <<attachment, lease, handoff, window, alive, call, seen, issued, granted, spent>>

Decide(s) ==
  /\ At(s, "decide")
  /\ \/ /\ Unmoved(s) /\ MayBump(s)
        /\ attachment.generation < MaxGeneration
        /\ ReadThenGoto(s, "bump")
     \/ /\ Unmoved(s) /\ MayRenew(s)
        /\ ReadThenGoto(s, "renew")
     \/ /\ ~(Unmoved(s) /\ (MayBump(s) \/ MayRenew(s)))
        /\ Goto(s, "release")
        /\ UNCHANGED seen
  /\ UNCHANGED <<attachment, lease, handoff, window, alive, call, issued, granted, spent>>

\* Mutant of WriteBump: the new owner keeps the old generation.
WriteBumpSameGeneration(s) ==
  LET g == seen[s].generation IN
  /\ At(s, "bump")
  /\ attachment' = [session |-> s, generation |-> g, stale |-> FALSE]
  /\ granted' = granted \cup {<<g, s>>}
  /\ spent' = IF call[s].kind = "token" THEN spent \cup {<<call[s].token, g, s>>} ELSE spent
  /\ Goto(s, "release")
  /\ UNCHANGED <<lease, handoff, window, alive, call, seen, issued>>

\* The write that changes the owner and takes the next generation.
WriteBump(s) ==
  LET g == seen[s].generation + 1 IN
  /\ At(s, "bump")
  /\ attachment' = [session |-> s, generation |-> g, stale |-> FALSE]
  /\ granted' = granted \cup {<<g, s>>}
  /\ spent' = IF call[s].kind = "token" THEN spent \cup {<<call[s].token, g, s>>} ELSE spent
  /\ Goto(s, "release")
  /\ UNCHANGED <<lease, handoff, window, alive, call, seen, issued>>

\* The write that only renews the heartbeat of the owner, which attached again.
WriteRenewal(s) ==
  /\ At(s, "renew")
  /\ attachment' = [seen[s] EXCEPT !.stale = FALSE]
  /\ granted' = granted \cup {<<seen[s].generation, s>>}
  /\ Goto(s, "release")
  /\ UNCHANGED <<lease, handoff, window, alive, call, seen, issued, spent>>

\* releaseLease: read the file, compare, then unlink.
ReadOwnLease(s) ==
  /\ At(s, "release")
  /\ IF lease.by = s
     THEN Goto(s, "unlink") /\ UNCHANGED <<call, seen>>
     ELSE Return(s)
  /\ UNCHANGED <<attachment, lease, handoff, window, alive, issued, granted, spent>>

UnlinkLease(s) ==
  /\ At(s, "unlink")
  /\ lease' = NoLease
  /\ Return(s)
  /\ UNCHANGED <<attachment, handoff, window, alive, issued, granted, spent>>

\* detachMaster: only the owner gets a token, and it stays the owner.
DetachRead(s) ==
  /\ At(s, "idle")
  /\ attachment.session = s
  /\ ReadThenGoto(s, "detach")
  /\ UNCHANGED <<attachment, lease, handoff, window, alive, call, issued, granted, spent>>

DetachWrite(s) ==
  /\ At(s, "detach")
  /\ Cardinality(issued) < MaxTokens
  /\ \E n \in Nonces :
       LET token == [from |-> s, generation |-> seen[s].generation, nonce |-> n] IN
       /\ token \notin issued
       /\ handoff' = [token |-> token, expired |-> FALSE]
       /\ issued' = issued \cup {token}
  /\ Return(s)
  /\ UNCHANGED <<attachment, lease, window, alive, granted, spent>>

\* Mutant of HeartbeatRead: anybody may renew the heartbeat.
HeartbeatReadByAnyone(s) ==
  /\ At(s, "idle")
  /\ s \in HeartbeatCallers
  /\ Exists(attachment)
  /\ ReadThenGoto(s, "heartbeat")
  /\ UNCHANGED <<attachment, lease, handoff, window, alive, call, issued, granted, spent>>

\* heartbeatMaster: compare, then write the whole record back, without the lease.
HeartbeatRead(s) ==
  /\ At(s, "idle")
  /\ s \in HeartbeatCallers
  /\ attachment.session = s
  /\ ReadThenGoto(s, "heartbeat")
  /\ UNCHANGED <<attachment, lease, handoff, window, alive, call, issued, granted, spent>>

HeartbeatWrite(s) ==
  /\ At(s, "heartbeat")
  /\ attachment' = [seen[s] EXCEPT !.stale = FALSE]
  /\ Return(s)
  /\ UNCHANGED <<lease, handoff, window, alive, issued, granted, spent>>

\* setTransferWindow, called by the session that issued the token.
SetTransferWindow(s) ==
  /\ At(s, "idle")
  /\ handoff.token.from = s
  /\ window' = TRUE
  /\ UNCHANGED <<attachment, lease, handoff, alive, pc, call, seen, issued, granted, spent>>

\* clearTransferWindow: the transfer is confirmed or has failed.
ClearTransferWindow(s) ==
  /\ At(s, "idle")
  /\ window
  /\ window' = FALSE
  /\ UNCHANGED <<attachment, lease, handoff, alive, pc, call, seen, issued, granted, spent>>

-----------------------------------------------------------------------------
(* The environment: time and crashes *)

HeartbeatGoesStale ==
  /\ Exists(attachment) /\ ~attachment.stale
  /\ attachment' = [attachment EXCEPT !.stale = TRUE]
  /\ UNCHANGED <<lease, handoff, window, alive, pc, call, seen, issued, granted, spent>>

\* Only an abandoned lease grows old: a holder that lives is done within 30 s.
LeaseGrowsOld ==
  /\ LeaseMayAge
  /\ lease.by # NoSession /\ ~lease.old
  /\ pc[lease.by] \notin UnderLease
  /\ lease' = [lease EXCEPT !.old = TRUE]
  /\ UNCHANGED <<attachment, handoff, window, alive, pc, call, seen, issued, granted, spent>>

TokenExpires ==
  /\ handoff # NoHandoff /\ ~handoff.expired
  /\ handoff' = [handoff EXCEPT !.expired = TRUE]
  /\ UNCHANGED <<attachment, lease, window, alive, pc, call, seen, issued, granted, spent>>

WindowExpires ==
  /\ window
  /\ window' = FALSE
  /\ UNCHANGED <<attachment, lease, handoff, alive, pc, call, seen, issued, granted, spent>>

\* The process dies wherever it is; its lease stays behind.
Crash(s) ==
  /\ alive[s]
  /\ alive' = [alive EXCEPT ![s] = FALSE]
  /\ Return(s)
  /\ UNCHANGED <<attachment, lease, handoff, window, issued, granted, spent>>

\* The same session is resumed by a new process.
Restart(s) ==
  /\ ~alive[s]
  /\ alive' = [alive EXCEPT ![s] = TRUE]
  /\ UNCHANGED <<attachment, lease, handoff, window, pc, call, seen, issued, granted, spent>>

-----------------------------------------------------------------------------
AttachStep(s) ==
  \/ AttachRead(s) \/ CreateGenesis(s) \/ TakeoverRead(s)
  \/ AcquireLease(s) \/ StealLease(s) \/ Decide(s)
  \/ WriteBump(s) \/ WriteRenewal(s) \/ ReadOwnLease(s) \/ UnlinkLease(s)

SessionStep(s) ==
  \/ AttachStep(s)
  \/ DetachRead(s) \/ DetachWrite(s)
  \/ HeartbeatRead(s) \/ HeartbeatWrite(s)
  \/ SetTransferWindow(s) \/ ClearTransferWindow(s)
  \/ Crash(s) \/ Restart(s)

TimePasses == HeartbeatGoesStale \/ LeaseGrowsOld \/ TokenExpires \/ WindowExpires

RegistryNext == TimePasses \/ \E s \in Sessions : SessionStep(s)

RegistrySpec == RegistryInit /\ [][RegistryNext]_registryVars
-----------------------------------------------------------------------------
(* Properties *)

\* A generation number belongs to one session for ever: nobody else was ever
\* told, by attachMaster or takeoverMaster, that it owns that generation.  All
\* owner gates (isCurrentOwnerSession, fencing rechecks) stand on this.
OneOwnerPerGeneration ==
  \A p, q \in granted : p[1] = q[1] => p[2] = q[2]

\* A handoff token buys one generation for one session, although the handoff
\* file is never deleted: a replay fails because the generation has moved on.
TokenSpentOnce ==
  \A p, q \in spent : p[1] = q[1] => p = q

\* At most one session is between acquiring and releasing the lease.
LeaseIsExclusive ==
  \A s, t \in Sessions : pc[s] \in UnderLease /\ pc[t] \in UnderLease => s = t

\* A token buys exactly the generation after its issuer's, and only from a
\* session that did own that generation - whatever happens to the lease.
TokenBuysSuccession ==
  \A p \in spent : /\ p[2] = p[1].generation + 1
                    /\ <<p[1].generation, p[1].from>> \in granted

\* However calls interleave, lease thefts and heartbeats included, concurrent
\* first attachments produce one first owner.
FirstOwnerIsUnique ==
  \A p, q \in granted : p[1] = 1 /\ q[1] = 1 => p[2] = q[2]

\* What makes the last two inductive: the attachment and the copies that calls
\* are about to write back or to succeed are generations that were granted.
GrantChain ==
  /\ ~Exists(attachment) => attachment.session = NoSession /\ granted = {}
  /\ Exists(attachment) => <<attachment.generation, attachment.session>> \in granted
  /\ \A p \in granted : p[1] > 0
  /\ \A s \in Sessions : pc[s] \in {"bump", "renew", "heartbeat"} =>
       /\ <<seen[s].generation, seen[s].session>> \in granted
       /\ pc[s] # "bump" => seen[s].session = s
       /\ pc[s] = "bump" /\ call[s].kind = "token" =>
            /\ call[s].token.generation = seen[s].generation
            /\ call[s].token.from = seen[s].session

\* What makes OneOwnerPerGeneration and TokenSpentOnce inductive while no lease
\* grows old and nobody calls heartbeatMaster: only the lease's holder is past
\* AcquireLease, it has in hand the attachment as it is, and every grant and
\* every spent token is of the past.
GrantsArePast ==
  \A p \in granted : /\ p[1] <= attachment.generation
                     /\ p[1] = attachment.generation => p[2] = attachment.session

SpentArePast == \A p \in spent : p[1].generation < attachment.generation

HolderIsCurrent ==
  \A s \in Sessions :
    /\ pc[s] \notin {"steal", "heartbeat"}
    /\ pc[s] \in UnderLease => lease.by = s
    /\ pc[s] \in {"bump", "renew"} => SameOwner(seen[s], attachment)

LeaseProtects == ~lease.old /\ HolderIsCurrent /\ GrantsArePast /\ SpentArePast

\* The attachment file goes through the numbered changes of hands that module
\* Ownership allows, and no others.
O == INSTANCE Ownership WITH owner <- attachment.session,
                             generation <- attachment.generation

ImplementsOwnership == O!OwnershipSpec
=============================================================================
