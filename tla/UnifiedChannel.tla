--------------------------- MODULE UnifiedChannel ---------------------------
(***************************************************************************)
(* Configuration of one channel over its ends: dueca/UnifiedChannel.cxx    *)
(* (tokens, list of configuration changes, updateConfiguration, service)   *)
(* and dueca/UnifiedChannelMaster.cxx (numbering, reservations, cleaning). *)
(*                                                                         *)
(* Each end lists the changes in its entries; a reading client processes   *)
(* them, under entries_lock, when it next uses its token.  A change counts *)
(* in tocheck the clients that still have to.  A removed entry is made     *)
(* invalid at all ends, cleaned when every end has confirmed that all its  *)
(* clients are gone, then deleted, and its number becomes reusable.        *)
(*                                                                         *)
(* An entry is named by the write token it belongs to (its creation id).   *)
(* Data is left out: a client holds data of an entry or none.  Triggers,   *)
(* watchers and the stashes with information for views have no part in it. *)
(***************************************************************************)
EXTENDS Integers, Sequences, FiniteSets, SequencesExt

CONSTANTS
  Locations,    \* where an end of the channel can be
  Master,       \* the one with the UnifiedChannelMaster
  WriteTokens,  \* names of write tokens
  ReadTokens,   \* names of read tokens
  Settings,     \* the circumstances, see setting
  MaxEntries,   \* numbers an entry can have: entry_bylabel - 1
  RoundMod,     \* values of a cleaning round: 2^32 in the code
  MaxQueue,     \* bound: requests waiting at an end before tokens come and go
  NoEntry       \* NULL

ASSUME ConfigAssumption ==
  /\ IsFiniteSet(Locations) /\ IsFiniteSet(WriteTokens) /\ IsFiniteSet(ReadTokens)
  /\ {NoEntry, "none", "ready"} \cap WriteTokens = {}
  /\ MaxEntries \in Nat /\ RoundMod \in Nat \ {0} /\ MaxQueue \in Nat
  /\ \A t \in Settings :
       /\ t.ends \subseteq Locations /\ Master \in t.ends
       /\ DOMAIN t.w \subseteq WriteTokens /\ DOMAIN t.r \subseteq ReadTokens
       /\ \A w \in DOMAIN t.w : t.w[w].end \in t.ends /\ t.w[w].reserve \in Nat
       /\ \A r \in DOMAIN t.r : t.r[r].end \in t.ends
       /\ t.restart \in BOOLEAN
       /\ t.calm \subseteq {"joined", "installed", "one", "kept"}

VARIABLES
  setting,         \* the circumstances, which do not change:
                   \* ends, locations with an end of the channel;
                   \* w, write tokens: end, class, label, event, reserve, unique;
                   \* r, read tokens: end, classes, want, label, time, callback,
                   \*   reserve;
                   \* restart, whether a read token is made again after its removal;
                   \* calm, what the environment does not do, see RemoveWriteToken
  wtoken,          \* write token: "new", "on" or "removed"
  rtoken,          \* read token: "new", "on" or "removed"
  pos,             \* config_change of a client: its place in the list of its end
  links,           \* entries a client is linked to, from class_lead
  cur,             \* the entry of these it reads now (client->entry)
  held,            \* "none", "ready" (handle refreshed for an access) or the entry read
  installed,       \* ends whose service is installed
  writing,         \* writing_clients of an end
  entries,         \* entries of an end, by number
  web,             \* entries reachable through the data classes, newest first
  list,            \* configuration changes of an end, handled ones included
  front,           \* entry_config_changes: the first one not yet recycled
  saving,          \* entries at an end that save up data
  cached,          \* numbers of entries not there for which RemoveSaveupCmd is kept
  deleted,         \* entries of an end that were deleted
  master,          \* state of the UnifiedChannelMaster
  joined,          \* ends the master has welcomed
  config_requests, \* requests waiting at an end
  cmds,            \* commands from the master under way to an end
  phase,           \* service() of the master: "idle", "process" or "change"
  fault            \* undefined behaviour met, or "none"

readVars == <<rtoken, pos, links, cur, held>>
endVars == <<entries, web, list, front, saving, cached, deleted>>
vars == <<wtoken, readVars, installed, writing, endVars, master, joined,
          config_requests, cmds, phase, fault>>

Ends == setting.ends
W == setting.w
R == setting.r
Writers == DOMAIN W
Readers == DOMAIN R

ClientsAt(e) == {r \in Readers : R[r].end = e /\ rtoken[r] = "on"}
\* the elements of l that are in S
Only(l, S) ==
  LET f[i \in 0 .. Len(l)] == IF i = 0 THEN <<>>
                              ELSE IF l[i] \in S THEN Append(f[i - 1], l[i]) ELSE f[i - 1]
  IN  f[Len(l)]

Push(e, q) == [config_requests EXCEPT ![e] = Append(@, q)]

-----------------------------------------------------------------------------
(* What a client reads *)

\* label or number of the one entry asked for
SingleMatch(r, w, id) ==
  IF R[r].want = "label" THEN R[r].label = W[w].label ELSE R[r].want = id

ClassMatch(r, w) == W[w].class \in R[r].classes

TimingCompatible(r, w) == R[r].time = "any" \/ (R[r].time = "event") = W[w].event

\* addReadToken() and the callbacks for a new entry: no look at timing
EntryMatch(r, w, id) ==
  /\ ClassMatch(r, w)
  /\ \/ R[r].want = "any" /\ R[r].label \in {"", W[w].label}
     \/ R[r].want # "any" /\ SingleMatch(r, w, id)

\* linkReadClientToEntry()
Link(s, w) == [s EXCEPT !.links = <<w>> \o @, !.cur = IF @ = NoEntry THEN w ELSE @]

\* the entry behind w in the list of links, or NULL
After(ls, w) ==
  LET i == CHOOSE i \in DOMAIN ls : ls[i] = w
  IN  IF i = Len(ls) THEN NoEntry ELSE ls[i + 1]

\* slip: nothing detached
DetachNothing(s, w) == s

\* detachReadClientFromEntry(): without a link to w, el->entry follows NULL
Detach(s, w) ==
  IF w \notin Range(s.links) THEN [s EXCEPT !.fault = "detach"]
  ELSE [s EXCEPT !.cur = IF @ = w THEN After(s.links, w) ELSE @,
                 !.links = Only(@, Range(@) \ {w})]

\* one change in refreshClientHandleInner(); "quick" while its first loop,
\* for clients of a single entry they already have, is passing over changes
HandleChange(r, s, c) ==
  IF s.quick /\ s.links # <<>> /\ c.w # Head(s.links) THEN s
  ELSE LET t == [s EXCEPT !.quick = FALSE]
       IN  CASE c.kind = "new" ->
                  IF /\ ClassMatch(r, c.w)
                     /\ \/ R[r].want = "any"
                        \/ t.links = <<>> /\ SingleMatch(r, c.w, c.id)
                     /\ TimingCompatible(r, c.w)
                  THEN Link(t, c.w) ELSE t
             [] c.kind = "deleted" -> IF t.links = <<>> THEN t ELSE Detach(t, c.w)

\* client r with the links and the current entry in s handles the changes
\* of list l, from place p on
Handling(r, l, p, s) ==
  LET h[i \in (p - 1) .. Len(l)] == IF i < p THEN s ELSE HandleChange(r, h[i - 1], l[i])
  IN  h[Len(l)]

\* refreshClientHandleInner() of client r on the list of changes l
Refreshed(r, l) ==
  Handling(r, l, pos[r], [links |-> links[r], cur |-> cur[r], fault |-> "none",
                          quick |-> R[r].want # "any"])

\* markHandled() by the clients S on each change they had not yet processed
MarkHandled(S, l) ==
  [i \in DOMAIN l |->
     [l[i] EXCEPT !.tocheck = @ - Cardinality({r \in S : pos[r] <= i})]]

\* the clients S of end e refresh, while l becomes the list of the end;
\* Then is what becomes of their current entry
RefreshThen(e, S, l, Then(_)) ==
  /\ list' = [list EXCEPT ![e] = MarkHandled(S, l)]
  /\ pos' = [r \in Readers |-> IF r \in S THEN Len(l) + 1 ELSE pos[r]]
  /\ links' = [r \in Readers |-> IF r \in S THEN Refreshed(r, l).links ELSE links[r]]
  /\ cur' = [r \in Readers |-> IF r \in S THEN Then(Refreshed(r, l)) ELSE cur[r]]
  /\ fault' = IF \E r \in S : Refreshed(r, l).fault = "detach" THEN "detach" ELSE fault

Refresh(e, S, l) == RefreshThen(e, S, l, LAMBDA s : s.cur)

\* first change from i on that does not satisfy Old
FirstNot(l, i, Old(_)) ==
  CHOOSE j \in i..(Len(l) + 1) :
    /\ \A k \in i..(j - 1) : Old(l[k])
    /\ j <= Len(l) => ~Old(l[j])

\* recycleConfigChanges(): handled changes, up to the first deletion
Recycled(e) ==
  FirstNot(list[e], front[e], LAMBDA c : c.kind # "deleted" /\ c.tocheck = 0)

-----------------------------------------------------------------------------
(* Tokens *)

\* addWriteToken()
AddWriteToken(w) ==
  LET e == W[w].end
  IN  /\ wtoken[w] = "new"
      /\ wtoken' = [wtoken EXCEPT ![w] = "on"]
      /\ writing' = [writing EXCEPT ![e] = Append(@, w)]
      /\ saving' = IF W[w].reserve > 0 THEN [saving EXCEPT ![e] = @ \cup {w}] ELSE saving
      /\ config_requests' = IF e \in installed
                            THEN Push(e, [type |-> "NewEntryReq", w |-> w])
                            ELSE config_requests
      /\ UNCHANGED <<readVars, installed, entries, web, list, front, cached, deleted,
                     master, joined, cmds, phase, fault>>

\* removeWriteToken(); the conditions on calm are assumptions on the
\* environment: when it does not remove tokens
RemoveWriteToken(w) ==
  LET e == W[w].end
  IN  /\ wtoken[w] = "on"
      /\ "kept" \notin setting.calm
      /\ "joined" \in setting.calm => joined = Ends /\ \A d \in Ends : cmds[d] = <<>>
      /\ "installed" \in setting.calm => e \in installed
      /\ "one" \in setting.calm => \A v \in Writers :
            wtoken[v] = "removed" => \A d \in Ends : v \in deleted[d]
      /\ wtoken' = [wtoken EXCEPT ![w] = "removed"]
      /\ config_requests' = Push(e, [type |-> "DeleteEntryReq", w |-> w])
      /\ UNCHANGED <<readVars, installed, writing, endVars, master, joined, cmds, phase, fault>>

\* addReadToken(): the client links to what is there, and starts at the
\* end of the list of changes
AddReadToken(r) ==
  LET e == R[r].end
      id(w) == CHOOSE i \in DOMAIN entries[e] : entries[e][i] = w
      match == Only(web[e], {w \in Range(web[e]) : EntryMatch(r, w, id(w))})
  IN  /\ rtoken[r] = "new" \/ (setting.restart /\ rtoken[r] = "removed")
      /\ Len(config_requests[e]) < MaxQueue
      /\ rtoken' = [rtoken EXCEPT ![r] = "on"]
      /\ pos' = [pos EXCEPT ![r] = Len(list[e]) + 1]
      /\ links' = [links EXCEPT ![r] = Reverse(match)]
      /\ cur' = [cur EXCEPT ![r] = IF match = <<>> THEN NoEntry ELSE Head(match)]
      /\ config_requests' = Push(e, [type |-> "NewClientNotif", r |-> r])
      /\ UNCHANGED <<wtoken, held, installed, writing, endVars, master, joined,
                     cmds, phase, fault>>

\* removeReadToken(): a last refresh, then detachClientlinks()
RemoveReadToken(r) ==
  LET e == R[r].end
  IN  /\ rtoken[r] = "on" /\ held[r] = "none"
      /\ Len(config_requests[e]) < MaxQueue
      /\ rtoken' = [rtoken EXCEPT ![r] = "removed"]
      /\ list' = [list EXCEPT ![e] = MarkHandled({r}, list[e])]
      /\ pos' = [pos EXCEPT ![r] = 0]
      /\ links' = [links EXCEPT ![r] = <<>>]
      /\ cur' = [cur EXCEPT ![r] = NoEntry]
      /\ fault' = IF Refreshed(r, list[e]).fault = "detach" THEN "detach" ELSE fault
      /\ config_requests' = Push(e, [type |-> "LeaveClientNotif", r |-> r])
      /\ UNCHANGED <<wtoken, held, installed, writing, entries, web, front,
                     saving, cached, deleted, master, joined, cmds, phase>>

\* refreshClientHandle(), first part of each use of a read token
RefreshClientHandle(r) ==
  LET e == R[r].end
  IN  /\ rtoken[r] = "on" /\ held[r] = "none"
      /\ Refresh(e, {r}, list[e])
      /\ held' = [held EXCEPT ![r] = IF cur'[r] # NoEntry THEN "ready" ELSE "none"]
      /\ UNCHANGED <<wtoken, rtoken, installed, writing, entries, web, front, saving,
                     cached, deleted, master, joined, config_requests, cmds, phase>>

\* the rest of getReadAccess(), without the lock: handle->entry->entry
GetReadAccess(r) ==
  /\ held[r] = "ready"
  /\ held' = [held EXCEPT ![r] = IF cur[r] = NoEntry THEN "none" ELSE cur[r]]
  /\ fault' = IF cur[r] = NoEntry THEN "access" ELSE fault
  /\ UNCHANGED <<wtoken, rtoken, pos, links, cur, installed, writing, endVars, master,
                 joined, config_requests, cmds, phase>>

\* releaseReadAccess(): again through client->entry, on purpose not updated;
\* also the end of a use that reads no data
ReleaseReadAccess(r) ==
  /\ held[r] # "none"
  /\ held' = [held EXCEPT ![r] = "none"]
  /\ fault' = IF held[r] \in Writers /\ cur[r] # held[r] THEN "release" ELSE fault
  /\ UNCHANGED <<wtoken, rtoken, pos, links, cur, installed, writing, endVars, master,
                 joined, config_requests, cmds, phase>>

\* selectFirstEntry() and getNextEntry(): along the links of the client
SelectEntry(r, Then(_)) ==
  /\ rtoken[r] = "on" /\ held[r] = "none"
  /\ RefreshThen(R[r].end, {r}, list[R[r].end], Then)
  /\ UNCHANGED <<wtoken, rtoken, held, installed, writing, entries, web, front, saving,
                 cached, deleted, master, joined, config_requests, cmds, phase>>

SelectFirstEntry(r) ==
  SelectEntry(r, LAMBDA s : IF s.links = <<>> THEN NoEntry ELSE Head(s.links))

GetNextEntry(r) ==
  SelectEntry(r, LAMBDA s : IF s.cur = NoEntry THEN NoEntry ELSE After(s.links, s.cur))

-----------------------------------------------------------------------------
(* UnifiedChannelMaster::process(), one request q; each operator gives the *)
(* master's new state m and the commands out                               *)

NewEntryConfOf(m, id) ==
  [type |-> "NewEntryConf", id |-> id, w |-> m.entries[id].w,
   save |-> m.entries[id].reservations > 0]

RemoveSaveup(id) == [type |-> "RemoveSaveupCmd", id |-> id]

\* ClientData::matches(); c is a client, d an entry with number id
Matches(c, d, id) ==
  /\ R[c.r].reserve /\ ~c.used /\ W[d.w].reserve > 0
  /\ ClassMatch(c.r, d.w)
  /\ R[c.r].want = "any" \/ SingleMatch(c.r, d.w, id)

\* a client for one entry has then used its reservation
Used(c) == IF R[c.r].want = "any" THEN c ELSE [c EXCEPT !.used = TRUE]

NewEntryReq(m, q) ==
  LET d == [active |-> TRUE, origin |-> q.w, w |-> q.w, reservations |-> W[q.w].reserve]
      fits == IF W[q.w].unique THEN m.arity = "unspecified" /\ m.entries = <<>>
              ELSE m.arity # "single"
      reuse == m.reusable # <<>>
      id == IF reuse THEN Head(m.reusable) ELSE Len(m.entries) + 1
      takes == {i \in DOMAIN m.clients : Matches(m.clients[i], d, id)}
      left == IF Cardinality(takes) > d.reservations THEN 0
              ELSE d.reservations - Cardinality(takes)
      e1 == IF reuse THEN [m.entries EXCEPT ![id] = d] ELSE Append(m.entries, d)
      m1 == [m EXCEPT !.entries = e1,
                      !.arity = IF W[q.w].unique THEN "single" ELSE @,
                      !.reusable = IF reuse THEN Tail(@) ELSE @]
  IN  IF ~fits \/ (~reuse /\ id > MaxEntries) THEN [m |-> m, out |-> <<>>]
      ELSE IF d.reservations = 0 THEN [m |-> m1, out |-> <<NewEntryConfOf(m1, id)>>]
      ELSE [m |-> [m1 EXCEPT !.entries[id].reservations = left,
                             !.clients = [i \in DOMAIN @ |->
                                IF i \in takes THEN Used(@[i]) ELSE @[i]]],
            out |-> <<NewEntryConfOf(m1, id)>>
                    \o (IF left = 0 THEN <<RemoveSaveup(id)>> ELSE <<>>)]

DeleteEntryReq(m, q) ==
  LET found == {i \in DOMAIN m.entries : m.entries[i].origin = q.w}
      id == CHOOSE i \in found : \A j \in found : j <= i
  IN  IF found = {} THEN [m |-> m, out |-> <<>>]
      ELSE [m |-> [m EXCEPT !.entries[id].origin = NoEntry, !.entries[id].active = FALSE,
                            !.to_be_cleaned = Append(@,
                               [id |-> id, stilldirty |-> m.num_ends, round |-> 0])],
            out |-> <<[type |-> "InvalidateEntryCmd", id |-> id]>>]

\* slip: the entry stays to be cleaned
CleanEntryConfKeeps(m, q) ==
  LET c == Head(m.to_be_cleaned)
  IN  IF m.to_be_cleaned = <<>> \/ c.round # q.round \/ c.id # q.id
      THEN [m |-> m, out |-> <<>>]
      ELSE IF c.stilldirty # 1
      THEN [m |-> [m EXCEPT !.to_be_cleaned[1].stilldirty = @ - 1], out |-> <<>>]
      ELSE [m |-> [m EXCEPT !.reusable = Append(@, q.id)],
            out |-> <<[type |-> "DeleteEntryCmd", id |-> q.id]>>]

\* with nothing to be cleaned, to_be_cleaned.front() is undefined
CleanEntryConf(m, q) ==
  LET c == Head(m.to_be_cleaned)
  IN  IF m.to_be_cleaned = <<>> \/ c.round # q.round \/ c.id # q.id
      THEN [m |-> m, out |-> <<>>]
      ELSE IF c.stilldirty # 1
      THEN [m |-> [m EXCEPT !.to_be_cleaned[1].stilldirty = @ - 1], out |-> <<>>]
      ELSE [m |-> [m EXCEPT !.reusable = Append(@, q.id), !.to_be_cleaned = Tail(@)],
            out |-> <<[type |-> "DeleteEntryCmd", id |-> q.id]>>]

\* all active entries, from the last to the first
NewEndJoins(m, q) ==
  LET active == Only([i \in DOMAIN m.entries |-> Len(m.entries) + 1 - i],
                     {id \in DOMAIN m.entries : m.entries[id].active})
  IN  [m |-> [m EXCEPT !.num_ends = @ + 1],
       out |-> <<[type |-> "NewEndWelcome", e |-> q.e]>>
               \o [i \in DOMAIN active |-> NewEntryConfOf(m, active[i])]]

\* slip: the last reservation taken is not noticed
NewClientNotifQuiet(m, q) ==
  LET c == [r |-> q.r, used |-> FALSE]
      takes == {i \in DOMAIN m.entries : Matches(c, m.entries[i], i)}
  IN  [m |-> [m EXCEPT !.clients = Append(@, c),
                       !.entries = [i \in DOMAIN @ |->
                          IF i \in takes /\ @[i].reservations > 0
                          THEN [@[i] EXCEPT !.reservations = @ - 1] ELSE @[i]]],
       out |-> <<>>]

\* the copy in m.clients is not marked as used; entries no longer active
\* are matched too
NewClientNotif(m, q) ==
  LET c == [r |-> q.r, used |-> FALSE]
      all == {i \in DOMAIN m.entries : Matches(c, m.entries[i], i)}
      takes == IF R[q.r].want = "any" THEN all
               ELSE {i \in all : \A j \in all : j <= i}
      last == Only([i \in DOMAIN m.entries |-> Len(m.entries) + 1 - i],
                   {id \in takes : m.entries[id].reservations = 1})
  IN  [m |-> [m EXCEPT !.clients = Append(@, c),
                       !.entries = [i \in DOMAIN @ |->
                          IF i \in takes /\ @[i].reservations > 0
                          THEN [@[i] EXCEPT !.reservations = @ - 1] ELSE @[i]]],
       out |-> [i \in DOMAIN last |-> RemoveSaveup(last[i])]]

LeaveClientNotif(m, q) ==
  [m |-> [m EXCEPT !.clients = Only(@, {c \in Range(@) : c.r # q.r})], out |-> <<>>]

Handled(m, q) ==
  CASE q.type = "NewEntryReq" -> NewEntryReq(m, q)
    [] q.type = "DeleteEntryReq" -> DeleteEntryReq(m, q)
    [] q.type = "CleanEntryConf" -> CleanEntryConf(m, q)
    [] q.type = "NewEndJoins" -> NewEndJoins(m, q)
    [] q.type = "NewClientNotif" -> NewClientNotif(m, q)
    [] q.type = "LeaveClientNotif" -> LeaveClientNotif(m, q)

-----------------------------------------------------------------------------
(* service() *)

\* installService(), when the master of the channel is known
InstallService(e) ==
  /\ e \notin installed
  /\ installed' = installed \cup {e}
  /\ config_requests' = [config_requests EXCEPT ![e] = @ \o
       [i \in DOMAIN writing[e] |-> [type |-> "NewEntryReq", w |-> writing[e][i]]]]
  /\ UNCHANGED <<wtoken, readVars, writing, endVars, master, joined, cmds, phase, fault>>

\* service() of another end: a request goes to the master's end
SendRequest(e) ==
  /\ e # Master /\ e \in installed /\ config_requests[e] # <<>>
  /\ config_requests' = [config_requests EXCEPT
       ![e] = Tail(@), ![Master] = Append(@, Head(config_requests[e]))]
  /\ UNCHANGED <<wtoken, readVars, installed, writing, endVars, master, joined, cmds,
                 phase, fault>>

\* a round of process() at the master
Process ==
  LET q == Head(config_requests[Master])
      x == Handled(master, q)
  IN  /\ Master \in installed /\ phase \in {"idle", "process"}
      /\ config_requests[Master] # <<>>
      /\ config_requests' = [config_requests EXCEPT ![Master] = Tail(@)]
      /\ master' = x.m
      /\ cmds' = [cmds EXCEPT ![Master] = @ \o x.out]
      /\ joined' = IF q.type = "NewEndJoins" THEN joined \cup {q.e} ELSE joined
      /\ phase' = "process"
      /\ fault' = IF q.type = "CleanEntryConf" /\ master.to_be_cleaned = <<>>
                  THEN "front" ELSE fault
      /\ UNCHANGED <<wtoken, readVars, installed, writing, endVars>>

\* slip: an entry is not swept a second time
SweepOnce ==
  LET c == Head(master.to_be_cleaned)
      clean == master.to_be_cleaned # <<>> /\ c.round = 0
      out == IF clean THEN Append(cmds[Master], [type |-> "CleanEntryCmd", id |-> c.id,
                                                 round |-> 1])
             ELSE cmds[Master]
  IN  /\ phase = "process" /\ config_requests[Master] = <<>>
      /\ master' = IF clean THEN [master EXCEPT !.to_be_cleaned[1].round = 1] ELSE master
      /\ cmds' = [cmds EXCEPT ![Master] = out]
      /\ phase' = IF out = <<>> THEN "idle" ELSE "change"
      /\ UNCHANGED <<wtoken, readVars, installed, writing, endVars, joined,
                     config_requests, fault>>

\* sweep(), once all requests are processed: a next round of cleaning
Sweep ==
  LET c == Head(master.to_be_cleaned)
      round == (c.round + 1) % RoundMod
      clean == master.to_be_cleaned # <<>>
      out == IF clean THEN Append(cmds[Master], [type |-> "CleanEntryCmd", id |-> c.id,
                                                 round |-> round])
             ELSE cmds[Master]
  IN  /\ phase = "process" /\ config_requests[Master] = <<>>
      /\ master' = IF clean THEN [master EXCEPT !.to_be_cleaned[1] =
                     [id |-> c.id, stilldirty |-> master.num_ends, round |-> round]]
                   ELSE master
      /\ cmds' = [cmds EXCEPT ![Master] = out]
      /\ phase' = IF out = <<>> THEN "idle" ELSE "change"
      /\ UNCHANGED <<wtoken, readVars, installed, writing, endVars, joined,
                     config_requests, fault>>

-----------------------------------------------------------------------------
(* updateConfiguration() at end e, one command m *)

HasEntry(e, id) == id \in DOMAIN entries[e] /\ entries[e][id] # NoEntry

\* a command for an entry the end does not have: an index out of range or NULL
NoSuchEntry ==
  /\ fault' = "unknown"
  /\ UNCHANGED <<wtoken, readVars, writing, endVars, config_requests>>

\* an entry known before is left alone.  Otherwise it is the one of a local
\* writer, or made for a remote one; clients with a callback are refreshed
NewEntryConf(e, m) ==
  IF HasEntry(e, m.id)
  THEN UNCHANGED <<wtoken, readVars, writing, endVars, config_requests, fault>>
  ELSE LET l == Append(list[e], [kind |-> "new", w |-> m.w, id |-> m.id,
                                 tocheck |-> Cardinality(ClientsAt(e))])
           called == {r \in ClientsAt(e) : R[r].callback /\ EntryMatch(r, m.w, m.id)}
           size == IF m.id > Len(entries[e]) THEN m.id ELSE Len(entries[e])
       IN  /\ entries' = [entries EXCEPT ![e] =
                [i \in 1..size |-> IF i = m.id THEN m.w
                                   ELSE IF i \in DOMAIN @ THEN @[i] ELSE NoEntry]]
           /\ web' = [web EXCEPT ![e] = <<m.w>> \o @]
           /\ front' = [front EXCEPT ![e] = Recycled(e)]
           /\ saving' = IF m.id \in cached[e] THEN [saving EXCEPT ![e] = @ \ {m.w}]
                        ELSE IF W[m.w].end # e /\ m.save
                        THEN [saving EXCEPT ![e] = @ \cup {m.w}] ELSE saving
           /\ cached' = [cached EXCEPT ![e] = @ \ {m.id}]
           /\ Refresh(e, called, l)
           /\ UNCHANGED <<wtoken, rtoken, held, writing, deleted, config_requests>>

InvalidateEntryCmd(e, m) ==
  IF ~HasEntry(e, m.id) THEN NoSuchEntry
  ELSE LET w == entries[e][m.id]
       IN  /\ front' = [front EXCEPT ![e] = Recycled(e)]
           /\ list' = [list EXCEPT ![e] = Append(@, [kind |-> "deleted", w |-> w, id |-> m.id,
                                           tocheck |-> Cardinality(ClientsAt(e))])]
           /\ writing' = [writing EXCEPT ![e] = Only(@, Range(@) \ {w})]
           /\ web' = [web EXCEPT ![e] = Only(@, Range(@) \ {w})]
           /\ UNCHANGED <<wtoken, readVars, entries, saving, cached, deleted, config_requests, fault>>

\* cleanAllData(): no data of the entry is being read at this end
CleanAllData(e, w) == \A r \in ClientsAt(e) : held[r] # w

\* slip: the clients are not waited for
CleanEntryCmdAtOnce(e, m) ==
  /\ front' = [front EXCEPT ![e] = Len(list[e]) + 1]
  /\ config_requests' = IF CleanAllData(e, entries[e][m.id])
       THEN Push(e, [type |-> "CleanEntryConf", id |-> m.id, round |-> m.round])
       ELSE config_requests
  /\ UNCHANGED <<wtoken, readVars, writing, entries, web, list, saving, cached, deleted, fault>>

\* every change that all clients have handled is recycled; if it is the
\* deletion of this entry and its data can go, the end confirms
CleanEntryCmd(e, m) ==
  LET l == list[e]
      next == FirstNot(l, front[e], LAMBDA c : c.tocheck = 0)
      dels == {i \in front[e]..(next - 1) : l[i].kind = "deleted"}
      w == entries[e][m.id]
      confirms == \E i \in dels : l[i].w = w /\ CleanAllData(e, w)
  IN  IF m.id \notin DOMAIN entries[e]
      THEN IF dels # {} THEN NoSuchEntry
           ELSE /\ front' = [front EXCEPT ![e] = next]
                /\ UNCHANGED <<wtoken, readVars, writing, entries, web, list, saving,
                               cached, deleted, config_requests, fault>>
      ELSE /\ front' = [front EXCEPT ![e] = next]
           /\ config_requests' = IF confirms
                THEN Push(e, [type |-> "CleanEntryConf", id |-> m.id, round |-> m.round])
                ELSE config_requests
           /\ UNCHANGED <<wtoken, readVars, writing, entries, web, list, saving,
                          cached, deleted, fault>>

\* delete entries[id]; harmless when it is NULL
DeleteEntryCmd(e, m) ==
  IF m.id \notin DOMAIN entries[e] THEN NoSuchEntry
  ELSE /\ deleted' = [deleted EXCEPT ![e] = @ \cup ({entries[e][m.id]} \ {NoEntry})]
       /\ entries' = [entries EXCEPT ![e][m.id] = NoEntry]
       /\ UNCHANGED <<wtoken, readVars, writing, web, list, front, saving, cached,
                      config_requests, fault>>

\* unPackData() keeps a message for an entry that is not there, and gives
\* it to the next entry of that number; the master's own end does not look
RemoveSaveupCmd(e, m) ==
  IF ~HasEntry(e, m.id) /\ e = Master THEN NoSuchEntry
  ELSE /\ saving' = IF HasEntry(e, m.id)
                    THEN [saving EXCEPT ![e] = @ \ {entries[e][m.id]}] ELSE saving
       /\ cached' = IF HasEntry(e, m.id) THEN cached
                    ELSE [cached EXCEPT ![e] = @ \cup {m.id}]
       /\ UNCHANGED <<wtoken, readVars, writing, entries, web, list, front, deleted,
                      config_requests, fault>>

UpdateConfiguration(e, m) ==
  \/ m.type = "NewEntryConf" /\ NewEntryConf(e, m)
  \/ m.type = "InvalidateEntryCmd" /\ InvalidateEntryCmd(e, m)
  \/ m.type = "CleanEntryCmd" /\ CleanEntryCmd(e, m)
  \/ m.type = "DeleteEntryCmd" /\ DeleteEntryCmd(e, m)
  \/ m.type = "RemoveSaveupCmd" /\ RemoveSaveupCmd(e, m)
  \/ /\ m.type = "NewEndWelcome"
     /\ UNCHANGED <<wtoken, readVars, writing, endVars, config_requests, fault>>

\* the master's end: each command is also copied to the other ends
ChangeHere ==
  LET m == Head(cmds[Master])
  IN  /\ phase = "change" /\ cmds[Master] # <<>>
      /\ UpdateConfiguration(Master, m)
      /\ cmds' = [e \in Ends |-> IF e = Master THEN Tail(cmds[e])
                                 ELSE IF e \in joined THEN Append(cmds[e], m)
                                 ELSE cmds[e]]
      /\ phase' = IF Len(cmds[Master]) = 1 THEN "idle" ELSE "change"
      /\ UNCHANGED <<installed, master, joined>>

\* unPackData() of a command at another end
ChangeThere(e) ==
  /\ e # Master /\ cmds[e] # <<>>
  /\ UpdateConfiguration(e, Head(cmds[e]))
  /\ cmds' = [cmds EXCEPT ![e] = Tail(@)]
  /\ UNCHANGED <<installed, master, joined, phase>>

-----------------------------------------------------------------------------
Init ==
  /\ setting \in Settings
  /\ wtoken = [w \in Writers |-> "new"]
  /\ rtoken = [r \in Readers |-> "new"]
  /\ pos = [r \in Readers |-> 0]
  /\ links = [r \in Readers |-> <<>>]
  /\ cur = [r \in Readers |-> NoEntry]
  /\ held = [r \in Readers |-> "none"]
  /\ installed = {}
  /\ writing = [e \in Ends |-> <<>>]
  /\ entries = [e \in Ends |-> <<>>]
  /\ web = [e \in Ends |-> <<>>]
  /\ list = [e \in Ends |-> <<>>]
  /\ front = [e \in Ends |-> 1]
  /\ saving = [e \in Ends |-> {}]
  /\ cached = [e \in Ends |-> {}]
  /\ deleted = [e \in Ends |-> {}]
  /\ master = [num_ends |-> 0, entries |-> <<>>, to_be_cleaned |-> <<>>,
               reusable |-> <<>>, clients |-> <<>>, arity |-> "unspecified"]
  /\ joined = {}
  /\ config_requests = [e \in Ends |-> <<[type |-> "NewEndJoins", e |-> e]>>]
  /\ cmds = [e \in Ends |-> <<>>]
  /\ phase = "idle"
  /\ fault = "none"

WriterStep(w) == AddWriteToken(w) \/ RemoveWriteToken(w)

ReaderStep(r) ==
  \/ AddReadToken(r) \/ RemoveReadToken(r)
  \/ RefreshClientHandle(r) \/ GetReadAccess(r) \/ ReleaseReadAccess(r)
  \/ SelectFirstEntry(r) \/ GetNextEntry(r)

EndStep(e) == InstallService(e) \/ SendRequest(e) \/ ChangeThere(e)

MasterStep == Process \/ Sweep \/ ChangeHere

Step ==
  \/ \E w \in Writers : WriterStep(w)
  \/ \E r \in Readers : ReaderStep(r)
  \/ \E e \in Ends : EndStep(e)
  \/ MasterStep

\* nothing left to be done, or undefined behaviour
Stopped ==
  /\ \/ fault # "none"
     \/ /\ \A w \in Writers : wtoken[w] # "new"
        /\ \A r \in Readers : ~setting.restart /\ rtoken[r] = "removed"
        /\ \A e \in Ends : config_requests[e] = <<>> /\ cmds[e] = <<>>
  /\ UNCHANGED vars

Next == ((fault = "none" /\ Step) \/ Stopped) /\ UNCHANGED setting

Spec == Init /\ [][Next]_<<vars, setting>>

-----------------------------------------------------------------------------
(* Properties *)

Entry == Writers \cup {NoEntry}
Changes == [kind : {"new", "deleted"}, w : Writers, id : 1..MaxEntries,
            tocheck : 0..Cardinality(Readers)]

\* Type of the state of tokens, ends and of the list of changes.
TypeOK ==
  /\ wtoken \in [Writers -> {"new", "on", "removed"}]
  /\ rtoken \in [Readers -> {"new", "on", "removed"}]
  /\ pos \in [Readers -> Nat] /\ cur \in [Readers -> Entry]
  /\ links \in [Readers -> Seq(Writers)]
  /\ held \in [Readers -> {"none", "ready"} \cup Writers]
  /\ installed \subseteq Ends /\ joined \subseteq Ends
  /\ entries \in [Ends -> Seq(Entry)] /\ web \in [Ends -> Seq(Writers)]
  /\ list \in [Ends -> Seq(Changes)] /\ front \in [Ends -> Nat]
  /\ saving \in [Ends -> SUBSET Writers] /\ deleted \in [Ends -> SUBSET Writers]
  /\ phase \in {"idle", "process", "change"}

\* nothing is under way between the ends and the master
Settled ==
  phase = "idle" /\ \A e \in Ends : config_requests[e] = <<>> /\ cmds[e] = <<>>

\* tocheck of a change is the number of clients of the end that have not yet
\* come to it, so a change is recycled neither too early, under a client that
\* points to it, nor kept for a client that is gone (setData() with
\* reading_clients.size(), markHandled(), the refresh in removeReadToken()).
TocheckExact ==
  \A e \in Ends : \A i \in DOMAIN list[e] :
    LET behind == Cardinality({r \in ClientsAt(e) : pos[r] <= i})
    IN  list[e][i].tocheck = behind /\ (i < front[e] => behind = 0)

\* An entry is deleted (DeleteEntryCmd) only when no client of the end is
\* linked to it, reads its data, or has still to process a change that
\* points to it; the confirmations of all ends are there to ensure that.
DeletedUnused ==
  \A e \in Ends : \A r \in ClientsAt(e) : \A w \in deleted[e] :
    /\ w \notin Range(links[r]) /\ cur[r] # w /\ held[r] # w
    /\ \A i \in pos[r]..Len(list[e]) : list[e][i].w # w

\* When all is quiet, each end has the entries that the master has, under the
\* same numbers: no end kept an old entry under a number that was given out
\* again, or lost one.
EndsAgree ==
  Settled => \A e \in joined :
    /\ Len(entries[e]) <= Len(master.entries)
    /\ \A id \in DOMAIN master.entries :
         LET d == master.entries[id]
             dirty == \E i \in DOMAIN master.to_be_cleaned : master.to_be_cleaned[i].id = id
         IN  IF d.active \/ dirty THEN HasEntry(e, id) /\ entries[e][id] = d.w
             ELSE ~HasEntry(e, id)

\* A command about an entry reaches an end only while the end has the entry,
\* as the assertions in updateConfiguration() say.
CommandsKnown ==
  \A e \in Ends : cmds[e] # <<>> /\ (e = Master => phase = "change") =>
    LET m == Head(cmds[e])
    IN  m.type \in {"InvalidateEntryCmd", "CleanEntryCmd", "DeleteEntryCmd", "RemoveSaveupCmd"}
          => HasEntry(e, m.id)

\* A client that has processed all changes is linked to the entries it asked
\* for and to no other; for a client of all entries to every one of them, no
\* matter whether the token or the entry was there first (addReadToken(),
\* refreshClientHandleInner()).
LinksAsRequested ==
  \A r \in Readers : rtoken[r] = "on" /\ pos[r] = Len(list[R[r].end]) + 1 =>
    LET fit == {w \in Range(web[R[r].end]) : TimingCompatible(r, w) /\ ClassMatch(r, w)
                  /\ R[r].label \in {"", W[w].label}}
    IN  /\ Range(links[r]) \subseteq Range(web[R[r].end])
        /\ R[r].want = "any" => Range(links[r]) = fit

\* A client detaches only from an entry it is linked to.
DetachFindsLink == fault # "detach"

\* Between the refresh of the handle and the release of the data nobody
\* changes the entry that the client reads (getReadAccess(),
\* releaseReadAccess()).
AccessKeepsEntry == fault \notin {"access", "release"}

\* A confirmation of cleaning always finds an entry to be cleaned at the
\* front of to_be_cleaned.
ConfirmationExpected == fault # "front"

\* When all is quiet, an entry saves up data at every end exactly as long as
\* reservations are left at the master.
SaveupAgrees ==
  Settled => \A e \in joined : \A id \in DOMAIN master.entries :
    LET d == master.entries[id]
    IN  d.active => (d.w \in saving[e] <=> d.reservations > 0)

\* When all is quiet, an entry the master has in use belongs to a write token
\* that still exists: a token removed before its entry was configured takes
\* the entry with it.
RemovedGoes ==
  Settled => \A id \in DOMAIN master.entries :
    master.entries[id].active => wtoken[master.entries[id].w] = "on"

\* The assertions of UnifiedChannel and its master hold: what a command, a
\* confirmation, a detaching or a reading client is about is there, and an
\* entry is deleted only when no client needs it.
PartnersFound ==
  /\ TypeOK /\ CommandsKnown /\ DetachFindsLink /\ AccessKeepsEntry
  /\ ConfirmationExpected /\ DeletedUnused

\* When all is quiet the ends agree with the master on the entries, on who
\* still saves data, and with the tokens on what exists.
AgreeWhenQuiet == EndsAgree /\ SaveupAgrees /\ RemovedGoes

-----------------------------------------------------------------------------
(* Fairness: the servicer runs, messages arrive, and an activity uses its  *)
(* read tokens again and ends each use.                                    *)

Fairness ==
  /\ WF_vars(fault = "none" /\ Process) /\ WF_vars(fault = "none" /\ Sweep)
  /\ WF_vars(fault = "none" /\ ChangeHere)
  /\ \A e \in Locations : WF_vars(fault = "none" /\ e \in Ends /\ EndStep(e))
  /\ \A r \in ReadTokens :
       /\ WF_vars(fault = "none" /\ r \in Readers /\ RefreshClientHandle(r))
       /\ WF_vars(fault = "none" /\ r \in Readers
                    /\ (GetReadAccess(r) \/ ReleaseReadAccess(r)))

FairSpec == Spec /\ Fairness

\* An entry whose token was removed is in the end deleted at every end, if
\* requests keep coming in: sweep() runs only after one.  (With one end, and
\* entries removed one at a time.)
CleanedInTheEnd ==
  ("one" \in setting.calm /\ setting.restart /\ []<><<Sweep>>_vars) =>
    \A w \in WriteTokens : [](w \in Writers /\ wtoken[w] = "removed"
                           => <>(\A e \in Ends : w \in deleted[e]))

=============================================================================
