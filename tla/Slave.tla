-------------------------------- MODULE Slave --------------------------------
(***************************************************************************)
(* The relay supervisor of slave.c and the threads it drives.              *)
(*                                                                         *)
(*  - the slave thread (_slave_thread): a 1 s loop that either skips the   *)
(*    tick, rescans both relay lists, or does a full refresh: reconcile    *)
(*    the static relays with the config (update_relays), start a detached *)
(*    streamlist thread, stop and free what the config dropped and start  *)
(*    what it added (relay_check_streams / check_relay_stream);           *)
(*  - streamlist threads (streamlist_thread): fetch the master's stream   *)
(*    list and commit it into global.master_relays under relay_lock;      *)
(*  - relay threads (start_relay_stream), one per started relay: connect  *)
(*    upstream, pump through source_main, then flag cleanup and rescan;   *)
(*  - the rest of the server: SIGHUP config rereads, slave_rescan from    *)
(*    listeners of on-demand relays, slave_recheck_mounts from the admin, *)
(*    the fallback mount's audience, the master's list, slave_shutdown.   *)
(*                                                                         *)
(* A relay_server record is an id into rec; the source_t it owns is kept *)
(* in the same record (source, srcRunning, req).  The source tree is the *)
(* set of reserved mount names.  A relay descriptor from the config or    *)
(* the master keeps what relay_has_changed compares: the local mount,     *)
(* the origin (server, port, mount, mp3metadata as one value), on_demand  *)
(* and enable.                                                            *)
(***************************************************************************)
EXTENDS Integers, Sequences, FiniteSets, SequencesExt, TLC

CONSTANTS
  Mounts,           \* local mount names
  ValidMounts,      \* the names that start with '/'
  Origins,          \* upstream (server, port, mount, mp3metadata) tuples
  MasterOrigin,     \* the origin of every master relay
  StaticConfigs,    \* relay lists a config file can hold
  MasterLists,      \* stream lists the master can serve
  MasterOnDemand,   \* config->on_demand, given to master relays
  MasterConfigured, \* master server, port and password all set
  UpdateInterval,   \* config->master_update_interval
  OverrideMounts,   \* relays whose mount has fallback_override set
  Threads,          \* thread slots; thread_create fails when none is free
  NoThread,
  FetchIds,         \* streamlist threads that can run at once
  MaxTruncated,     \* bound on streamlist bodies cut off after 200 OK
  MaxReloads,       \* bound on config rereads
  AllowShutdown,    \* whether the server calls slave_shutdown
  MaxMasterChanges, \* bound on changes of the master's stream list
  Hosts, MasterHost, MasterAdvertised

Desc == [mount : Mounts, origin : Origins, onDemand : BOOLEAN, enable : BOOLEAN]

ASSUME /\ ValidMounts \subseteq Mounts
       /\ MasterOrigin \in Origins
       /\ StaticConfigs \subseteq Seq(Desc)
       /\ MasterLists \subseteq Seq(Mounts)
       /\ UpdateInterval \in Nat
       /\ Threads \subseteq Nat /\ NoThread \notin Threads
       /\ "sup" \notin FetchIds

VARIABLES
  rec,            \* record id -> relay_server fields and its source_t
  nextRec,        \* next record id relay_copy hands out
  freed,          \* ids passed to relay_free
  reserved,       \* mount names reserved in the source tree
  thr,            \* thread slot -> [pc, rec] of a relay thread
  relays,         \* global.relays (ids, head first)
  masterRelays,   \* global.master_relays
  ctx,            \* per process: pc, list being freed, list to start after
  lock,           \* holder of relay_lock: "none", "sup" or a fetch id
  cfgRelays,      \* config->relay of the current config
  reread,         \* global.schedule_config_reread
  reloads,        \* config rereads so far
  served,         \* the master's current stream list
  masterChanges,  \* changes of served so far
  fetchList,      \* fetch id -> its master->new_relays
  truncated,      \* bodies cut off so far
  slaveRunning,   \* slave_running
  rescan,         \* rescan_relays
  updateSettings, \* update_settings
  maxInterval,    \* max_interval
  interval,       \* the slave thread's interval
  fallbackBusy,   \* the fallback mount runs with listeners
  slaves, slaveCount

SH == INSTANCE SlaveHosts WITH Clients <- {}, ClientHeader <- <<>>,
        Malformed <- NoThread, RandValues <- {}, RAND_MAX <- 0,
        connected <- {}, redirect <- NoThread

worldVars == <<rec, nextRec, freed, reserved, thr, rescan, updateSettings>>
envVars == <<cfgRelays, reread, reloads, served, masterChanges, fallbackBusy,
             slaveRunning>>
vars == <<rec, nextRec, freed, reserved, thr, relays, masterRelays, ctx, lock,
          cfgRelays, reread, reloads, served, masterChanges, fetchList, truncated,
          slaveRunning, rescan,
          updateSettings, maxInterval, interval, fallbackBusy, slaves,
          slaveCount>>

Procs == {"sup"} \cup FetchIds
Live == (DOMAIN rec) \ freed

-----------------------------------------------------------------------------
(* The state a sweep under relay_lock reads and writes, as one record so   *)
(* that a loop over a relay list is a fold.  blocked: a thread_join in the *)
(* loop would wait for a thread that has not finished.                    *)
World == [rec |-> rec, nextRec |-> nextRec, freed |-> freed,
          reserved |-> reserved, thr |-> thr, rescan |-> rescan,
          upd |-> updateSettings, blocked |-> FALSE]

SetWorld(W) ==
  /\ rec' = W.rec /\ nextRec' = W.nextRec /\ freed' = W.freed
  /\ reserved' = W.reserved /\ thr' = W.thr
  /\ rescan' = W.rescan /\ updateSettings' = W.upd

\* slave_rebuild_mounts
SlaveRebuildMounts(W) == [W EXCEPT !.upd = TRUE, !.rescan = TRUE]

\* relay_copy: a new record for descriptor d (its source is d's, NULL).
RelayCopy(d) ==
  [mount |-> d.mount, origin |-> d.origin, onDemand |-> d.onDemand,
   enable |-> d.enable, source |-> FALSE, running |-> FALSE,
   cleanup |-> FALSE, thread |-> NoThread, srcRunning |-> FALSE,
   req |-> FALSE]

\* Variant: relay_free without source_free_source, the mount stays reserved.
RelayFreeKeepReservation(W, r) == [W EXCEPT !.freed = @ \cup {r}]

\* Variant: relay_free releases the mount name whether or not the record
\* owns the source.
RelayFreeAnyRelease(W, r) ==
  [W EXCEPT !.freed = @ \cup {r}, !.reserved = @ \ {W.rec[r].mount}]

\* relay_free: free the record and, with it, its source reservation.
RelayFree(W, r) ==
  [W EXCEPT !.freed = @ \cup {r},
            !.reserved = IF W.rec[r].source THEN @ \ {W.rec[r].mount} ELSE @]

\* Variants: on_demand compared as a material field; the comparison inverted.
RelayHasChangedOnDemand(d, old) ==
  d.origin # old.origin \/ d.onDemand # old.onDemand
RelayHasChangedAlways(d, old) == TRUE

\* relay_has_changed(new, old) for records with the same local mount: the
\* origin decides; an unchanged relay takes the new on_demand.
RelayHasChanged(d, old) == d.origin # old.origin

(* update_relay_set: for each updated relay, the first current record with *)
(* its mount that has not changed is unlinked and kept, otherwise a copy   *)
(* is made; each goes on the front of the new list.  What stays in current *)
(* is the cleanup list.                                                    *)
RECURSIVE UpdateRelaySet(_, _, _, _)
UpdateRelaySet(W, current, updated, newList) ==
  IF updated = <<>>
  THEN [w |-> W, list |-> newList, cleanup |-> current]
  ELSE
    LET d    == Head(updated)
        keep == {i \in 1..Len(current) :
                   W.rec[current[i]].mount = d.mount
                   /\ ~RelayHasChanged(d, W.rec[current[i]])}
    IN IF keep # {}
       THEN LET i == CHOOSE k \in keep : \A j \in keep : k <= j
                e == current[i]
            IN UpdateRelaySet([W EXCEPT !.rec[e].onDemand = d.onDemand],
                              RemoveAt(current, i), Tail(updated),
                              <<e>> \o newList)
       ELSE UpdateRelaySet([W EXCEPT !.rec = @ @@ (W.nextRec :> RelayCopy(d)),
                                     !.nextRec = @ + 1],
                           current, Tail(updated), <<W.nextRec>> \o newList)

\* update_relays: the new list replaces the old; the rest is returned.
UpdateRelays(W, current, updated) == UpdateRelaySet(W, current, updated, <<>>)

-----------------------------------------------------------------------------
\* thread_create for record r: the lowest free slot, or NULL.
RelayThreadCreate(W, r) ==
  LET idle == {t \in Threads : W.thr[t].pc = "idle"}
  IN IF idle = {} THEN [W EXCEPT !.rec[r].thread = NoThread]
     ELSE LET t == CHOOSE s \in idle : \A u \in idle : s <= u
          IN [W EXCEPT !.thr[t] = [pc |-> "start", rec |-> r],
                       !.rec[r].thread = t]

\* The tail of check_relay_stream: join a relay thread that flagged cleanup.
JoinFinished(W, r) ==
  LET R == W.rec[r]
  IN IF ~(R.cleanup /\ R.thread # NoThread) THEN W
     ELSE IF W.thr[R.thread].pc # "exit" THEN [W EXCEPT !.blocked = TRUE]
     ELSE LET W1 == [W EXCEPT !.thr[R.thread] = [pc |-> "idle", rec |-> 0],
                              !.rec[r].thread = NoThread,
                              !.rec[r].cleanup = FALSE,
                              !.rec[r].running = FALSE]
          IN IF ~R.enable THEN SlaveRebuildMounts(W1) ELSE W1

\* Variant: a running relay is passed over without the join of its thread.
CheckRelayStreamNoJoin(W, r) ==
  LET R  == W.rec[r]
      W1 == IF ~R.source /\ R.mount \notin W.reserved
            THEN [W EXCEPT !.rec[r].source = TRUE,
                           !.reserved = @ \cup {R.mount}]
            ELSE W
      R1 == W1.rec[r]
      W2 == [SlaveRebuildMounts(W1) EXCEPT !.rec[r].req =
               @ \/ (R1.mount \in OverrideMounts /\ fallbackBusy)]
  IN CASE ~R.source /\ R.mount \notin ValidMounts -> W
       [] R1.running                             -> W1
       [] ~R1.source \/ ~R1.enable               -> JoinFinished(W1, r)
       [] ~R1.onDemand                           -> RelayThreadCreate(W1, r)
       [] W2.rec[r].req                          -> RelayThreadCreate(W2, r)
       [] OTHER                                  -> JoinFinished(W2, r)

(* check_relay_stream: reserve the mount of a new relay, then start it    *)
(* unless it runs, is disabled or is on demand with nobody asking; if it  *)
(* was not started, join a finished thread.                               *)
CheckRelayStream(W, r) ==
  LET R    == W.rec[r]
      W1   == IF ~R.source /\ R.mount \notin W.reserved
              THEN [W EXCEPT !.rec[r].source = TRUE,
                             !.reserved = @ \cup {R.mount}]
              ELSE W
      R1   == W1.rec[r]
      \* on demand: slave_rebuild_mounts, then the fallback override
      W2   == [SlaveRebuildMounts(W1) EXCEPT !.rec[r].req =
                 @ \/ (R1.mount \in OverrideMounts /\ fallbackBusy)]
  IN CASE ~R.source /\ R.mount \notin ValidMounts -> W
       [] ~R1.source \/ R1.running \/ ~R1.enable  -> JoinFinished(W1, r)
       [] ~R1.onDemand                           -> RelayThreadCreate(W1, r)
       [] W2.rec[r].req                          -> RelayThreadCreate(W2, r)
       [] OTHER                                  -> JoinFinished(W2, r)

RECURSIVE CheckStreams(_, _)
CheckStreams(W, list) ==
  IF list = <<>> THEN W
  ELSE CheckStreams(CheckRelayStream(W, Head(list)), Tail(list))

\* The relay list a process starts once its cleanup list is freed.
StartList(p) ==
  CASE ctx[p].start = "static" -> relays
    [] ctx[p].start = "master" -> masterRelays
    [] OTHER                   -> <<>>

\* A master stream list line becomes a relay (streamlist_data).
MasterDesc(m) ==
  [mount |-> m, origin |-> MasterOrigin, onDemand |-> MasterOnDemand,
   enable |-> TRUE]

(***************************************************************************)
(* The body of admin/streamlist.txt as bytes: a mount name is one symbol  *)
(* (its text is never split into parts the code tells apart), LF and CR  *)
(* are the line-end bytes.  streamlist_data gets it in curl's chunks.     *)
(***************************************************************************)
LF == "LF"
CR == "CR"

\* The text before the first byte c (all of it if none): what strlen sees
\* once that byte is overwritten with '\0'.
UpTo(s, c) ==
  LET i == SelectInSeq(s, LAMBDA x : x = c)
  IN IF i = 0 THEN s ELSE SubSeq(s, 1, i - 1)

\* The loop of streamlist_data over the buffer: each complete line is cut
\* at its LF and at a CR, and a non-empty one is pushed on the front of
\* new_relays; the incomplete rest is moved to the buffer's start and
\* master->previous keeps its length.
RECURSIVE ScanLines(_, _)
ScanLines(buf, list) ==
  LET eol  == SelectInSeq(buf, LAMBDA c : c = LF)
      line == UpTo(SubSeq(buf, 1, eol - 1), CR)
  IN IF eol = 0 THEN [previous |-> buf, newRelays |-> list]
     ELSE ScanLines(SubSeq(buf, eol + 1, Len(buf)),
                    IF line = << >> THEN list
                    ELSE <<MasterDesc(Head(line))>> \o list)

\* streamlist_data dropping the incomplete line instead of keeping it in
\* master->buffer for the next call.
StreamlistDataNoCarry(st, chunk) == ScanLines(chunk, st.newRelays)

\* One call of streamlist_data: the chunk is appended to the previous
\* incomplete line, and the buffer is scanned.
StreamlistData(st, chunk) == ScanLines(st.previous \o chunk, st.newRelays)

\* The bodies a master serves for a list: one mount per line, each ended
\* by LF or CR LF, and possibly a blank line at the end.
RECURSIVE StreamlistBodies(_)
StreamlistBodies(list) ==
  IF list = << >> THEN {<< >>, <<LF>>}
  ELSE {<<Head(list)>> \o e \o b : e \in {<<LF>>, <<CR, LF>>},
                                     b \in StreamlistBodies(Tail(list))}

\* The ways curl can hand a body to the write callback: in order, in
\* non-empty chunks.
RECURSIVE Chunkings(_)
Chunkings(b) ==
  IF b = << >> THEN {<< >>}
  ELSE UNION {{<<SubSeq(b, 1, k)>> \o c : c \in Chunkings(SubSeq(b, k + 1, Len(b)))}
              : k \in 1..Len(b)}

\* new_relays after curl delivered the chunks in order.
Streamlist(chunks) ==
  FoldLeft(StreamlistData, [previous |-> << >>, newRelays |-> << >>],
           chunks).newRelays

\* What new_relays can be for each list the master serves: after a whole
\* body, or after one cut off before its last byte, over every body and
\* every chunking.  It depends on constants only, so TLC computes it once.
StreamlistOutcomes ==
  [l \in MasterLists |->
     [whole |-> {Streamlist(ch) :
                   ch \in UNION {Chunkings(b) : b \in StreamlistBodies(l)}},
      cut   |-> {Streamlist(ch) :
                   ch \in UNION {UNION {Chunkings(SubSeq(b, 1, k)) :
                                        k \in 0..(Len(b) - 1)} :
                                 b \in StreamlistBodies(l)}}]]

SetPc(p, pc) == [ctx EXCEPT ![p].pc = pc]

-----------------------------------------------------------------------------
(***************************************************************************)
(* The slave thread.  ctx["sup"].pc: "top" (loop head), "full" / "rescan" *)
(* (waiting for relay_lock), "free" / "join" (relay_check_streams freeing *)
(* its cleanup list), "clear" (after the sweep), "done" (thread ended).   *)
(***************************************************************************)

\* Loop head: re-read the config file when asked (event_config_read then
\* slave_recheck_mounts).
SupReread ==
  /\ ctx["sup"].pc = "top" /\ reread
  /\ \E c \in StaticConfigs : cfgRelays' = c
  /\ reread' = FALSE
  /\ maxInterval' = 0 /\ updateSettings' = TRUE
  /\ UNCHANGED <<rec, nextRec, freed, reserved, thr, relays, masterRelays,
                 ctx, lock, reloads, served, masterChanges, fetchList,
                 truncated, slaveRunning, rescan, interval, fallbackBusy,
                 slaves, slaveCount>>

\* The interval after "++interval", which only runs when no rescan is asked.
NextInterval == IF rescan THEN interval ELSE interval + 1

SupSkip ==
  /\ ctx["sup"].pc = "top" /\ ~reread /\ slaveRunning
  /\ ~rescan /\ maxInterval > NextInterval
  /\ interval' = NextInterval
  /\ UNCHANGED <<rec, nextRec, freed, reserved, thr, relays, masterRelays,
                 ctx, lock, cfgRelays, reread, reloads, served, masterChanges,
                 fetchList, truncated, slaveRunning, rescan, updateSettings,
                 maxInterval, fallbackBusy, slaves, slaveCount>>

\* update_from_master: start a detached streamlist thread.
UpdateFromMaster ==
  LET idle == {f \in FetchIds : ctx[f].pc \in {"none", "done"}}
  IN IF MasterConfigured /\ idle # {}
     THEN LET f == CHOOSE g \in idle : TRUE
          IN ctx' = [ctx EXCEPT ![f].pc = "http", !["sup"].pc = "full"]
     ELSE ctx' = SetPc("sup", "full")

\* Variant: the full refresh leaves interval as "++interval" made it.
SupFullRefreshNoReset ==
  /\ ctx["sup"].pc = "top" /\ ~reread /\ slaveRunning
  /\ maxInterval <= NextInterval
  /\ interval' = NextInterval /\ maxInterval' = UpdateInterval
  /\ SH!UpdateMasterAsSlave
  /\ UpdateFromMaster
  /\ UNCHANGED <<rec, nextRec, freed, reserved, thr, relays, masterRelays,
                 lock, cfgRelays, reread, reloads, served, masterChanges,
                 fetchList, truncated, slaveRunning, rescan, updateSettings,
                 fallbackBusy>>

\* A full refresh: take the config, reset the interval, seed the master as
\* a slave host and start the master fetch; then wait for relay_lock.
SupFullRefresh ==
  /\ ctx["sup"].pc = "top" /\ ~reread /\ slaveRunning
  /\ maxInterval <= NextInterval
  /\ interval' = 0 /\ maxInterval' = UpdateInterval
  /\ SH!UpdateMasterAsSlave
  /\ UpdateFromMaster
  /\ UNCHANGED <<rec, nextRec, freed, reserved, thr, relays, masterRelays,
                 lock, cfgRelays, reread, reloads, served, masterChanges,
                 fetchList, truncated, slaveRunning, rescan, updateSettings,
                 fallbackBusy>>

SupRescanTick ==
  /\ ctx["sup"].pc = "top" /\ ~reread /\ slaveRunning
  /\ rescan /\ maxInterval > NextInterval
  /\ ctx' = SetPc("sup", "rescan")
  /\ UNCHANGED <<rec, nextRec, freed, reserved, thr, relays, masterRelays,
                 lock, cfgRelays, reread, reloads, served, masterChanges,
                 fetchList, truncated, slaveRunning, rescan, updateSettings,
                 maxInterval, interval, fallbackBusy, slaves, slaveCount>>

\* Under relay_lock: update_relays on the static list, then free the
\* cleanup list and start global.relays.
SupUpdateStatic ==
  /\ ctx["sup"].pc = "full" /\ lock = "none"
  /\ LET u == UpdateRelays(World, relays, cfgRelays)
     IN /\ SetWorld(u.w)
        /\ relays' = u.list
        /\ ctx' = [ctx EXCEPT !["sup"] = [@ EXCEPT !.pc = "free",
                     !.toFree = u.cleanup, !.start = "static",
                     !.after = "clear"]]
  /\ lock' = "sup"
  /\ UNCHANGED <<masterRelays, cfgRelays, reread, reloads, served,
                 masterChanges, fetchList, truncated, slaveRunning, maxInterval,
                 interval, fallbackBusy, slaves, slaveCount>>

\* Under relay_lock: check the master relays, then the static relays.
SupRescan ==
  /\ ctx["sup"].pc = "rescan" /\ lock = "none"
  /\ LET W == CheckStreams(CheckStreams(World, masterRelays), relays)
     IN /\ ~W.blocked
        /\ SetWorld(W)
  /\ ctx' = SetPc("sup", "clear")
  /\ UNCHANGED <<relays, masterRelays, lock, cfgRelays, reread, reloads,
                 served, masterChanges, fetchList, truncated, slaveRunning,
                 maxInterval, interval, fallbackBusy, slaves, slaveCount>>

\* rescan_relays = 0, then source_recheck_mounts if update_settings.
SupClear ==
  /\ ctx["sup"].pc = "clear"
  /\ rescan' = FALSE /\ updateSettings' = FALSE
  /\ ctx' = SetPc("sup", "top")
  /\ UNCHANGED <<rec, nextRec, freed, reserved, thr, relays, masterRelays,
                 lock, cfgRelays, reread, reloads, served, masterChanges,
                 fetchList, truncated, slaveRunning, maxInterval, interval,
                 fallbackBusy, slaves, slaveCount>>

\* Variant: the shutdown pass starts at the second relay.
SupShutdownSkipHead ==
  /\ ctx["sup"].pc = "top" /\ ~reread /\ ~slaveRunning
  /\ ctx' = [ctx EXCEPT !["sup"] = [@ EXCEPT !.pc = "free",
               !.toFree = SubSeq(relays, 2, Len(relays)), !.start = "none",
               !.after = "master"]]
  /\ UNCHANGED <<rec, nextRec, freed, reserved, thr, relays, masterRelays,
                 lock, cfgRelays, reread, reloads, served, masterChanges,
                 fetchList, truncated, slaveRunning, rescan, updateSettings,
                 maxInterval, interval, fallbackBusy, slaves, slaveCount>>

\* slave_running is 0: leave the loop and free global.relays, without
\* relay_lock; the global keeps its pointers.
SupShutdown ==
  /\ ctx["sup"].pc = "top" /\ ~reread /\ ~slaveRunning
  /\ ctx' = [ctx EXCEPT !["sup"] = [@ EXCEPT !.pc = "free",
               !.toFree = relays, !.start = "none", !.after = "master"]]
  /\ UNCHANGED <<rec, nextRec, freed, reserved, thr, relays, masterRelays,
                 lock, cfgRelays, reread, reloads, served, masterChanges,
                 fetchList, truncated, slaveRunning, rescan, updateSettings,
                 maxInterval, interval, fallbackBusy, slaves, slaveCount>>

\* Then free global.master_relays as it is now, again without relay_lock.
SupShutdownMaster ==
  /\ ctx["sup"].pc = "master"
  /\ ctx' = [ctx EXCEPT !["sup"] = [@ EXCEPT !.pc = "free",
               !.toFree = masterRelays, !.start = "none", !.after = "done"]]
  /\ UNCHANGED <<rec, nextRec, freed, reserved, thr, relays, masterRelays,
                 lock, cfgRelays, reread, reloads, served, masterChanges,
                 fetchList, truncated, slaveRunning, rescan, updateSettings,
                 maxInterval, interval, fallbackBusy, slaves, slaveCount>>

-----------------------------------------------------------------------------
(***************************************************************************)
(* relay_check_streams(to_start, to_free), run by the slave thread or a   *)
(* streamlist thread p: free each record of the cleanup list, stopping    *)
(* and joining its relay thread first if it runs, then check to_start.    *)
(***************************************************************************)
Head1(p) == Head(ctx[p].toFree)

\* source->running = 0 asks the relay's source_main to return.
FreeStop(p) ==
  /\ ctx[p].pc = "free" /\ ctx[p].toFree # <<>>
  /\ rec[Head1(p)].source /\ rec[Head1(p)].running
  /\ rec' = [rec EXCEPT ![Head1(p)].srcRunning = FALSE]
  /\ ctx' = SetPc(p, "join")
  /\ UNCHANGED <<nextRec, freed, reserved, thr, relays, masterRelays, lock,
                 fetchList, truncated, rescan, updateSettings, maxInterval,
                 interval, slaves, slaveCount>> /\ UNCHANGED envVars

\* Variant: the joined thread slot is left naming no record.
FreeJoinNullRec(p) ==
  LET r == Head1(p)
      t == rec[r].thread
  IN /\ ctx[p].pc = "join"
     /\ t # NoThread /\ thr[t].pc = "exit"
     /\ SetWorld(RelayFree(SlaveRebuildMounts(
                   [World EXCEPT !.thr[t] =
                     [pc |-> "idle", rec |-> NoThread]]), r))
     /\ ctx' = [ctx EXCEPT ![p] = [@ EXCEPT !.pc = "free", !.toFree = Tail(@)]]
     /\ UNCHANGED <<relays, masterRelays, lock, fetchList, truncated,
                    maxInterval, interval, slaves, slaveCount>>
     /\ UNCHANGED envVars

\* thread_join, slave_rebuild_mounts, relay_free.
FreeJoin(p) ==
  LET r == Head1(p)
      t == rec[r].thread
  IN /\ ctx[p].pc = "join"
     /\ t # NoThread /\ thr[t].pc = "exit"
     /\ SetWorld(RelayFree(SlaveRebuildMounts(
                   [World EXCEPT !.thr[t] = [pc |-> "idle", rec |-> 0]]), r))
     /\ ctx' = [ctx EXCEPT ![p] = [@ EXCEPT !.pc = "free", !.toFree = Tail(@)]]
     /\ UNCHANGED <<relays, masterRelays, lock, fetchList, truncated,
                    maxInterval, interval, slaves, slaveCount>>
     /\ UNCHANGED envVars

\* thread_join(NULL): the handle was overwritten by a thread_create that
\* failed while the first thread was still starting.  thread_join reads
\* thread->sys_thread through the NULL pointer and the server dies.
JoinNullThread(p) ==
  /\ ctx[p].pc = "join" /\ rec[Head1(p)].thread = NoThread
  /\ ctx' = SetPc(p, "crashed")
  /\ UNCHANGED <<rec, nextRec, freed, reserved, thr, relays, masterRelays,
                 lock, fetchList, truncated, rescan, updateSettings,
                 maxInterval, interval, slaves, slaveCount>> /\ UNCHANGED envVars

\* Variant: relay_free's result not assigned back to to_free.
FreeIdleNoAdvance(p) ==
  /\ ctx[p].pc = "free" /\ ctx[p].toFree # <<>>
  /\ ~(rec[Head1(p)].source /\ rec[Head1(p)].running)
  /\ SetWorld(RelayFree(World, Head1(p)))
  /\ UNCHANGED ctx
  /\ UNCHANGED <<relays, masterRelays, lock, fetchList, truncated, maxInterval,
                 interval, slaves, slaveCount>> /\ UNCHANGED envVars

\* A record with no running relay: clear its stats and relay_free it.
FreeIdle(p) ==
  /\ ctx[p].pc = "free" /\ ctx[p].toFree # <<>>
  /\ ~(rec[Head1(p)].source /\ rec[Head1(p)].running)
  /\ SetWorld(RelayFree(World, Head1(p)))
  /\ ctx' = [ctx EXCEPT ![p].toFree = Tail(@)]
  /\ UNCHANGED <<relays, masterRelays, lock, fetchList, truncated, maxInterval,
                 interval, slaves, slaveCount>> /\ UNCHANGED envVars

\* The cleanup list is freed: check_relay_stream on each relay to start,
\* then release relay_lock if p holds it.
StartRelays(p) ==
  /\ ctx[p].pc = "free" /\ ctx[p].toFree = <<>>
  /\ LET W == CheckStreams(World, StartList(p))
     IN /\ ~W.blocked
        /\ SetWorld(W)
  /\ lock' = IF lock = p THEN "none" ELSE lock
  /\ ctx' = SetPc(p, ctx[p].after)
  /\ UNCHANGED <<relays, masterRelays, fetchList, truncated, maxInterval,
                 interval, slaves, slaveCount>> /\ UNCHANGED envVars

-----------------------------------------------------------------------------
(***************************************************************************)
(* A streamlist thread f.  ctx[f].pc: "none" (not started), "http" (curl   *)
(* request running), "commit" (200 OK seen, waiting for relay_lock),      *)
(* "free"/"join" (relay_check_streams), "done".                           *)
(***************************************************************************)

\* curl_easy_perform.  A status other than 200 or a failed request leaves
\* master->ok unset.  After "200 OK" the body arrives in chunks, and the
\* 15 s timeout may cut it after any byte; master->ok stays set and the
\* lines parsed so far are committed.
FetchResponse(f) ==
  /\ ctx[f].pc = "http"
  /\ \/ ctx' = SetPc(f, "done") /\ UNCHANGED <<fetchList, truncated>>
     \/ \E nr \in StreamlistOutcomes[served].whole :
          /\ fetchList' = [fetchList EXCEPT ![f] = nr]
          /\ ctx' = SetPc(f, "commit") /\ UNCHANGED truncated
     \/ \E nr \in StreamlistOutcomes[served].cut :
          /\ truncated < MaxTruncated /\ truncated' = truncated + 1
          /\ fetchList' = [fetchList EXCEPT ![f] = nr]
          /\ ctx' = SetPc(f, "commit")
  /\ UNCHANGED <<rec, nextRec, freed, reserved, thr, relays, masterRelays,
                 lock, rescan, updateSettings, maxInterval, interval,
                 slaves, slaveCount>> /\ UNCHANGED envVars

\* Under relay_lock: update_relays on global.master_relays, then free the
\* cleanup list and start the master relays (new_relays is then freed).
FetchCommit(f) ==
  /\ ctx[f].pc = "commit" /\ lock = "none"
  /\ LET u == UpdateRelays(World, masterRelays, fetchList[f])
     IN /\ SetWorld(u.w)
        /\ masterRelays' = u.list
        /\ ctx' = [ctx EXCEPT ![f] = [@ EXCEPT !.pc = "free",
                     !.toFree = u.cleanup, !.start = "master",
                     !.after = "done"]]
  /\ lock' = f
  /\ fetchList' = [fetchList EXCEPT ![f] = << >>]
  /\ UNCHANGED <<relays, truncated, maxInterval, interval, slaves, slaveCount>>
  /\ UNCHANGED envVars

-----------------------------------------------------------------------------
(***************************************************************************)
(* A relay thread t (start_relay_stream).  thr[t].pc: "start" (created,   *)
(* not yet run), "io" (connecting and reading the response header),       *)
(* "pump" (in source_main), "exit" (returned, not joined), "idle".        *)
(***************************************************************************)
RelayOf(t) == thr[t].rec

WorkerVars == <<nextRec, freed, reserved, relays, masterRelays, ctx, lock,
                fetchList, truncated, updateSettings, maxInterval, interval,
                slaves, slaveCount>>

\* relay->running = 1
RelayStart(t) ==
  /\ thr[t].pc = "start"
  /\ rec' = [rec EXCEPT ![RelayOf(t)].running = TRUE]
  /\ thr' = [thr EXCEPT ![t].pc = "io"]
  /\ UNCHANGED rescan /\ UNCHANGED WorkerVars /\ UNCHANGED envVars

\* Connect, header read, parse, client_create or connection_complete_source
\* failed: move listeners to the fallback, source_clear_source, then flag
\* cleanup and ask for a rescan.
RelayFail(t) ==
  /\ thr[t].pc = "io"
  /\ rec' = [rec EXCEPT ![RelayOf(t)].srcRunning = FALSE,
                        ![RelayOf(t)].req = FALSE,
                        ![RelayOf(t)].cleanup = TRUE]
  /\ rescan' = TRUE
  /\ thr' = [thr EXCEPT ![t].pc = "exit"]
  /\ UNCHANGED WorkerVars /\ UNCHANGED envVars

\* connection_complete_source made the source running; source_main runs.
RelayConnected(t) ==
  /\ thr[t].pc = "io"
  /\ rec' = [rec EXCEPT ![RelayOf(t)].srcRunning = TRUE]
  /\ thr' = [thr EXCEPT ![t].pc = "pump"]
  /\ UNCHANGED rescan /\ UNCHANGED WorkerVars /\ UNCHANGED envVars

\* source_main returned (stop request or end of the upstream stream):
\* flag cleanup and ask for a rescan.
RelayPumpReturn(t) ==
  /\ thr[t].pc = "pump"
  /\ rec' = [rec EXCEPT ![RelayOf(t)].cleanup = TRUE]
  /\ rescan' = TRUE
  /\ thr' = [thr EXCEPT ![t].pc = "exit"]
  /\ UNCHANGED WorkerVars /\ UNCHANGED envVars

-----------------------------------------------------------------------------
(***************************************************************************)
(* The rest of the server.                                                *)
(***************************************************************************)
EnvFixed == <<rec, nextRec, freed, reserved, thr, relays, masterRelays, ctx,
              lock, fetchList, truncated, maxInterval, interval, slaves,
              slaveCount>>

\* SIGHUP: schedule_config_reread.
RequestReread ==
  /\ ~reread /\ reloads < MaxReloads /\ slaveRunning
  /\ reread' = TRUE /\ reloads' = reloads + 1
  /\ UNCHANGED <<cfgRelays, served, masterChanges, fallbackBusy, slaveRunning,
                 rescan, updateSettings>> /\ UNCHANGED EnvFixed

\* A listener asks for an on-demand relay: on_demand_req and slave_rescan.
ListenerRequest(r) ==
  /\ r \in Live /\ rec[r].source /\ rec[r].onDemand /\ ~rec[r].req
  /\ rec' = [rec EXCEPT ![r].req = TRUE]
  /\ rescan' = TRUE
  /\ UNCHANGED <<nextRec, freed, reserved, thr, relays, masterRelays, ctx,
                 lock, fetchList, truncated, maxInterval, interval, slaves,
                 slaveCount, updateSettings>> /\ UNCHANGED envVars

\* slave_recheck_mounts from the admin interface.
SlaveRecheckMounts ==
  /\ slaveRunning
  /\ maxInterval' = 0 /\ updateSettings' = TRUE
  /\ UNCHANGED <<rec, nextRec, freed, reserved, thr, relays, masterRelays,
                 ctx, lock, fetchList, truncated, interval, slaves, slaveCount,
                 rescan>>
  /\ UNCHANGED envVars

\* Listeners come to or leave the fallback mount of override relays.
FallbackChange ==
  /\ OverrideMounts # {}
  /\ fallbackBusy' = ~fallbackBusy
  /\ UNCHANGED <<cfgRelays, reread, reloads, served, masterChanges,
                 slaveRunning, rescan, updateSettings>> /\ UNCHANGED EnvFixed

\* The master's sources change.
MasterChange ==
  /\ masterChanges < MaxMasterChanges
  /\ \E l \in MasterLists \ {served} : served' = l
  /\ masterChanges' = masterChanges + 1
  /\ UNCHANGED <<cfgRelays, reread, reloads, fallbackBusy, slaveRunning,
                 rescan, updateSettings>> /\ UNCHANGED EnvFixed

\* slave_shutdown: slave_running = 0, then join the slave thread.
SlaveShutdown ==
  /\ AllowShutdown /\ slaveRunning
  /\ slaveRunning' = FALSE
  /\ UNCHANGED <<cfgRelays, reread, reloads, served, masterChanges,
                 fallbackBusy, rescan, updateSettings>> /\ UNCHANGED EnvFixed

-----------------------------------------------------------------------------
\* slave_initialize starts the slave thread; its prelude seeds the master
\* as a slave host.  Config and master list are any the server can have.
Init ==
  /\ rec = << >> /\ nextRec = 1 /\ freed = {} /\ reserved = {}
  /\ thr = [t \in Threads |-> [pc |-> "idle", rec |-> 0]]
  /\ relays = << >> /\ masterRelays = << >>
  /\ ctx = [p \in Procs |-> [pc |-> IF p = "sup" THEN "top" ELSE "none",
                             toFree |-> << >>, start |-> "none",
                             after |-> "done"]]
  /\ lock = "none"
  /\ cfgRelays \in StaticConfigs
  /\ reread = FALSE /\ reloads = 0
  /\ served \in MasterLists /\ masterChanges = 0
  /\ fetchList = [f \in FetchIds |-> << >>] /\ truncated = 0
  /\ slaveRunning = TRUE /\ rescan = FALSE /\ updateSettings = FALSE
  /\ maxInterval = 0 /\ interval = 0
  /\ fallbackBusy = FALSE
  /\ slaves = IF MasterAdvertised THEN <<[host |-> MasterHost, count |-> 1]>>
              ELSE << >>
  /\ slaveCount = IF MasterAdvertised THEN 1 ELSE 0

SupNext ==
  \/ SupReread \/ SupSkip \/ SupFullRefresh \/ SupRescanTick
  \/ SupUpdateStatic \/ SupRescan \/ SupClear \/ SupShutdown
  \/ SupShutdownMaster

SweepNext(p) ==
  FreeStop(p) \/ FreeJoin(p) \/ JoinNullThread(p) \/ FreeIdle(p) \/ StartRelays(p)

FetchNext(f) == FetchResponse(f) \/ FetchCommit(f)

RelayNext(t) ==
  RelayStart(t) \/ RelayFail(t) \/ RelayConnected(t) \/ RelayPumpReturn(t)

EnvNext ==
  \/ RequestReread \/ SlaveRecheckMounts \/ FallbackChange \/ MasterChange
  \/ SlaveShutdown \/ \E r \in Live : ListenerRequest(r)

\* A crash ends every thread of the server.
Crashed == \E p \in Procs : ctx[p].pc = "crashed"

Next ==
  /\ ~Crashed
  /\ \/ SupNext
     \/ \E p \in Procs : SweepNext(p)
     \/ \E f \in FetchIds : FetchNext(f)
     \/ \E t \in Threads : RelayNext(t)
     \/ EnvNext

(* Threads are scheduled fairly.  source_main returning is only owed once *)
(* its source is asked to stop.  The environment owes nothing.            *)
Fairness ==
  /\ WF_vars(SupNext)
  /\ \A p \in Procs : WF_vars(SweepNext(p))
  /\ \A f \in FetchIds : WF_vars(FetchNext(f))
  /\ \A t \in Threads :
       WF_vars(RelayStart(t) \/ RelayFail(t) \/ RelayConnected(t))
  /\ \A t \in Threads :
       WF_vars(RelayPumpReturn(t) /\ ~rec[RelayOf(t)].srcRunning)

Spec == Init /\ [][Next]_vars /\ Fairness

-----------------------------------------------------------------------------
TypeOK ==
  /\ nextRec \in Nat \ {0}
  /\ DOMAIN rec = 1..(nextRec - 1)
  /\ \A r \in DOMAIN rec :
       rec[r] \in [mount : Mounts, origin : Origins, onDemand : BOOLEAN,
                   enable : BOOLEAN, source : BOOLEAN, running : BOOLEAN,
                   cleanup : BOOLEAN, thread : Threads \cup {NoThread},
                   srcRunning : BOOLEAN, req : BOOLEAN]
  /\ freed \subseteq DOMAIN rec
  /\ reserved \subseteq Mounts
  /\ thr \in [Threads -> [pc : {"idle", "start", "io", "pump", "exit"},
                          rec : Nat]]
  /\ lock \in {"none", "sup"} \cup FetchIds
  /\ ctx \in [Procs -> [pc : {"top", "full", "rescan", "free", "join", "clear",
                              "master", "done", "none", "http", "commit",
                              "crashed"},
                        toFree : Seq(Nat), start : {"static", "master", "none"},
                        after : {"clear", "master", "done"}]]
  /\ rescan \in BOOLEAN /\ updateSettings \in BOOLEAN
  /\ interval \in 0..UpdateInterval /\ maxInterval \in 0..UpdateInterval

\* The reference reading of a stream list: one master relay per line, the
\* first line last.
MasterReference(lines) ==
  Reverse([i \in 1..Len(lines) |-> MasterDesc(lines[i])])

(* streamlist_data turns the master's list into new_relays exactly, however *)
(* curl splits the body into chunks (a line cut between two calls is kept  *)
(* in master->buffer and completed by the next): a fetch whose body came   *)
(* whole commits every served mount, once, first line last; one cut off by *)
(* the timeout commits the lines of a prefix of the list.                  *)
StreamlistExact ==
  [][\A f \in FetchIds :
       (ctx[f].pc = "http" /\ ctx'[f].pc = "commit") =>
         \E k \in 0..Len(served) :
           /\ fetchList'[f] = MasterReference(SubSeq(served, 1, k))
           /\ truncated' = truncated => k = Len(served)]_vars

(* Every relay thread can be joined: while it runs, the live record it    *)
(* relays holds its handle in relay->thread.  check_relay_stream starts a *)
(* thread when relay->running is 0, and that flag is set by the thread    *)
(* itself, so two sweeps can both call thread_create.  The second handle  *)
(* (a second thread, or NULL when no thread is free) overwrites the first. *)
(* A NULL handle either crashes a later removal in thread_join(NULL) or   *)
(* leaves the record running forever, never joined nor restarted.         *)
ThreadHandleKept ==
  \A t \in Threads :
    thr[t].pc # "idle" /\ RelayOf(t) \in Live => rec[RelayOf(t)].thread = t

(* The static and the master list reserve source names in one tree.  A   *)
(* mount in both lists gives two records; whichever list is swept first   *)
(* reserves the name (source_reserve), the other record stays without a  *)
(* source, and may reserve it once the first is freed.  Through any order *)
(* of the slave thread's and the streamlist thread's sweeps and frees, the *)
(* tree holds exactly the mounts of the live records that own a source,  *)
(* and no two live records own a source for the same mount: relay_free   *)
(* of the record without a source must not release the other's name.    *)
ReservationIntegrity ==
  /\ reserved = {rec[r].mount : r \in {q \in Live : rec[q].source}}
  /\ \A r, q \in Live :
       rec[r].source /\ rec[q].source /\ rec[r].mount = rec[q].mount => r = q

\* The local mount, origin and on_demand of a record or descriptor.
Key(x) == [mount |-> x.mount, origin |-> x.origin, onDemand |-> x.onDemand]

\* The list a reconcile by p produces, and the descriptors it is given.
Reconciled(p) == IF p = "sup" THEN relays' ELSE masterRelays'
Desired(p) == IF p = "sup" THEN cfgRelays ELSE fetchList[p]
Reconciles(p) == ctx[p].pc \in {"full", "commit"} /\ ctx'[p].pc = "free"

(* update_relays is minimal: after a reconcile of either list (by the     *)
(* slave thread or a streamlist thread) the list holds one record per     *)
(* wanted relay, with its mount, origin and on_demand; and no record that *)
(* goes to the cleanup list, to be stopped and freed, matches a wanted    *)
(* relay on mount and origin, so a relay whose config only changed its   *)
(* on_demand is kept running (relay_has_changed's hot update).           *)
ReconcileIsMinimal ==
  [][\A p \in Procs :
       Reconciles(p) =>
         /\ Len(Reconciled(p)) = Len(Desired(p))
         /\ {Key(rec'[r]) : r \in ToSet(Reconciled(p))}
              = {Key(d) : d \in ToSet(Desired(p))}
         /\ \A r \in ToSet(ctx'[p].toFree), d \in ToSet(Desired(p)) :
              ~(rec[r].mount = d.mount /\ rec[r].origin = d.origin)]_vars

(* relay_check_streams joins a relay thread before relay_free frees its   *)
(* record: no relay thread that has not been joined belongs to a freed   *)
(* record.                                                               *)
JoinBeforeFree ==
  \A t \in Threads : thr[t].pc # "idle" => thr[t].rec \notin freed

(* Nobody walks freed memory: every record left on a list that a sweep   *)
(* (relay_check_streams of the slave thread, its shutdown pass, or a     *)
(* streamlist thread's commit) is still to free, and every record of the  *)
(* list it will then start, is live.  The shutdown pass frees both lists  *)
(* without relay_lock while a detached streamlist thread may commit.      *)
SweepListsLive ==
  \A p \in Procs :
    ctx[p].pc \in {"free", "join"} =>
      ToSet(ctx[p].toFree) \cup ToSet(StartList(p)) \subseteq Live

(* Once the slave thread has finished its shutdown pass no mount stays   *)
(* reserved by a relay and no static relay is left live.                 *)
ShutdownReleasesAll ==
  ctx["sup"].pc = "done" => reserved = {} /\ ToSet(relays) \cap Live = {}

(* A streamlist commit installs the master's whole list: after it,      *)
(* global.master_relays holds one relay for each mount the master lists  *)
(* (the master's list does not change in the runs that check this).    *)
MasterCommitComplete ==
  [][\A f \in FetchIds :
       Reconciles(f) =>
         {rec'[r].mount : r \in ToSet(masterRelays')} = ToSet(served)]_vars

(* Every thread_join relay_check_streams starts returns: the stop it     *)
(* made (source->running = 0) reaches source_main, whether the relay was  *)
(* dropped by a config reread, by the master's list, or by the shutdown   *)
(* pass.  A join that never returns holds relay_lock, so the slave thread *)
(* and every streamlist commit would wait forever.                        *)
JoinReturns ==
  \A p \in Procs : ctx[p].pc = "join" ~> (ctx[p].pc # "join" \/ Crashed)

(* A relay thread that returned is joined: start_relay_stream sets      *)
(* cleanup and rescan_relays, and a later sweep of the relay's list      *)
(* (a rescan, a full refresh, a streamlist commit, or the stop of a      *)
(* removed relay) joins it, however the exit interleaves with the tick   *)
(* that clears rescan_relays.  It is owed for a live record that still   *)
(* holds the thread's handle, while the slave runs and has not crashed.  *)
ExitedRelaysJoined ==
  \A t \in Threads :
    (thr[t].pc = "exit" /\ RelayOf(t) \in Live /\ rec[RelayOf(t)].thread = t)
      ~> (thr[t].pc # "exit" \/ ~slaveRunning \/ Crashed)

(* master_update_interval is the time between full refreshes: the slave *)
(* thread keeps coming back to update_relays and update_from_master,     *)
(* whatever rescans relay threads and listeners ask for in between.     *)
RefreshRecurs ==
  []<>(ctx["sup"].pc = "full" \/ ~slaveRunning \/ Crashed)

====
