# TLA+ models of the relay subsystem (`src/src/slave.c`)

`slave.c` lets a server act as a relay. It pulls streams from upstream servers,
named in the config file (static relays) or listed by a master server (master
relays). It also keeps a table of slave hosts that listeners can be redirected to.
This directory holds TLA+ models of that code, checked with TLC.

## The system and how its parts interact

| Part | Code | Module |
|---|---|---|
| Relay records: `relay_copy`, `relay_free`, the source reservation a record owns | 77-116 | `Slave` |
| Reconciler: `update_relay_set`, `update_relays`, `relay_has_changed` | 471-549 | `Slave` |
| Sweep: `relay_check_streams`, `check_relay_stream` (stop, join, free; start policy) | 380-465, 552-580 | `Slave` |
| Relay worker threads: `start_relay_stream` | 216-376 | `Slave` |
| Master fetch: `update_from_master`, detached `streamlist_thread` and its curl callbacks | 601-780 | `Slave` |
| Supervisor: `_slave_thread` (1 s loop, full refresh, rescan, shutdown pass) | 797-868 | `Slave` |
| Control signals: `slave_recheck_mounts`, `slave_rescan`, `slave_rebuild_mounts`, `slave_initialize`, `slave_shutdown` | 122-168 | `Slave` |
| Slave host table: `slave_host_add/remove`, `find_slave_host`, `_add_slave_host`, `update_master_as_slave`, `slave_redirect` | 171-210, 783-794, 884-986 | `SlaveHosts` (used by `Slave` through `INSTANCE`), refining `SlaveHostsAbstract` |

Several threads share state:

- **The slave thread** loops. Each tick it does one of three things:
  - skips the tick;
  - rescans both relay lists under `relay_lock`;
  - does a full refresh: it reconciles `global.relays` with the config, starts a detached streamlist thread, and stops, frees and starts relays.
- **Streamlist threads** fetch the master's list. Each commits it into `global.master_relays` under the same lock.
- **Relay threads** set `relay->running`, connect, and pump through `source_main`. When they finish they set `cleanup` and `rescan_relays`, and the next sweep joins them.
- **The rest of the server** acts through flags:
  - SIGHUP (`schedule_config_reread`);
  - listeners of on-demand relays (`slave_rescan`);
  - the admin (`slave_recheck_mounts`);
  - `slave_shutdown`.

The slave thread frees both lists at shutdown without taking `relay_lock`.

## Modules

### `Slave.tla`

A relay record is an id into `rec`, and a freed record keeps its last contents in `freed`. This lets the model see any use after free.

- **The record.** A record holds the fields the code reads: mount, origin, `on_demand`, `enable`, `running`, `cleanup` and `thread`. It also holds the state of the `source_t` it owns: whether it owns one (`source`), `source->running` (`srcRunning`) and `on_demand_req` (`req`).
- **Source reservations.** The source tree is the set `reserved` of reserved mount names.
- **The origin.** Server, port, upstream mount and mp3metadata are one model value, because `relay_has_changed` compares them together.

Each thread has a program counter.

- **The slave thread and streamlist threads.** These are the processes `"sup"` and `FetchIds`. Their program counter is `ctx[p].pc`, and `ctx[p]` also holds the cleanup list still to free and the list to start afterwards.
- **Relay threads.** These are slots `t` of `thr`, with `pc` one of `start`, `io`, `pump`, `exit`, `idle`.
- **`relay_lock`.** The variable `lock` says who holds it.

Everything one process does under `relay_lock` without blocking is one action. A sweep is a fold (`CheckStreams`, `UpdateRelaySet`) over a `World` record. Steps that can interleave are actions of their own:

- freeing each record of a cleanup list: `FreeStop`, `FreeJoin`, `FreeIdle`;
- the start pass: `StartRelays`.

A `thread_join` on a thread that has not exited blocks the whole sweep: the fold sets `blocked`, and the action is then not enabled.

A `thread_join` on a NULL handle (`JoinNullThread`) reads `thread->sys_thread` through NULL, and the server dies. The model puts that process in `"crashed"`, and `Next` then allows no step of any thread (`Crashed`).

| Action | Code |
|---|---|
| `SupReread`, `SupSkip`, `SupRescanTick`, `SupFullRefresh` (`UpdateFromMaster`, master seeding), `SupUpdateStatic`, `SupRescan`, `SupClear` | `_slave_thread` 811-855 |
| `SupShutdown`, `SupShutdownMaster` | 858-863 (two passes, no lock) |
| `FreeStop`, `FreeJoin`, `JoinNullThread`, `FreeIdle`, `StartRelays` | `relay_check_streams` 552-580 |
| `FetchResponse`, `FetchCommit` | `streamlist_header`/`streamlist_data`/`streamlist_thread` 601-747 |
| `StreamlistData`, `ScanLines`, `UpTo`, `Streamlist` (operators) | `streamlist_data` 638-695, and curl's write callbacks |
| `RelayStart`, `RelayConnected`, `RelayPumpReturn`, `RelayFail` | `start_relay_stream` 225-375 |
| `ListenerRequest`, `SlaveRecheckMounts`, `SlaveShutdown` | 122-168 |
| `RequestReread`, `FallbackChange`, `MasterChange` | environment (outside `src/`) |

**The stream list parser.** `FetchResponse` models the body as bytes. A mount name is one symbol, and `LF` and `CR` are the line-end bytes. The master serves each mount on its own line, ended by LF or CR LF, possibly with a blank line at the end (`StreamlistBodies`). The master's code is outside `src/`, so this follows the spec. curl may hand the body over in any split into non-empty chunks (`Chunkings`). The 15 s timeout may cut it after any byte. `Streamlist` folds `StreamlistData`, one write callback, over the chunks:

- the chunk is appended to the incomplete line kept from the last call (`master->previous`);
- `ScanLines` then cuts each complete line at its LF and at a CR;
- it pushes each non-empty line onto the front of `new_relays`;
- it keeps the incomplete rest for the next call.

`fetchList[f]` is that `new_relays` list. A final line without an LF is dropped, as the code does.

### `SlaveHosts.tla`

- **State.** `global.slaves` is a sequence, head first, and `slave_count` is its counter.
- **Actions.** Each operation runs wholly under `slaves_lock`, so each is one action.
- **Floating point in `slave_redirect`.** The index uses the `float` arithmetic of line 180, with 24-bit rounding to nearest-even. A build that keeps the exact product (x87) is the other nondeterministic outcome.

### `SlaveHostsAbstract.tla`

This module is what the table promises, without the list:

- **State.** A reference count `refs[h]` per host, the connected clients, and the last redirect.
- **Actions.** `Seed` gives the master one reference when it has none. `Add` and `Remove` move one reference of a client's host. `Redirect` picks any host with a reference, and is issued exactly when one exists.

`SlaveHosts` instantiates it as `Abs`, with `refs <- [h |-> RefCount(h)]` and the redirect's `issued` and `target`. `AbstractSpec == Abs!Spec` is checked as a property.

### MC modules

- **`MCSlave.tla`.**
  - **Model values:** two mounts, two origins, one master host and two fetch ids.
  - **Three static configs:**
    - one relay;
    - the same relay made on demand;
    - the relay moved to another origin, plus a second relay.
  - **Master lists:**
    - `MCMasterLists`: empty, and `<<m2>>`. The violation runs on the master use it.
    - `MCMasterTwo`: empty, and `<<m1, m2>>`. The master run uses it. m1 is also the static relay, and a two-line body has a chunk that holds a complete line and then part of the next.
  - **The config of the master runs:** `MCStaticOne`.
- **`MCSlaveHosts.tla`:**
  - two hosts, one of them the master;
  - four clients: two advertising one host, one advertising the master, one malformed;
  - five values of `rand()` around 0, 2^30 and `RAND_MAX` (`MCRandValues`), and the three of them below the float rounding boundary (`MCRandSafe`).

## Runs

| Run | Cfg | Expect | What it shows |
|---|---|---|---|
| hosts | `MCSlaveHosts.cfg` | pass | `RefCountsExact`: every host is linked once, `slave_count` equals the list length, and each count is the number of connected advertisers plus at most the master's seed. `AbstractSpec`: the table refines `SlaveHostsAbstract` for the `rand()` values of `MCRandSafe`. |
| hosts_redirect | `MCSlaveHostsRedirect.cfg` | violation | `RedirectWhenSlavesKnown`: with one host and `rand() = RAND_MAX`, the float product rounds to 2^31, `which = slave_count`, and line 187 dereferences NULL. The refinement fails for the same values. |
| static | `MCSlaveStatic.cfg` | pass | Described below the table. |
| master | `MCSlaveMaster.cfg` | pass | One static relay m1 and one streamlist thread whose fetches fail, succeed or are cut off. The master's list changes once, between nothing and `<<m1, m2>>`. `SweepListsLive` and `ReconcileIsMinimal` as below, for master relays. `ReservationIntegrity`: the two lists share the source tree. For m1, whichever list is swept first reserves the name. The tree always holds exactly the names of the live records that own a source, and no two own the same one. Its mutant, a `relay_free` that releases the name without owning the source, is only caught with the mount in both lists. `StreamlistExact`: whatever chunks curl cuts the body into, `streamlist_data` yields exactly the served list, first line last. A body cut off by the timeout yields a prefix of it. |
| joined | `MCSlaveJoined.cfg` | pass | `ExitedRelaysJoined`: every static relay thread that returns is eventually joined, whether its rescan request is seen or lost. A later full refresh always sweeps `global.relays`. |
| join_before_free | `MCSlaveJoinBeforeFree.cfg` | violation | A relay whose thread was created but has not yet set `running` is dropped by a config change and freed without a join. |
| null_join | `MCSlaveNullJoin.cfg` | violation | `ThreadHandleKept`: in the same window, a second sweep calls `thread_create` again. It overwrites `relay->thread`, with NULL when no thread is free. The lost handle then does one of two things. Removing the relay calls `thread_join(NULL)` (line 565), and the server dies. If the relay is kept, its returned thread is never joined: `running` stays set (line 400) and `relay->cleanup && relay->thread` (line 441) stays false. The relay then never restarts, and on-demand requests for it are ignored. TLC finds both outcomes. |
| shutdown_fetch | `MCSlaveShutdownFetch.cfg` | violation | The lock-free shutdown pass frees master relays that a streamlist thread holding `relay_lock` is about to start. |
| join_hang | `MCSlaveJoinHang.cfg` | violation | `JoinReturns`: a stop request (`source->running = 0`) made while the relay is still connecting is overwritten when the source becomes running. The `thread_join` of `relay_check_streams` then waits on the upstream while holding `relay_lock`. TLC reaches it on a config reread; a master list change and the shutdown pass make the same stop. |
| truncated_commit | `MCSlaveTruncated.cfg` | violation | `MasterCommitComplete`: a body cut off after `200 OK` is committed, because the failure of `curl_easy_perform` (line 732) is only logged. In the shortest trace the first fetch is cut off before m2's line, the commit installs an empty list, and m2 is never started. The same commit stops master relays that are already running. |
| lost_rescan | `MCSlaveLostRescan.cfg` | violation | `ExitedRelaysJoined` for master relays: the upstream ends after the full refresh's sweep, and `rescan_relays = 0` (line 854) clears the request unseen. With every later fetch failing, the thread is never joined and the relay never restarts. |
| refresh_starve | `MCSlaveStarve.cfg` | violation | `RefreshRecurs`: an on-demand relay whose upstream keeps failing, with a listener asking again every tick, keeps `rescan_relays` set. `++interval` (line 822) is then never evaluated, and no full refresh happens. |

The static run covers config rereads, on-demand requests, fallback override, worker failures, a full thread pool and shutdown. It checks four things:

- `TypeOK`, including that `interval` and `max_interval` stay within `master_update_interval`. The full refresh's `interval = 0` is what keeps them there.
- `SweepListsLive`: no sweep walks a freed record.
- `ShutdownReleasesAll`: the shutdown pass leaves nothing reserved.
- `ReconcileIsMinimal`: a reconcile keeps exactly one record per wanted relay, and never stops a relay whose mount and origin are still wanted.

Each property of a passing run has a mutant in `PROJECT.json`: a variant of one mapped definition, as a plausible bug, that TLC finds violates it. The variants are defined in the modules, just before the definitions they replace. Examples:

- `relay_free` releasing a name whose source it does not own;
- the full refresh not resetting `interval`;
- `on_demand` compared as a material field;
- `to_free` not advanced;
- `check_relay_stream` passing over a running relay without joining its finished thread;
- `slave_host_remove` never unlinking an entry.

Deadlock is not checked in the static, master, joined, shutdown_fetch, join_hang, lost_rescan and refresh_starve runs, because the system really stops there. After shutdown the slave thread has ended. After a NULL join the server is dead, and with one thread slot the NULL join is reachable in every one of these runs. The liveness properties check the progress that matters while the slave runs.

## Bounds

Every counter that can grow is capped by a named constant. Each cap is set just high enough for the interesting cases to happen.

- **`MaxReloads`:** 1 config reread in the static run, so each pair of configs is met once in each order of worker steps.
- **`MaxTruncated`:** 1 body cut off after `200 OK`. Fetches are otherwise unbounded: a fetch may fail forever, as when the master is down. A cap on fetches would itself end every behaviour and hide the lost rescan.
- **`MaxMasterChanges`:** 1 change of the master's list.
- **`UpdateInterval`:** 2. This gives skip ticks and full refreshes.

The thread pool size differs by run:

- **The static and master runs** use one relay thread slot. With two relays, `thread_create` then fails for one of them.
- **The master run** uses one streamlist id and no override mount. Two streamlist ids with truncation take 6.9M states, over the time budget. Two fetches in flight are reached in the shutdown_fetch run.
- **The joined run** uses the three static configs, without shutdown or override, because liveness checking grows much faster than the state space.

The static run finishes in about 30 s (523k distinct states). The master run takes about 2 minutes (1.7M distinct states). The parse outcomes of every body and chunking are computed once, as the constant `StreamlistOutcomes`, so a fetch has one successor per distinct `new_relays` list, not one per chunking. The joined run has 70k states and takes about 90 s.

## Fairness

- **Threads.** The slave thread, streamlist threads and relay threads are scheduled fairly (weak fairness). Each is a running pthread that takes its next step once it is enabled.
- **`source_main` returning.** This is owed only after the source has been asked to stop (`srcRunning` false). An upstream may stream forever.
- **The environment.** Listeners, the admin, SIGHUP and the master owe nothing. Fetches may fail forever.

The liveness properties are stated under this fairness. `ExitedRelaysJoined` and `RefreshRecurs` hold trivially once the slave stops or the server has crashed, so neither is violated by a shutdown or by the separate NULL-join bug. `ExitedRelaysJoined` is owed only while the record still holds the thread's handle. A thread whose handle was overwritten is never joined, and `ThreadHandleKept` (the null_join run) shows how that happens.

## Not modelled

- **Socket and HTTP I/O, header parsing, authentication headers.** These are abstracted to the success or failure of each worker step.
- **Stats, YP and `source_update_settings`.**
- **`slave_find_relay`.** It is read-only.
- **Allocation failures.** Out of reach.
- **The memory leak in `slave_host_remove`.** It frees `server` but never the struct. No state the model keeps shows it.

## Open work

- **Out-of-order commits of two streamlist threads.** A property that says the newest list wins. The code has no ordering of fetches to state it against.
- **Spec divergences found by reading but not checked by a run.** A config change of only `enable` keeps the old record with its old flag. A mount listed both in the config and by the master gives two records, one of them without a source.
- **An abstract reconciler specification.** Two candidates were weighed.
  - An abstraction at the level of sources (a mount is free, reserved or streaming) is broken in the same behaviours by the known bugs: join_before_free frees a source that is streaming.
  - One at the level of lists (each list becomes its wanted set) would only restate `ReconcileIsMinimal`.
- **An on-demand request is eventually served.** This cannot be a passing property while two known bugs stand. A lost handle (null_join) leaves the relay never restarted. A hung join (join_hang) holds `relay_lock`. A run for it would be a twelfth violation of causes already shown.
- **The reconciler laws of spec section 8.** These are idempotence and the on-demand hot update. They would be checked as pure operators over bounded inputs.
