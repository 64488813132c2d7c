------------------------------- MODULE OsifVdev -------------------------------
(***************************************************************************)
(* The vdev registry of os_if/sync and the life cycle HDD gives a network  *)
(* interface with it: added and deleted by cfg80211, brought up and down   *)
(* by the kernel, used by operations, torn down and opened anew by a       *)
(* change of the driver's mode, and carried through a subsystem restart.   *)
(*                                                                         *)
(* DSC appears by what Dsc shows of it: a request is answered by           *)
(* __dsc_vdev_can_trans, a wait for operations ends when there are none,   *)
(* and a stop starts the waiter highest in the tree.  Here the question is *)
(* whether its users reach a node only while the node is there.            *)
(*                                                                         *)
(* Calls from cfg80211 and from the network core hold the rtnl lock from   *)
(* beginning to end, so one user makes them all.                           *)
(***************************************************************************)
EXTENDS Naturals, FiniteSets

CONSTANTS
  NetDevs,        \* network interfaces
  Vdevs,          \* memory for struct dsc_vdev
  Operators,      \* threads that run operations on an interface
  MaxSlots,       \* entries of __osif_vdev_sync_arr
  ReplayedSlots,  \* WLAN_MAX_VDEVS: the entries the replay looks at
  None            \* NULL

ASSUME SlotsAssumption ==
  /\ MaxSlots \in Nat \ {0}
  /\ ReplayedSlots \in 1 .. MaxSlots
ASSUME NoneAssumption == None \notin NetDevs \cup Vdevs \cup (1 .. MaxSlots)

Slots == 1 .. MaxSlots

VARIABLES
  inUse,      \* entries of the array in use
  netDev,     \* the interface registered in an entry
  vdev,       \* the DSC node of an entry
  alive,      \* DSC nodes created and not yet freed
  trans,      \* per node: the user's transition
  ops,        \* per node: operations in flight
  cmd,        \* per node: nb_cmd_during_ssr
  driver,     \* the driver's transition, of the mode change
  psoc,       \* the psoc's transition, of the restart
  recovering, \* qdf_is_recovering()
  exists,     \* interfaces the kernel knows
  up,         \* IFF_UP: what user space asked for
  opened,     \* DEVICE_IFACE_OPENED: what the driver did
  user, mode, ssr, \* the three threads that change the tree
  opAt,       \* per operator: the entry and node of its operation
  oops        \* NULL was dereferenced: the kernel has stopped

registry == <<inUse, netDev, vdev, alive>>
tree == <<trans, driver, psoc>>
ifaces == <<exists, up, opened>>
vars == <<registry, tree, ifaces, ops, cmd, recovering, user, mode, ssr,
          opAt, oops>>

States == {"none", "queued", "active"}
Idle == [pc |-> "idle", dev |-> None, slot |-> None, vdev |-> None]

UserPCs == {"idle", "create", "start", "add", "register", "start_wait",
            "wait", "unregister", "close", "open", "down", "cache",
            "release", "stop", "destroy", "put"}
ModePCs == {"idle", "wait", "next", "close", "destroy", "put", "open",
            "opening", "stop"}
SsrPCs == {"idle", "down", "shutdown", "reinit", "replay", "stop_iface"}

Local(PCs) == [pc : PCs, dev : NetDevs \cup {None},
               slot : Slots \cup {None}, vdev : Vdevs \cup {None}]

(* Every variable keeps its type.                                          *)
TypeOK ==
  /\ inUse \subseteq Slots
  /\ netDev \in [Slots -> NetDevs \cup {None}]
  /\ vdev \in [Slots -> Vdevs \cup {None}]
  /\ alive \subseteq Vdevs
  /\ trans \in [Vdevs -> States]
  /\ ops \in [Vdevs -> SUBSET Operators]
  /\ cmd \in [Vdevs -> {"NO_COMMAND", "INTERFACE_DOWN"}]
  /\ driver \in States /\ psoc \in States
  /\ recovering \in BOOLEAN /\ oops \in BOOLEAN
  /\ exists \subseteq NetDevs /\ up \subseteq exists /\ opened \subseteq exists
  /\ user \in Local(UserPCs)
  /\ mode \in Local(ModePCs)
  /\ ssr \in [pc : SsrPCs, slot : Slots \cup {MaxSlots + 1}]
  /\ opAt \in [Operators -> [slot : Slots \cup {None}, vdev : Vdevs \cup {None}]]

NoOp == [slot |-> None, vdev |-> None]

Init ==
  /\ inUse = {} /\ alive = {}
  /\ netDev = [s \in Slots |-> None]
  /\ vdev = [s \in Slots |-> None]
  /\ trans = [v \in Vdevs |-> "none"]
  /\ ops = [v \in Vdevs |-> {}]
  /\ cmd = [v \in Vdevs |-> "NO_COMMAND"]
  /\ driver = "none" /\ psoc = "none"
  /\ recovering = FALSE /\ oops = FALSE
  /\ exists = {} /\ up = {} /\ opened = {}
  /\ user = Idle /\ mode = Idle
  /\ ssr = [pc |-> "idle", slot |-> 1]
  /\ opAt = [t \in Operators |-> NoOp]

-----------------------------------------------------------------------------
(* DSC: may a request start, and who is started by a stop                  *)

AnyActive(tr) == \E v \in Vdevs : tr[v] = "active"
NoOps == \A v \in Vdevs : ops[v] = {}

VdevCanTrans(v) ==
  IF driver # "none" \/ recovering THEN "INVAL"
  ELSE IF psoc # "none" \/ trans[v] # "none" THEN "BUSY"
  ELSE "SUCCESS"

Granted(tr) == [v \in Vdevs |-> IF tr[v] = "queued" THEN "active" ELSE tr[v]]

(* Mutant: the vdevs' waiters are not started.                             *)
TriggeredUpTreeOnly(tr, dr, ps) ==
  IF dr = "queued"
    THEN <<tr, IF ps # "active" /\ ~AnyActive(tr) THEN "active" ELSE dr, ps>>
  ELSE IF ps = "queued"
    THEN <<tr, dr, IF ~AnyActive(tr) THEN "active" ELSE ps>>
  ELSE <<tr, dr, ps>>

(* The tree after a stop left it as tr, dr and ps: the driver's waiter     *)
(* goes first and waits for everybody, then the psoc's, then the vdevs'.   *)
Triggered(tr, dr, ps) ==
  IF dr = "queued"
    THEN <<tr, IF ps # "active" /\ ~AnyActive(tr) THEN "active" ELSE dr, ps>>
  ELSE IF ps = "queued"
    THEN <<tr, dr, IF ~AnyActive(tr) THEN "active" ELSE ps>>
  ELSE <<Granted(tr), dr, ps>>

VdevTransStart(v) == trans' = [trans EXCEPT ![v] = "active"]

Becomes(t) == trans' = t[1] /\ driver' = t[2] /\ psoc' = t[3]

VdevTransStop(v) ==
  Becomes(Triggered([trans EXCEPT ![v] = "none"], driver, psoc))

-----------------------------------------------------------------------------
(* The registry.  Each of these runs under the osif lock.                  *)

Registered(d) == {s \in inUse : netDev[s] = d}
FirstOf(S) == CHOOSE s \in S : \A r \in S : s <= r

(* osif_vdev_sync_lookup: the first entry in use with the interface.       *)
Lookup(d) == IF Registered(d) = {} THEN None ELSE FirstOf(Registered(d))

(* osif_vdev_sync_get                                                      *)
FreeSlots == Slots \ inUse
Get(s) ==
  /\ FreeSlots # {}
  /\ s = FirstOf(FreeSlots)
  /\ inUse' = inUse \cup {s}

(* osif_psoc_sync_dsc_vdev_create: a node from fresh, zeroed memory.       *)
DscVdevCreate(s, v) ==
  /\ v \in Vdevs \ alive
  /\ alive' = alive \cup {v}
  /\ vdev' = [vdev EXCEPT ![s] = v]
  /\ cmd' = [cmd EXCEPT ![v] = "NO_COMMAND"]

Register(s, d) == netDev' = [netDev EXCEPT ![s] = d]

(* Mutant: the entry stays registered.                                     *)
UnregisterForgotten(s) == UNCHANGED netDev
Unregister(s) ==
  netDev' = IF s = None THEN netDev ELSE [netDev EXCEPT ![s] = None]

(* dsc_vdev_destroy: the pointer is cleared, waiters are aborted (there is *)
(* none but the user, who destroys), the node is freed.                    *)
DscVdevDestroy(s) ==
  /\ alive' = alive \ {vdev[s]}
  /\ vdev' = [vdev EXCEPT ![s] = None]

(* osif_vdev_sync_put: the entry is zeroed.                                *)
Put(s) ==
  /\ inUse' = inUse \ {s}
  /\ netDev' = [netDev EXCEPT ![s] = None]
  /\ vdev' = [vdev EXCEPT ![s] = None]

-----------------------------------------------------------------------------
(* The user: wlan_hdd_add_virtual_intf                                     *)

UserAt(pc) == user.pc = pc
RtnlFree == user.pc = "idle" /\ mode.pc # "opening"
UserGoto(pc) == user' = [user EXCEPT !.pc = pc]
UserReturns == user' = Idle

(* osif_vdev_sync_create takes an entry and lets go of the lock.           *)
AddGet ==
  /\ RtnlFree
  /\ \E s \in Slots :
       /\ Get(s)
       /\ user' = [Idle EXCEPT !.pc = "create", !.slot = s]
  /\ UNCHANGED <<netDev, vdev, alive, tree, ifaces, ops, cmd, recovering,
                 mode, ssr, opAt, oops>>

AddCreate ==
  /\ UserAt("create")
  /\ \E v \in Vdevs :
       /\ DscVdevCreate(user.slot, v)
       /\ user' = [user EXCEPT !.pc = "start", !.vdev = v]
  /\ UNCHANGED <<inUse, netDev, tree, ifaces, ops, recovering, mode, ssr,
                 opAt, oops>>

(* The node cannot be created: the entry is given back.                    *)
AddCreateFails ==
  /\ UserAt("create")
  /\ UserGoto("put")
  /\ UNCHANGED <<registry, tree, ifaces, ops, cmd, recovering, mode, ssr,
                 opAt, oops>>

(* Mutant: a refused transition leaves entry and node behind.              *)
AddTransStartLeaks ==
  /\ UserAt("start")
  /\ IF VdevCanTrans(user.vdev) = "SUCCESS"
       THEN VdevTransStart(user.vdev) /\ UserGoto("add")
       ELSE UserReturns /\ UNCHANGED trans
  /\ UNCHANGED <<registry, driver, psoc, ifaces, ops, cmd, recovering, mode,
                 ssr, opAt, oops>>

AddTransStart ==
  /\ UserAt("start")
  /\ IF VdevCanTrans(user.vdev) = "SUCCESS"
       THEN VdevTransStart(user.vdev) /\ UserGoto("add")
       ELSE UserGoto("destroy") /\ UNCHANGED trans
  /\ UNCHANGED <<registry, driver, psoc, ifaces, ops, cmd, recovering, mode,
                 ssr, opAt, oops>>

(* __wlan_hdd_add_virtual_intf makes the interface, or fails, as it does   *)
(* when a restart has begun.                                               *)
AddIface ==
  /\ UserAt("add")
  /\ ~recovering
  /\ \E d \in NetDevs \ exists :
       /\ exists' = exists \cup {d}
       /\ user' = [user EXCEPT !.pc = "register", !.dev = d]
  /\ UNCHANGED <<registry, tree, up, opened, ops, cmd, recovering, mode, ssr,
                 opAt, oops>>

AddIfaceFails ==
  /\ UserAt("add")
  /\ UserGoto("stop")
  /\ UNCHANGED <<registry, tree, ifaces, ops, cmd, recovering, mode, ssr,
                 opAt, oops>>

AddRegister ==
  /\ UserAt("register")
  /\ Register(user.slot, user.dev)
  /\ UserGoto("release")
  /\ UNCHANGED <<inUse, vdev, alive, tree, ifaces, ops, cmd, recovering,
                 mode, ssr, opAt, oops>>

(* osif_vdev_sync_trans_stop, at the end of every call that has a          *)
(* transition; after "stop" the node is destroyed.                         *)
UserTransStop ==
  /\ UserAt("release") \/ UserAt("stop")
  /\ VdevTransStop(user.vdev)
  /\ IF UserAt("stop") THEN UserGoto("destroy") ELSE UserReturns
  /\ UNCHANGED <<registry, ifaces, ops, cmd, recovering, mode, ssr, opAt,
                 oops>>

(* osif_vdev_sync_destroy, in two steps: the node, then the entry.         *)
UserDestroy ==
  /\ UserAt("destroy")
  /\ DscVdevDestroy(user.slot)
  /\ user' = [user EXCEPT !.pc = "put", !.vdev = None]
  /\ UNCHANGED <<inUse, netDev, tree, ifaces, ops, cmd, recovering, mode,
                 ssr, opAt, oops>>

UserPut ==
  /\ UserAt("put")
  /\ Put(user.slot)
  /\ UserReturns
  /\ UNCHANGED <<alive, tree, ifaces, ops, cmd, recovering, mode, ssr, opAt,
                 oops>>

-----------------------------------------------------------------------------
(* The user: wlan_hdd_del_virtual_intf                                     *)

(* osif_vdev_sync_trans_start_wait looks the entry up, lets go of the osif *)
(* lock because the request may sleep, and passes the node on.             *)
DelLookup ==
  /\ RtnlFree
  /\ \E d \in exists :
       /\ Lookup(d) # None
       /\ user' = [pc |-> "start_wait", dev |-> d, slot |-> Lookup(d),
                   vdev |-> vdev[Lookup(d)]]
  /\ UNCHANGED <<registry, tree, ifaces, ops, cmd, recovering, mode, ssr,
                 opAt, oops>>

DelStartWait ==
  /\ UserAt("start_wait")
  /\ LET can == VdevCanTrans(user.vdev) IN
       \/ /\ can = "SUCCESS"
          /\ VdevTransStart(user.vdev)
          /\ UserGoto("wait")
       \/ /\ can = "BUSY"
          /\ trans' = [trans EXCEPT ![user.vdev] = "queued"]
          /\ UserGoto("wait")
       \/ /\ can = "INVAL"
          /\ UserReturns
          /\ UNCHANGED trans
  /\ UNCHANGED <<registry, driver, psoc, ifaces, ops, cmd, recovering, mode,
                 ssr, opAt, oops>>

(* The transition is granted and the operations on the node have ended.    *)
DelDrained ==
  /\ UserAt("wait")
  /\ trans[user.vdev] = "active"
  /\ ops[user.vdev] = {}
  /\ UserGoto("unregister")
  /\ UNCHANGED <<registry, tree, ifaces, ops, cmd, recovering, mode, ssr,
                 opAt, oops>>

DelUnregister ==
  /\ UserAt("unregister")
  /\ Unregister(Lookup(user.dev))
  /\ UserGoto("close")
  /\ UNCHANGED <<inUse, vdev, alive, tree, ifaces, ops, cmd, recovering,
                 mode, ssr, opAt, oops>>

(* Mutant: the interface stays marked as open.                             *)
DelCloseKeepsOpened ==
  /\ UserAt("close")
  /\ ops[user.vdev] = {}
  /\ ~recovering
  /\ exists' = exists \ {user.dev}
  /\ up' = up \ {user.dev}
  /\ UserGoto("stop")
  /\ UNCHANGED <<registry, tree, opened, ops, cmd, recovering, mode, ssr, opAt,
                 oops>>

(* __wlan_hdd_del_virtual_intf, after a second wait for operations, closes *)
(* the interface, unless a restart has begun or it fails for another       *)
(* reason.  Either way the node is destroyed.                              *)
DelClose ==
  /\ UserAt("close")
  /\ ops[user.vdev] = {}
  /\ ~recovering
  /\ exists' = exists \ {user.dev}
  /\ up' = up \ {user.dev}
  /\ opened' = opened \ {user.dev}
  /\ UserGoto("stop")
  /\ UNCHANGED <<registry, tree, ops, cmd, recovering, mode, ssr, opAt, oops>>

DelCloseFails ==
  /\ UserAt("close")
  /\ ops[user.vdev] = {}
  /\ UserGoto("stop")
  /\ UNCHANGED <<registry, tree, ifaces, ops, cmd, recovering, mode, ssr,
                 opAt, oops>>

-----------------------------------------------------------------------------
(* The user: hdd_open and hdd_stop                                         *)

(* __osif_vdev_sync_trans_start: lookup and request under the osif lock.   *)
StartsTrans(d) ==
  Lookup(d) # None /\ VdevCanTrans(vdev[Lookup(d)]) = "SUCCESS"

UserEnters(pc, d) ==
  /\ VdevTransStart(vdev[Lookup(d)])
  /\ user' = [pc |-> pc, dev |-> d, slot |-> Lookup(d),
              vdev |-> vdev[Lookup(d)]]

HddOpen ==
  /\ RtnlFree
  /\ \E d \in exists \ up : StartsTrans(d) /\ UserEnters("open", d)
  /\ UNCHANGED <<registry, driver, psoc, ifaces, ops, cmd, recovering, mode,
                 ssr, opAt, oops>>

(* Mutant: a command cached earlier survives a successful open.            *)
HddOpenedKeepsCommand ==
  /\ UserAt("open")
  /\ ops[user.vdev] = {}
  /\ ~recovering
  /\ opened' = opened \cup {user.dev}
  /\ up' = up \cup {user.dev}
  /\ UserGoto("release")
  /\ UNCHANGED <<registry, tree, exists, ops, cmd, recovering, mode, ssr,
                 opAt, oops>>

HddOpened ==
  /\ UserAt("open")
  /\ ops[user.vdev] = {}
  /\ ~recovering
  /\ opened' = opened \cup {user.dev}
  /\ up' = up \cup {user.dev}
  /\ cmd' = [cmd EXCEPT ![user.vdev] = "NO_COMMAND"]
  /\ UserGoto("release")
  /\ UNCHANGED <<registry, tree, exists, ops, recovering, mode, ssr, opAt,
                 oops>>

HddOpenFails ==
  /\ UserAt("open")
  /\ ops[user.vdev] = {}
  /\ UserGoto("release")
  /\ UNCHANGED <<registry, tree, ifaces, ops, cmd, recovering, mode, ssr,
                 opAt, oops>>

(* The kernel takes the interface down whatever hdd_stop returns.          *)
HddStop ==
  /\ RtnlFree
  /\ \E d \in up :
       /\ up' = up \ {d}
       /\ \/ /\ StartsTrans(d)
             /\ UserEnters("down", d)
          \/ /\ Lookup(d) # None /\ ~StartsTrans(d)
             /\ user' = [pc |-> "cache", dev |-> d, slot |-> Lookup(d),
                         vdev |-> vdev[Lookup(d)]]
             /\ UNCHANGED trans
          \/ /\ Lookup(d) = None
             /\ UNCHANGED <<user, trans>>
  /\ UNCHANGED <<registry, driver, psoc, exists, opened, ops, cmd, recovering,
                 mode, ssr, opAt, oops>>

(* The refused command is cached after the osif lock was let go.           *)
HddStopCached ==
  /\ UserAt("cache")
  /\ cmd' = [cmd EXCEPT ![vdev[user.slot]] = "INTERFACE_DOWN"]
  /\ UserReturns
  /\ UNCHANGED <<registry, tree, ifaces, ops, recovering, mode, ssr, opAt,
                 oops>>

(* hdd_stop_no_trans does nothing once a restart has begun.                *)
HddStopped ==
  /\ UserAt("down")
  /\ ops[user.vdev] = {}
  /\ opened' = IF recovering THEN opened ELSE opened \ {user.dev}
  /\ UserGoto("release")
  /\ UNCHANGED <<registry, tree, exists, up, ops, cmd, recovering, mode, ssr,
                 opAt, oops>>

-----------------------------------------------------------------------------
(* Operations on an interface                                              *)

(* __osif_vdev_sync_op_start: lookup and request under the osif lock.      *)
OpStart(t) ==
  /\ opAt[t] = NoOp
  /\ \E d \in exists :
       /\ StartsTrans(d)
       /\ LET s == Lookup(d) IN
            /\ ops' = [ops EXCEPT ![vdev[s]] = @ \cup {t}]
            /\ opAt' = [opAt EXCEPT ![t] = [slot |-> s, vdev |-> vdev[s]]]
  /\ UNCHANGED <<registry, tree, ifaces, cmd, recovering, user, mode, ssr,
                 oops>>

(* __osif_vdev_sync_op_stop reads the node from the entry again.           *)
OpStop(t) ==
  /\ opAt[t] # NoOp
  /\ ops' = [ops EXCEPT ![vdev[opAt[t].slot]] = @ \ {t}]
  /\ opAt' = [opAt EXCEPT ![t] = NoOp]
  /\ UNCHANGED <<registry, tree, ifaces, cmd, recovering, user, mode, ssr,
                 oops>>

-----------------------------------------------------------------------------
(* Change of the driver's mode: hdd_driver_mode_change                     *)

ModeAt(pc) == mode.pc = pc
ModeGoto(pc) == mode' = [mode EXCEPT !.pc = pc]

ModeStartWait ==
  /\ ModeAt("idle")
  /\ driver' = IF psoc = "active" \/ AnyActive(trans)
                 THEN "queued" ELSE "active"
  /\ ModeGoto("wait")
  /\ UNCHANGED <<registry, trans, psoc, ifaces, ops, cmd, recovering, user,
                 ssr, opAt, oops>>

(* The transition is granted and wait_for_ops on the whole tree is over.   *)
ModeDrained == ModeAt("wait") /\ driver = "active" /\ NoOps

(* The context is not valid, as during a restart, or the mode is not valid *)
(* or the present one: nothing is done.                                    *)
ModeRefused ==
  /\ ModeDrained
  /\ ModeGoto("stop")
  /\ UNCHANGED <<registry, tree, ifaces, ops, cmd, recovering, user, ssr,
                 opAt, oops>>

(* hdd_stop_present_mode stops all interfaces.  If the modules then cannot *)
(* be stopped, the interfaces stay as they are.                            *)
ModeStopsAll ==
  /\ ModeDrained
  /\ ~recovering
  /\ opened' = {}
  /\ ModeGoto("next") \/ ModeGoto("stop")
  /\ UNCHANGED <<registry, tree, exists, up, ops, cmd, recovering, user, ssr,
                 opAt, oops>>

(* hdd_close_all_adapters, one interface after the other.                  *)
CloseUnregister ==
  /\ ModeAt("next")
  /\ \E d \in exists :
       /\ Unregister(Lookup(d))
       /\ mode' = [Idle EXCEPT !.pc = "close", !.dev = d, !.slot = Lookup(d)]
  /\ UNCHANGED <<inUse, vdev, alive, tree, ifaces, ops, cmd, recovering, user,
                 ssr, opAt, oops>>

(* Mutant: does not wait for the rtnl lock.                                *)
CloseAdapterNoRtnl ==
  /\ ModeAt("close")
  /\ mode.slot # None => ops[vdev[mode.slot]] = {}
  /\ exists' = exists \ {mode.dev}
  /\ up' = up \ {mode.dev}
  /\ opened' = opened \ {mode.dev}
  /\ ModeGoto(IF mode.slot = None THEN "next" ELSE "destroy")
  /\ UNCHANGED <<registry, tree, ops, cmd, recovering, user, ssr, opAt, oops>>

(* __hdd_close_adapter: unregister_netdev takes the rtnl lock.             *)
CloseAdapter ==
  /\ ModeAt("close")
  /\ mode.slot # None => ops[vdev[mode.slot]] = {}
  /\ RtnlFree
  /\ exists' = exists \ {mode.dev}
  /\ up' = up \ {mode.dev}
  /\ opened' = opened \ {mode.dev}
  /\ ModeGoto(IF mode.slot = None THEN "next" ELSE "destroy")
  /\ UNCHANGED <<registry, tree, ops, cmd, recovering, user, ssr, opAt, oops>>

CloseDestroy ==
  /\ ModeAt("destroy")
  /\ DscVdevDestroy(mode.slot)
  /\ ModeGoto("put")
  /\ UNCHANGED <<inUse, netDev, tree, ifaces, ops, cmd, recovering, user, ssr,
                 opAt, oops>>

ClosePut ==
  /\ ModeAt("put")
  /\ Put(mode.slot)
  /\ mode' = [Idle EXCEPT !.pc = "next"]
  /\ UNCHANGED <<alive, tree, ifaces, ops, cmd, recovering, user, ssr, opAt,
                 oops>>

(* All are closed; the modules are started again, or cannot be.            *)
CloseAllDone ==
  /\ ModeAt("next")
  /\ exists = {}
  /\ ModeGoto("open") \/ ModeGoto("stop")
  /\ UNCHANGED <<registry, tree, ifaces, ops, cmd, recovering, user, ssr,
                 opAt, oops>>

(* hdd_open_adapters_for_mode holds the rtnl lock around all its calls of  *)
(* hdd_open_adapter_no_trans, which needs no transition of its own.        *)
ModeLocks ==
  /\ ModeAt("open")
  /\ RtnlFree
  /\ ModeGoto("opening")
  /\ UNCHANGED <<registry, tree, ifaces, ops, cmd, recovering, user, ssr,
                 opAt, oops>>

ModeOpens ==
  /\ ModeAt("opening")
  /\ \E s \in Slots, v \in Vdevs, d \in NetDevs \ exists :
       /\ Get(s)
       /\ DscVdevCreate(s, v)
       /\ Register(s, d)
       /\ exists' = exists \cup {d}
  /\ UNCHANGED <<tree, up, opened, ops, recovering, user, mode, ssr, opAt,
                 oops>>

ModeOpened ==
  /\ ModeAt("opening")
  /\ ModeGoto("stop")
  /\ UNCHANGED <<registry, tree, ifaces, ops, cmd, recovering, user, ssr,
                 opAt, oops>>

(* One cannot be opened: hdd_close_all_adapters again, this time with the  *)
(* rtnl lock held and so in one step, since no other thread can look.      *)
ModeOpenFails ==
  LET closed == {s \in inUse : netDev[s] # None} IN
  /\ ModeAt("opening")
  /\ inUse' = inUse \ closed
  /\ alive' = alive \ {vdev[s] : s \in closed}
  /\ netDev' = [s \in Slots |-> IF s \in closed THEN None ELSE netDev[s]]
  /\ vdev' = [s \in Slots |-> IF s \in closed THEN None ELSE vdev[s]]
  /\ exists' = {} /\ up' = {} /\ opened' = {}
  /\ ModeGoto("stop")
  /\ UNCHANGED <<tree, ops, cmd, recovering, user, ssr, opAt, oops>>

ModeStop ==
  /\ ModeAt("stop")
  /\ Becomes(Triggered(trans, "none", psoc))
  /\ mode' = Idle
  /\ UNCHANGED <<registry, ifaces, ops, cmd, recovering, user, ssr, opAt, oops>>

-----------------------------------------------------------------------------
(* Subsystem restart: hdd_soc_recovery_shutdown, hdd_soc_recovery_reinit   *)

SsrAt(pc) == ssr.pc = pc
SsrGoto(pc) == ssr' = [ssr EXCEPT !.pc = pc]
ReplayNext == ssr' = [pc |-> "replay", slot |-> ssr.slot + 1]

(* The firmware goes down, in the middle of whatever the others do, a      *)
(* replay included.                                                        *)
FwDown ==
  /\ ~recovering
  /\ recovering' = TRUE
  /\ ssr' = [ssr EXCEPT !.pc = IF SsrAt("idle") THEN "down" ELSE @]
  /\ UNCHANGED <<registry, tree, ifaces, ops, cmd, user, mode, opAt, oops>>

(* Mutant: the psoc's request does not look at the vdevs.                  *)
ShutdownNoDownTree ==
  /\ SsrAt("down")
  /\ \/ driver = "none" /\ psoc' = "active" /\ SsrGoto("shutdown")
     \/ driver # "none" /\ UNCHANGED psoc /\ SsrGoto("reinit")
  /\ UNCHANGED <<registry, trans, driver, ifaces, ops, cmd, recovering, user,
                 mode, opAt, oops>>

(* Shutdown asks for the psoc's transition.  It is refused during one of   *)
(* the driver, and the restart goes on without.                            *)
Shutdown ==
  /\ SsrAt("down")
  /\ \/ /\ driver = "none"
        /\ psoc' = IF AnyActive(trans) THEN "queued" ELSE "active"
        /\ SsrGoto("shutdown")
     \/ /\ driver # "none"
        /\ UNCHANGED psoc
        /\ SsrGoto("reinit")
  /\ UNCHANGED <<registry, trans, driver, ifaces, ops, cmd, recovering, user,
                 mode, opAt, oops>>

ShutdownDone ==
  /\ SsrAt("shutdown")
  /\ psoc = "active" /\ NoOps
  /\ SsrGoto("reinit")
  /\ UNCHANGED <<registry, tree, ifaces, ops, cmd, recovering, user, mode,
                 opAt, oops>>

(* recovery_in_progress is cleared before the commands are replayed.       *)
Reinit ==
  /\ SsrAt("reinit")
  /\ recovering' = FALSE
  /\ ssr' = [pc |-> "replay", slot |-> 1]
  /\ UNCHANGED <<registry, tree, ifaces, ops, cmd, user, mode, opAt, oops>>

(* A re-init that failed, or in which the firmware went down again, ends   *)
(* the transition; the platform restarts once more.                        *)
ReinitFails ==
  /\ SsrAt("reinit")
  /\ Becomes(Triggered(trans, driver, "none"))
  /\ SsrGoto("down")
  /\ UNCHANGED <<registry, ifaces, ops, cmd, recovering, user, mode, opAt, oops>>

(* hdd_handle_cached_commands walks the array without the osif lock.       *)
ReplayRead ==
  LET s == ssr.slot IN
  /\ SsrAt("replay") /\ s <= ReplayedSlots
  /\ \/ /\ s \notin inUse
        /\ ReplayNext /\ UNCHANGED oops
     \/ /\ s \in inUse /\ vdev[s] = None
        /\ oops' = TRUE /\ UNCHANGED ssr
     \/ /\ s \in inUse /\ vdev[s] # None
        /\ IF netDev[s] # None /\ cmd[vdev[s]] = "INTERFACE_DOWN"
             THEN SsrGoto("stop_iface") ELSE ReplayNext
        /\ UNCHANGED oops
  /\ UNCHANGED <<registry, tree, ifaces, ops, cmd, recovering, user, mode, opAt>>

ReplayStop ==
  /\ SsrAt("stop_iface")
  /\ opened' = opened \ {netDev[ssr.slot]}
  /\ cmd' = [cmd EXCEPT ![vdev[ssr.slot]] = "NO_COMMAND"]
  /\ ReplayNext
  /\ UNCHANGED <<registry, tree, exists, up, ops, recovering, user, mode, opAt,
                 oops>>

(* The restart is over, unless the firmware went down during the replay.   *)
SsrStop ==
  /\ SsrAt("replay") /\ ssr.slot > ReplayedSlots
  /\ Becomes(Triggered(trans, driver, "none"))
  /\ ssr' = [pc |-> IF recovering THEN "down" ELSE "idle", slot |-> 1]
  /\ UNCHANGED <<registry, ifaces, ops, cmd, recovering, user, mode, opAt, oops>>

-----------------------------------------------------------------------------
(* What a call does once it has begun.                                     *)
UserWorks ==
  \/ AddCreate \/ AddCreateFails \/ AddTransStart \/ AddIface \/ AddIfaceFails
  \/ AddRegister \/ UserTransStop \/ UserDestroy \/ UserPut
  \/ DelStartWait \/ DelDrained \/ DelUnregister \/ DelClose \/ DelCloseFails
  \/ HddOpened \/ HddOpenFails \/ HddStopCached \/ HddStopped

ModeWorks ==
  \/ ModeRefused \/ ModeStopsAll \/ CloseUnregister \/ CloseAdapter
  \/ CloseDestroy \/ ClosePut \/ CloseAllDone \/ ModeLocks \/ ModeOpens
  \/ ModeOpened \/ ModeOpenFails \/ ModeStop

SsrWorks ==
  \/ Shutdown \/ ShutdownDone \/ Reinit \/ ReinitFails \/ ReplayRead
  \/ ReplayStop \/ SsrStop

Begins ==
  \/ AddGet \/ DelLookup \/ HddOpen \/ HddStop \/ ModeStartWait \/ FwDown
  \/ \E t \in Operators : OpStart(t)

Running ==
  \/ Begins \/ UserWorks \/ ModeWorks \/ SsrWorks
  \/ \E t \in Operators : OpStop(t)

(* Where the model ends: the kernel has stopped, or a restart was refused  *)
(* the psoc's transition.  Its re-init then replays commands beside the    *)
(* mode change and ends the transition of that (dsc_psoc_trans_stop stops  *)
(* the driver's when the psoc has none), and nothing holds any more.       *)
Refused == SsrAt("reinit") /\ psoc # "active"
Over == oops \/ Refused
Halted == Over /\ UNCHANGED vars

Next == (~Over /\ Running) \/ Halted

Spec == Init /\ [][Next]_vars

(* Threads go on with what they began; nobody has to begin anything.  The  *)
(* rtnl lock is a kernel mutex, which is handed to those who wait for it.  *)
FairSpec ==
  /\ Spec
  /\ WF_vars(~Over /\ UserWorks)
  /\ SF_vars(~Over /\ ModeWorks)
  /\ WF_vars(~Over /\ SsrWorks)
  /\ \A t \in Operators : WF_vars(~Over /\ OpStop(t))

-----------------------------------------------------------------------------
(* Properties                                                              *)

(* Whoever works on a node, or is about to after it let go of the osif     *)
(* lock, still finds it in its entry and not freed: an operation until it  *)
(* ends, the user from the lookup to the destroy.  The node of a delete    *)
(* that only looked its entry up is protected by nothing but the rtnl lock *)
(* the mode change needs before it frees it.                               *)
SectionKeepsNode ==
  /\ \A t \in Operators : opAt[t] # NoOp =>
       /\ vdev[opAt[t].slot] = opAt[t].vdev
       /\ opAt[t].vdev \in alive
       /\ t \in ops[opAt[t].vdev]
  /\ user.vdev # None =>
       /\ vdev[user.slot] = user.vdev
       /\ user.vdev \in alive
       /\ user.slot \in inUse

(* An interface is registered in at most one entry, and a registered entry *)
(* belongs to an interface the kernel knows and to a node of its own.      *)
LookupUnambiguous ==
  \A s \in Slots : netDev[s] # None =>
    /\ s \in inUse /\ vdev[s] \in alive /\ netDev[s] \in exists
    /\ \A r \in Slots \ {s} : netDev[r] # netDev[s] /\ vdev[r] # vdev[s]

(* The fixed array does not fill up with entries nobody owns: an entry in  *)
(* use is registered or in the hands of a thread that will give it back,   *)
(* and so is every node.                                                   *)
EntriesConserved ==
  /\ \A s \in inUse :
       netDev[s] # None \/ user.slot = s \/ mode.slot = s
  /\ \A v \in alive : \E s \in inUse : vdev[s] = v

(* A restart never takes down an interface that user space has up: a       *)
(* cached command is replayed only while it is still what the user wants.  *)
UpStaysUp == [][SsrWorks => up \cap opened \subseteq opened']_vars

(* What the timers of a WLAN_DSC_DEBUG build assert: no thread waits for   *)
(* its transition for ever, and none keeps one.  Every call under the rtnl *)
(* lock returns and a mode change ends.  It is not so: a delete sleeps for *)
(* its transition with the rtnl lock held, and a mode change that overtook *)
(* it waits for the rtnl lock in its own.                                  *)
CallsReturn ==
  /\ user.pc # "idle" ~> (user.pc = "idle" \/ Over)
  /\ mode.pc # "idle" ~> (mode.pc = "idle" \/ Over)

(* That circle is the only one.  As long as no mode change queues while a  *)
(* delete is queued, both behind the same restart, every call returns,     *)
(* whatever waits for transitions, operations and the rtnl lock.           *)
OvertakesDelete == driver = "queued" /\ \E v \in Vdevs : trans[v] = "queued"
NoOtherCircle == []~OvertakesDelete => CallsReturn

-----------------------------------------------------------------------------
(* The inductive invariant                                                 *)

(* The transitions of mode change and restart, like the recovery flag,     *)
(* follow from where their threads are, and exclude each other.            *)
PhaseInv ==
  /\ driver = "none" <=> mode.pc = "idle"
  /\ mode.pc \notin {"idle", "wait"} => driver = "active"
  /\ ssr.pc \in {"idle", "down"} => psoc = "none"
  /\ ssr.pc = "shutdown" => psoc # "none"
  /\ ssr.pc = "reinit" => psoc # "queued"
  /\ ssr.pc \in {"replay", "stop_iface"} => psoc = "active"
  /\ driver = "active" => psoc # "active"
  /\ ssr.pc = "idle" => ~recovering
  /\ ssr.pc \in {"down", "shutdown", "reinit"} => recovering

(* A vdev's transition belongs to the user and excludes those above it.    *)
(* One that is queued has somebody above it who will start it.             *)
InTrans == {"add", "register", "wait", "unregister", "close", "open", "down",
            "release", "stop"}
TransInv ==
  \A v \in Vdevs :
    /\ trans[v] # "none" <=> user.vdev = v /\ user.pc \in InTrans
    /\ trans[v] = "queued" =>
         user.pc = "wait" /\ (psoc = "active" \/ driver # "none")
    /\ trans[v] = "active" => driver # "active" /\ psoc # "active"

(* What the user has in its hands at each of its steps.  An entry it       *)
(* looked up stays registered unless the mode change is closing it.        *)
Unregistered == {"create", "start", "add", "register", "close", "stop",
                 "destroy", "put"}
Asleep == user.pc = "wait" /\ trans[user.vdev] = "queued"
UserInv ==
  /\ user.pc = "idle" => user.slot = None /\ user.vdev = None
  /\ user.pc # "idle" => user.slot \in inUse
  /\ user.pc \in {"create", "put"} => user.vdev = None /\ vdev[user.slot] = None
  /\ user.pc \notin {"idle", "create", "put"} =>
       user.vdev \in alive /\ vdev[user.slot] = user.vdev
  /\ user.pc \in Unregistered => netDev[user.slot] = None
  /\ user.pc \in {"register", "close"} =>
       user.dev \in exists /\ \A s \in Slots : netDev[s] # user.dev
  /\ user.pc \in {"wait", "unregister", "open", "down", "release"} /\ ~Asleep =>
       netDev[user.slot] = user.dev /\ user.dev \in exists
  /\ user.pc \in {"start_wait", "cache"} \/ Asleep =>
       \/ netDev[user.slot] = user.dev /\ user.dev \in exists
       \/ mode.pc = "close" /\ mode.slot = user.slot
  /\ user.pc \in {"register", "down", "cache"} => user.dev \notin up

(* What the mode change has in its hands, and that it works in silence.    *)
ModeInv ==
  /\ mode.slot # None => mode.pc \in {"close", "destroy", "put"}
  /\ mode.slot # None => mode.slot \in inUse /\ netDev[mode.slot] = None
  /\ mode.pc \in {"destroy", "put"} => mode.slot # None /\ mode.slot # user.slot
  /\ mode.pc = "put" => vdev[mode.slot] = None
  /\ mode.pc = "close" =>
       mode.dev \in exists /\ \A s \in Slots : netDev[s] # mode.dev
  /\ mode.pc = "close" /\ mode.slot # None /\ mode.slot = user.slot =>
       user.pc \in {"start_wait", "cache"} \/ Asleep
  /\ mode.pc \notin {"idle", "wait"} => NoOps
  /\ mode.pc = "opening" => user.pc = "idle"

(* Every entry in use has a node of its own, except one that is being      *)
(* filled or given back; free entries are zeroed.                          *)
NodesInv ==
  /\ \A s \in Slots :
       /\ vdev[s] # None => s \in inUse /\ vdev[s] \in alive
       /\ netDev[s] # None => vdev[s] # None
       /\ s \in inUse /\ vdev[s] = None =>
            \/ user.slot = s /\ user.pc \in {"create", "put"}
            \/ mode.slot = s /\ mode.pc = "put"
  /\ \A s, r \in Slots : vdev[s] = vdev[r] /\ vdev[s] # None => s = r

(* Operations are where their threads say, on nodes nobody is about to     *)
(* free.                                                                   *)
OpsInv ==
  /\ \A v \in Vdevs : \A t \in ops[v] : opAt[t].vdev = v /\ opAt[t] # NoOp
  /\ \A t \in Operators : opAt[t] # NoOp => opAt[t].slot \in Slots
  /\ user.pc \in {"start", "add", "register", "unregister", "close", "stop",
                  "destroy"} => ops[user.vdev] = {}

(* A cached command is still what the user wants, and the replay acts on   *)
(* the entry whose command it read.                                        *)
CommandInv ==
  /\ \A s \in Slots :
       netDev[s] # None /\ cmd[vdev[s]] = "INTERFACE_DOWN" => netDev[s] \notin up
  /\ ssr.pc \in {"replay", "stop_iface"} => ssr.slot <= ReplayedSlots + 1
  /\ ssr.pc = "stop_iface" =>
       /\ ssr.slot <= ReplayedSlots
       /\ netDev[ssr.slot] # None
       /\ cmd[vdev[ssr.slot]] = "INTERFACE_DOWN"

(* What holds in every reachable state: the properties, and why.           *)
IInv ==
  /\ TypeOK /\ SectionKeepsNode /\ LookupUnambiguous /\ EntriesConserved
  /\ PhaseInv /\ TransInv /\ UserInv /\ ModeInv /\ NodesInv /\ OpsInv
  /\ CommandInv

=============================================================================
