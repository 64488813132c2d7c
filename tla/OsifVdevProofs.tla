--------------------------- MODULE OsifVdevProofs ---------------------------
(***************************************************************************)
(* Proofs about OsifVdev, for all sets of interfaces, nodes and operators  *)
(* and every size of the array.                                            *)
(***************************************************************************)
EXTENDS OsifVdev, WellFoundedInduction, TLAPS

---------------------------------------------------------------------------
(* The array is searched from the front: a set of entries has a first one. *)
LEMMA FirstOfFacts ==
  ASSUME NEW S \in SUBSET Slots, S # {}
  PROVE  FirstOf(S) \in S
<1> DEFINE R == OpToRel(<, Nat)
<1>1. S \subseteq Nat
  BY SlotsAssumption DEF Slots
<1>2. \A x, y \in S : y < x => <<y, x>> \in R
  BY <1>1 DEF OpToRel
<1> HIDE DEF R
<1>3. \E x \in S : \A y \in S : ~(<<y, x>> \in R)
  BY <1>1, NatLessThanWellFounded, WFMin DEF R
<1>4. \A x, y \in S : ~(y < x) => x <= y
  BY <1>1
<1>5. \E x \in S : \A y \in S : x <= y
  BY <1>2, <1>3, <1>4
<1> QED BY <1>5 DEF FirstOf

(* NULL is nothing else, and the replay stays within the array.            *)
LEMMA NoneFacts == None \notin NetDevs /\ None \notin Vdevs /\ None \notin Slots
BY NoneAssumption DEF Slots

(* The replay's cursor starts in the array and stays in it, or one past it. *)
LEMMA ReplayFacts ==
  /\ 1 \in Slots
  /\ \A i \in Slots \cup {MaxSlots + 1} :
       i <= ReplayedSlots => i \in Slots /\ i + 1 \in Slots \cup {MaxSlots + 1}
BY SlotsAssumption DEF Slots

(* A lookup finds the entry of a registered interface, and nothing else.   *)
LEMMA LookupFacts ==
  ASSUME TypeOK, NEW d \in NetDevs
  PROVE  /\ Lookup(d) # None =>
              Lookup(d) \in Slots /\ Lookup(d) \in inUse /\ netDev[Lookup(d)] = d
         /\ Lookup(d) = None => \A s \in inUse : netDev[s] # d
<1>1. Registered(d) \subseteq Slots /\ None \notin Slots
  BY NoneAssumption DEF Registered, TypeOK, Slots
<1>2. Registered(d) # {} => FirstOf(Registered(d)) \in Registered(d)
  BY <1>1, FirstOfFacts
<1> QED BY <1>1, <1>2 DEF Lookup, Registered

(* While nobody else is registered for the interface, it finds that entry. *)
LEMMA LookupUnique ==
  ASSUME IInv, NEW d \in NetDevs, NEW s \in Slots, netDev[s] = d
  PROVE  Lookup(d) = s
<1>1. Lookup(d) # None
  BY LookupFacts, NoneAssumption DEF IInv, LookupUnambiguous
<1> QED BY <1>1, LookupFacts, NoneAssumption DEF IInv, LookupUnambiguous

(* osif_vdev_sync_get: the entry it takes was free.                        *)
LEMMA GetFacts ==
  ASSUME TypeOK, NEW s, Get(s)
  PROVE  s \in Slots \ inUse
BY FirstOfFacts DEF Get, FreeSlots, TypeOK

(* A user that has been given its transition keeps the mode change out of  *)
(* its closing and the restart out of its replay.                          *)
LEMMA OwnerFacts ==
  ASSUME IInv, user.pc \in InTrans, user.pc # "wait"
  PROVE  /\ mode.pc \in {"idle", "wait"} /\ mode.slot = None
         /\ driver # "active" /\ psoc # "active"
         /\ ssr.pc \notin {"replay", "stop_iface"}
<1>1. user.vdev \in Vdevs /\ trans[user.vdev] \in States
  BY DEF IInv, TypeOK, UserInv, InTrans, Asleep
<1>2. trans[user.vdev] = "active"
  BY <1>1 DEF IInv, TransInv, States
<1>3. driver # "active" /\ psoc # "active"
  BY <1>1, <1>2 DEF IInv, TransInv
<1> QED BY <1>3 DEF IInv, PhaseInv, ModeInv, Asleep

(* And the mode change, once it closes interfaces, finds no transition but *)
(* one that waits to be started, no replay and no operation.               *)
LEMMA ClosingFacts ==
  ASSUME IInv, mode.pc \notin {"idle", "wait"}
  PROVE  /\ user.pc \notin InTrans \/ Asleep
         /\ ssr.pc \notin {"replay", "stop_iface"}
         /\ NoOps
<1>1. driver = "active" /\ psoc # "active"
  BY DEF IInv, PhaseInv
<1>2. \A v \in Vdevs : trans[v] \in {"none", "queued"}
  BY <1>1 DEF IInv, TypeOK, TransInv, States
<1>3. user.pc \in InTrans => user.vdev \in Vdevs
  BY DEF IInv, TypeOK, UserInv, InTrans
<1>4. user.pc \notin InTrans \/ Asleep
  BY <1>2, <1>3 DEF IInv, TransInv, Asleep
<1> QED BY <1>1, <1>4 DEF IInv, PhaseInv, ModeInv

---------------------------------------------------------------------------
(* One lemma per action: the step preserves the inductive invariant.       *)

(* A fresh entry is nobody's and is zeroed.                                *)
LEMMA AddGetStep ==
  ASSUME IInv, AddGet
  PROVE  IInv'
<1> USE DEF IInv, AddGet, RtnlFree, Get
<1>1. SectionKeepsNode' /\ LookupUnambiguous' /\ PhaseInv'
      /\ TransInv' /\ ModeInv' /\ NodesInv' /\ OpsInv' /\ CommandInv'
  BY GetFacts DEF SectionKeepsNode, LookupUnambiguous, PhaseInv, TransInv,
     ModeInv, NodesInv, OpsInv, CommandInv, NoOp, InTrans, NoOps, Idle, tree,
     ifaces, Asleep
<1>2. TypeOK'
  BY GetFacts DEF TypeOK, Idle, Local, UserPCs, tree, ifaces
<1>3. EntriesConserved'
  BY GetFacts, NoneFacts DEF TypeOK, EntriesConserved, UserInv, Idle, Asleep
<1>4. UserInv'
  BY GetFacts DEF UserInv, NodesInv, Unregistered, Idle, tree, ifaces, Asleep
<1> QED BY <1>1, <1>2, <1>3, <1>4

(* The new node is in no other entry, and carries no command.              *)
LEMMA AddCreateStep ==
  ASSUME IInv, AddCreate
  PROVE  IInv'
<1> USE DEF IInv, AddCreate, DscVdevCreate, UserAt
<1>1. PhaseInv' /\ TransInv' /\ ModeInv'
  BY DEF PhaseInv, TransInv, ModeInv, InTrans, NoOps, tree, ifaces, Asleep
<1>2. TypeOK'
  <2>1. PICK v \in Vdevs : /\ DscVdevCreate(user.slot, v)
                          /\ user' = [user EXCEPT !.pc = "start", !.vdev = v]
    OBVIOUS
  <2>2. user' \in Local(UserPCs)
    BY <2>1 DEF TypeOK, Local, UserPCs
  <2> QED BY <2>1, <2>2 DEF TypeOK, tree, ifaces
<1>3. SectionKeepsNode'
  BY NoneFacts DEF SectionKeepsNode, TypeOK, UserInv, Local, NoOp,
     Unregistered, tree, ifaces, Asleep
<1>4. LookupUnambiguous'
  BY DEF LookupUnambiguous, UserInv, Unregistered, tree, ifaces, Asleep
<1>5. EntriesConserved'
  BY NoneFacts DEF EntriesConserved, TypeOK, UserInv, Local, Unregistered,
     tree, ifaces, Asleep
<1>6. UserInv'
  BY DEF UserInv, TypeOK, Local, Unregistered, tree, ifaces, Asleep
<1>7. NodesInv'
  BY NoneFacts DEF NodesInv, TypeOK, UserInv, Local, Unregistered, tree,
     ifaces, Asleep
<1>8. OpsInv'
  BY DEF OpsInv, TypeOK, SectionKeepsNode, Local, NoOp, tree, ifaces
<1>9. CommandInv'
  <2>1. PICK v \in Vdevs \ alive :
            /\ vdev' = [vdev EXCEPT ![user.slot] = v]
            /\ cmd' = [cmd EXCEPT ![v] = "NO_COMMAND"]
    OBVIOUS
  <2>2. netDev[user.slot] = None /\ user.slot \in Slots
    BY DEF TypeOK, UserInv, Unregistered, Asleep
  <2>3. \A s \in Slots : netDev[s] # None =>
          vdev'[s] = vdev[s] /\ cmd'[vdev'[s]] = cmd[vdev[s]]
    BY <2>1, <2>2, NoneFacts DEF TypeOK, NodesInv
  <2>4. ssr.pc = "stop_iface" => ssr.slot \in Slots
    BY ReplayFacts DEF TypeOK, CommandInv
  <2> QED BY <2>3, <2>4 DEF CommandInv, ifaces
<1> QED BY <1>1, <1>2, <1>3, <1>4, <1>5, <1>6, <1>7, <1>8, <1>9

(* Only the user moves on, to give the entry back.                         *)
LEMMA AddCreateFailsStep ==
  ASSUME IInv, AddCreateFails
  PROVE  IInv'
<1> USE DEF IInv, AddCreateFails, UserAt, UserGoto
<1> QED BY DEF TypeOK, SectionKeepsNode, LookupUnambiguous, EntriesConserved,
   PhaseInv, TransInv, UserInv, ModeInv, NodesInv, OpsInv, CommandInv, Local,
   UserPCs, NoOp, InTrans, Unregistered, NoOps, registry, tree, ifaces, Asleep

(* A transition is begun only where none above it is.                      *)
LEMMA AddTransStartStep ==
  ASSUME IInv, AddTransStart
  PROVE  IInv'
<1> USE DEF IInv, AddTransStart, VdevCanTrans, VdevTransStart, UserAt,
     UserGoto
<1>1. TypeOK' /\ LookupUnambiguous' /\ PhaseInv' /\ NodesInv'
      /\ CommandInv'
  BY DEF TypeOK, LookupUnambiguous, PhaseInv, NodesInv, CommandInv, Local,
     UserPCs, States, registry, ifaces
<1>2. SectionKeepsNode'
  BY DEF SectionKeepsNode, TypeOK, Local, NoOp, registry, ifaces
<1>3. EntriesConserved'
  BY DEF EntriesConserved, TypeOK, Local, registry, ifaces
<1>4. TransInv'
  BY DEF TransInv, TypeOK, Local, InTrans, registry, ifaces
<1>5. UserInv'
  BY DEF UserInv, TypeOK, Local, Unregistered, registry, ifaces, Asleep
<1>6. ModeInv'
  BY DEF ModeInv, TypeOK, Local, NoOps, registry, ifaces, Asleep
<1>7. OpsInv'
  BY DEF OpsInv, TypeOK, Local, NoOp, registry, ifaces
<1> QED BY <1>1, <1>2, <1>3, <1>4, <1>5, <1>6, <1>7

(* The new interface is registered nowhere yet.                            *)
LEMMA AddIfaceStep ==
  ASSUME IInv, AddIface
  PROVE  IInv'
<1> USE DEF IInv, AddIface, UserAt
<1>1. SectionKeepsNode' /\ LookupUnambiguous' /\ EntriesConserved'
      /\ PhaseInv' /\ TransInv' /\ ModeInv' /\ NodesInv'
      /\ OpsInv' /\ CommandInv'
  BY DEF SectionKeepsNode, LookupUnambiguous, EntriesConserved, PhaseInv,
     TransInv, ModeInv, NodesInv, OpsInv, CommandInv, NoOp, InTrans, NoOps,
     registry, tree, Asleep
<1>2. TypeOK'
  BY DEF TypeOK, Local, UserPCs, tree, registry
<1>3. UserInv'
  BY NoneFacts DEF UserInv, TypeOK, LookupUnambiguous, Local, Unregistered,
     registry, tree, Asleep
<1> QED BY <1>1, <1>2, <1>3

(* Without an interface the user goes on to give everything back.          *)
LEMMA AddIfaceFailsStep ==
  ASSUME IInv, AddIfaceFails
  PROVE  IInv'
<1> USE DEF IInv, AddIfaceFails, UserAt, UserGoto
<1> QED BY NoneFacts DEF TypeOK, SectionKeepsNode, LookupUnambiguous,
   EntriesConserved, PhaseInv, TransInv, UserInv, ModeInv, NodesInv, OpsInv,
   CommandInv, Local, UserPCs, NoOp, InTrans, Unregistered, NoOps, registry,
   tree, ifaces, Asleep

(* The interface was registered in no entry, and is now in this one.       *)
LEMMA AddRegisterStep ==
  ASSUME IInv, AddRegister
  PROVE  IInv'
<1> USE DEF IInv, AddRegister, Register, UserAt, UserGoto
<1>1. SectionKeepsNode' /\ EntriesConserved' /\ PhaseInv'
      /\ TransInv' /\ OpsInv'
  BY DEF SectionKeepsNode, EntriesConserved, PhaseInv, TransInv, OpsInv, NoOp,
     InTrans, tree, ifaces
<1>2. TypeOK'
  BY DEF TypeOK, UserInv, Local, UserPCs, Unregistered, tree, ifaces, Asleep
<1>3. LookupUnambiguous'
  BY NoneFacts DEF LookupUnambiguous, TypeOK, UserInv, NodesInv, Local,
     Unregistered, tree, ifaces, Asleep
<1>4. UserInv'
  BY DEF UserInv, TypeOK, Local, Unregistered, tree, ifaces, Asleep
<1>5. ModeInv'
  BY OwnerFacts DEF ModeInv, InTrans, NoOps, Asleep
<1>6. NodesInv'
  BY NoneFacts DEF NodesInv, TypeOK, UserInv, Local, Unregistered, tree,
     ifaces, Asleep
<1>7. CommandInv'
  BY DEF CommandInv, UserInv, Unregistered, tree, ifaces, Asleep
<1> QED BY <1>1, <1>2, <1>3, <1>4, <1>5, <1>6, <1>7

(* The waiters a stop starts are above the user, or nobody.                *)
LEMMA UserTransStopStep ==
  ASSUME IInv, UserTransStop
  PROVE  IInv'
<1> USE DEF IInv, UserTransStop, VdevTransStop, Triggered, AnyActive, Granted,
     Becomes, UserAt, UserGoto, UserReturns
<1>1. LookupUnambiguous' /\ NodesInv' /\ CommandInv'
  BY DEF LookupUnambiguous, NodesInv, CommandInv, Idle, registry, ifaces
<1>2. TypeOK'
  BY DEF TypeOK, UserInv, Local, UserPCs, States, Unregistered, Idle,
     registry, ifaces, Asleep
<1>3. SectionKeepsNode'
  BY DEF SectionKeepsNode, TypeOK, Local, NoOp, Idle, registry, ifaces
<1>4. EntriesConserved'
  BY NoneFacts DEF EntriesConserved, TypeOK, UserInv, Local, Unregistered,
     Idle, registry, ifaces, Asleep
<1>5. TransInv'
  BY DEF TransInv, TypeOK, Local, InTrans, Idle, registry, ifaces
<1>6. UserInv'
  BY DEF UserInv, TypeOK, Local, Unregistered, Idle, registry, ifaces, Asleep
<1>7. ModeInv'
  BY DEF ModeInv, TypeOK, Local, NoOps, Idle, registry, ifaces, Asleep
<1>8. OpsInv'
  BY DEF OpsInv, TypeOK, Local, NoOp, Idle, registry, ifaces
<1>9. PhaseInv'
  BY OwnerFacts DEF PhaseInv, InTrans, registry, ifaces
<1> QED BY <1>1, <1>2, <1>3, <1>4, <1>5, <1>6, <1>7, <1>8, <1>9

(* No operation is left on the node that is freed.                         *)
LEMMA UserDestroyStep ==
  ASSUME IInv, UserDestroy
  PROVE  IInv'
<1> USE DEF IInv, UserDestroy, DscVdevDestroy, UserAt
<1>1. EntriesConserved' /\ PhaseInv' /\ TransInv' /\ ModeInv'
      /\ OpsInv'
  BY DEF EntriesConserved, PhaseInv, TransInv, ModeInv, OpsInv, InTrans,
     NoOps, NoOp, tree, ifaces, Asleep
<1>2. TypeOK'
  BY DEF TypeOK, UserInv, Local, UserPCs, tree, ifaces, Asleep
<1>3. SectionKeepsNode'
  BY DEF SectionKeepsNode, UserInv, OpsInv, NoOp, Unregistered, tree, ifaces,
     Asleep
<1>4. LookupUnambiguous'
  BY NoneFacts DEF LookupUnambiguous, TypeOK, UserInv, Local, Unregistered,
     tree, ifaces, Asleep
<1>5. UserInv'
  BY DEF UserInv, TypeOK, Local, Unregistered, tree, ifaces, Asleep
<1>6. NodesInv'
  BY DEF NodesInv, TypeOK, UserInv, Local, Unregistered, tree, ifaces, Asleep
<1>7. CommandInv'
  BY DEF CommandInv, UserInv, Unregistered, tree, ifaces, Asleep
<1> QED BY <1>1, <1>2, <1>3, <1>4, <1>5, <1>6, <1>7

(* The entry that is given back has no node any more.                      *)
LEMMA UserPutStep ==
  ASSUME IInv, UserPut
  PROVE  IInv'
<1> USE DEF IInv, UserPut, Put, UserAt, UserReturns
<1>1. PhaseInv' /\ TransInv' /\ UserInv' /\ OpsInv'
  BY DEF PhaseInv, TransInv, UserInv, OpsInv, InTrans, Unregistered, NoOp,
     Idle, tree, ifaces, Asleep
<1>2. TypeOK'
  BY DEF TypeOK, UserInv, Local, UserPCs, Unregistered, Idle, tree, ifaces,
     Asleep
<1>3. SectionKeepsNode'
  BY DEF SectionKeepsNode, UserInv, NoOp, Unregistered, Idle, tree, ifaces,
     Asleep
<1>4. LookupUnambiguous'
  BY NoneFacts DEF LookupUnambiguous, TypeOK, Local, Idle, tree, ifaces
<1>5. EntriesConserved'
  BY NoneFacts DEF EntriesConserved, TypeOK, UserInv, NodesInv, Local,
     Unregistered, Idle, tree, ifaces, Asleep
<1>6. ModeInv'
  BY NoneFacts DEF ModeInv, TypeOK, Local, NoOps, Idle, tree, ifaces, Asleep
<1>7. NodesInv'
  BY DEF NodesInv, TypeOK, Local, Idle, tree, ifaces
<1>8. CommandInv'
  BY DEF CommandInv, UserInv, Unregistered, Idle, tree, ifaces, Asleep
<1> QED BY <1>1, <1>2, <1>3, <1>4, <1>5, <1>6, <1>7, <1>8

(* What the lookup found is registered, and is kept by the rtnl lock.      *)
LEMMA DelLookupStep ==
  ASSUME IInv, DelLookup
  PROVE  IInv'
<1> USE DEF IInv, DelLookup, RtnlFree
<1>1. TypeOK' /\ LookupUnambiguous' /\ PhaseInv' /\ TransInv'
      /\ NodesInv' /\ OpsInv' /\ CommandInv'
  BY LookupFacts DEF TypeOK, LookupUnambiguous, PhaseInv, TransInv, NodesInv,
     OpsInv, CommandInv, Local, UserPCs, InTrans, NoOp, registry, tree, ifaces
<1>2. SectionKeepsNode'
  BY LookupFacts DEF SectionKeepsNode, TypeOK, NodesInv, Local, NoOp,
     registry, tree, ifaces
<1>3. EntriesConserved'
  BY NoneFacts DEF TypeOK, EntriesConserved, UserInv, registry, Asleep
<1>4. UserInv'
  BY LookupFacts, NoneFacts DEF UserInv, TypeOK, NodesInv, Local,
     Unregistered, registry, tree, ifaces, Asleep
<1>5. ModeInv'
  BY LookupFacts, NoneFacts DEF ModeInv, TypeOK, Local, NoOps, registry, tree,
     ifaces, Asleep
<1> QED BY <1>1, <1>2, <1>3, <1>4, <1>5

(* A refused delete lets go; a queued one waits behind a replay.           *)
LEMMA DelStartWaitStep ==
  ASSUME IInv, DelStartWait
  PROVE  IInv'
<1> USE DEF IInv, DelStartWait, VdevCanTrans, VdevTransStart, UserAt,
     UserGoto, UserReturns
<1>1. TypeOK' /\ LookupUnambiguous' /\ PhaseInv' /\ NodesInv'
      /\ CommandInv'
  BY DEF TypeOK, LookupUnambiguous, PhaseInv, NodesInv, CommandInv, Local,
     UserPCs, States, Idle, registry, ifaces
<1>2. SectionKeepsNode'
  BY DEF SectionKeepsNode, TypeOK, Local, NoOp, Idle, registry, ifaces
<1>3. EntriesConserved'
  BY NoneFacts DEF EntriesConserved, TypeOK, UserInv, Local, Unregistered,
     Idle, registry, ifaces, Asleep
<1>4. TransInv'
  <2>1. user.vdev \in Vdevs /\ user.pc = "start_wait"
    BY DEF TypeOK, UserInv, Asleep
  <2>2. /\ \A v \in Vdevs : trans[v] = "none"
        /\ psoc # "none" /\ ~recovering => psoc = "active"
    BY <2>1 DEF TypeOK, TransInv, PhaseInv, InTrans, SsrPCs
  <2>3. CASE VdevCanTrans(user.vdev) = "SUCCESS"
    BY <2>1, <2>2, <2>3 DEF TypeOK, TransInv, InTrans, Local
  <2>4. CASE VdevCanTrans(user.vdev) = "BUSY"
    BY <2>1, <2>2, <2>4 DEF TypeOK, TransInv, InTrans, Local
  <2>5. CASE VdevCanTrans(user.vdev) = "INVAL"
    BY <2>1, <2>2, <2>5 DEF TypeOK, TransInv, InTrans, Idle
  <2> QED BY <2>3, <2>4, <2>5
<1>5. UserInv'
  BY DEF UserInv, TypeOK, PhaseInv, Local, Unregistered, Idle, registry,
     ifaces, Asleep
<1>6. ModeInv'
  BY DEF ModeInv, PhaseInv, NoOps, Idle, registry, ifaces, Asleep
<1>7. OpsInv'
  BY DEF OpsInv, TypeOK, Local, NoOp, Idle, registry, ifaces
<1> QED BY <1>1, <1>2, <1>3, <1>4, <1>5, <1>6, <1>7

(* Granted and drained: nothing but the user's place changes.              *)
LEMMA DelDrainedStep ==
  ASSUME IInv, DelDrained
  PROVE  IInv'
<1> USE DEF IInv, DelDrained, UserAt, UserGoto
<1> QED BY DEF TypeOK, SectionKeepsNode, LookupUnambiguous, EntriesConserved,
   PhaseInv, TransInv, UserInv, ModeInv, NodesInv, OpsInv, CommandInv, Local,
   UserPCs, NoOp, InTrans, Unregistered, NoOps, registry, tree, ifaces, Asleep

(* The lookup finds the user's own entry again.                            *)
LEMMA DelUnregisterStep ==
  ASSUME IInv, DelUnregister
  PROVE  IInv'
<1> USE DEF IInv, DelUnregister, Unregister, UserAt, UserGoto
<1>1. SectionKeepsNode' /\ LookupUnambiguous' /\ PhaseInv'
      /\ TransInv' /\ NodesInv' /\ OpsInv'
  BY DEF SectionKeepsNode, LookupUnambiguous, PhaseInv, TransInv, NodesInv,
     OpsInv, NoOp, InTrans, tree, ifaces
<1>2. TypeOK'
  BY LookupFacts DEF TypeOK, UserInv, Local, UserPCs, Unregistered, tree,
     ifaces, Asleep
<1>3. EntriesConserved'
  BY LookupFacts DEF EntriesConserved, TypeOK, LookupUnambiguous, UserInv,
     Local, Unregistered, tree, ifaces, Asleep
<1>4. UserInv'
  BY LookupFacts, NoneFacts DEF UserInv, TypeOK, LookupUnambiguous, Local,
     Unregistered, tree, ifaces, Asleep
<1>5. ModeInv'
  BY NoneFacts DEF ModeInv, TypeOK, Local, NoOps, tree, ifaces, Asleep
<1>6. CommandInv'
  BY NoneFacts, OwnerFacts, LookupFacts DEF TypeOK, CommandInv, InTrans,
     ifaces
<1> QED BY <1>1, <1>2, <1>3, <1>4, <1>5, <1>6

(* The interface that goes is registered nowhere.                          *)
LEMMA DelCloseStep ==
  ASSUME IInv, DelClose
  PROVE  IInv'
<1> USE DEF IInv, DelClose, UserAt, UserGoto
<1>1. TypeOK' /\ SectionKeepsNode' /\ EntriesConserved' /\ PhaseInv'
      /\ TransInv' /\ UserInv' /\ NodesInv' /\ OpsInv' /\ CommandInv'
  BY DEF TypeOK, SectionKeepsNode, EntriesConserved, PhaseInv, TransInv,
     UserInv, NodesInv, OpsInv, CommandInv, Local, UserPCs, NoOp, InTrans,
     Unregistered, registry, tree, Asleep
<1>2. LookupUnambiguous'
  BY DEF LookupUnambiguous, UserInv, Unregistered, registry, tree, Asleep
<1>3. ModeInv'
  BY OwnerFacts DEF ModeInv, InTrans, NoOps, Asleep
<1> QED BY <1>1, <1>2, <1>3

(* The interface stays, its entry is given back all the same.              *)
LEMMA DelCloseFailsStep ==
  ASSUME IInv, DelCloseFails
  PROVE  IInv'
<1> USE DEF IInv, DelCloseFails, UserAt, UserGoto
<1> QED BY DEF TypeOK, SectionKeepsNode, LookupUnambiguous, EntriesConserved,
   PhaseInv, TransInv, UserInv, ModeInv, NodesInv, OpsInv, CommandInv, Local,
   UserPCs, NoOp, InTrans, Unregistered, NoOps, registry, tree, ifaces, Asleep

(* As for an operation, the lookup and the request are one step.           *)
LEMMA HddOpenStep ==
  ASSUME IInv, HddOpen
  PROVE  IInv'
<1> USE DEF IInv, HddOpen, RtnlFree, StartsTrans, VdevCanTrans, UserEnters,
     VdevTransStart
<1>1. LookupUnambiguous' /\ PhaseInv' /\ NodesInv' /\ OpsInv'
      /\ CommandInv'
  BY DEF LookupUnambiguous, PhaseInv, NodesInv, OpsInv, CommandInv, NoOp,
     registry, ifaces
<1>2. TypeOK'
  BY LookupFacts, NoneFacts DEF TypeOK, NodesInv, Local, UserPCs, States,
     registry, ifaces
<1>3. SectionKeepsNode'
  BY LookupFacts DEF SectionKeepsNode, TypeOK, NodesInv, Local, NoOp,
     registry, ifaces
<1>4. EntriesConserved'
  BY DEF EntriesConserved, PhaseInv, UserInv, ModeInv, Unregistered, NoOps,
     registry, ifaces, Asleep
<1>5. TransInv'
  BY DEF TransInv, TypeOK, Local, InTrans, registry, ifaces
<1>6. UserInv'
  BY LookupFacts, NoneFacts DEF UserInv, TypeOK, NodesInv, Local,
     Unregistered, registry, ifaces, Asleep
<1>7. ModeInv'
  BY LookupFacts, NoneFacts DEF ModeInv, TypeOK, Local, NoOps, registry,
     ifaces, Asleep
<1> QED BY <1>1, <1>2, <1>3, <1>4, <1>5, <1>6, <1>7

(* An interface that comes up has its cached command withdrawn.            *)
LEMMA HddOpenedStep ==
  ASSUME IInv, HddOpened
  PROVE  IInv'
<1> USE DEF IInv, HddOpened, UserAt, UserGoto
<1>1. SectionKeepsNode' /\ LookupUnambiguous' /\ EntriesConserved'
      /\ PhaseInv' /\ TransInv' /\ UserInv' /\ NodesInv'
      /\ OpsInv'
  BY DEF SectionKeepsNode, LookupUnambiguous, EntriesConserved, PhaseInv,
     TransInv, UserInv, NodesInv, OpsInv, NoOp, InTrans, Unregistered,
     registry, tree, Asleep
<1>2. TypeOK'
  BY DEF TypeOK, UserInv, Local, UserPCs, Unregistered, registry, tree, Asleep
<1>3. ModeInv'
  BY OwnerFacts DEF ModeInv, InTrans, NoOps, Asleep
<1>4. CommandInv'
  <2>1. /\ user.slot \in Slots /\ vdev[user.slot] = user.vdev
        /\ user.vdev \in Vdevs /\ netDev[user.slot] = user.dev
    BY DEF TypeOK, UserInv, Asleep
  <2>2. ssr.pc \notin {"replay", "stop_iface"}
    BY OwnerFacts DEF InTrans
  <2> QED BY <2>1, <2>2, NoneFacts DEF TypeOK, CommandInv, LookupUnambiguous,
     registry
<1> QED BY <1>1, <1>2, <1>3, <1>4

(* Nothing but the user's place changes.                                   *)
LEMMA HddOpenFailsStep ==
  ASSUME IInv, HddOpenFails
  PROVE  IInv'
<1> USE DEF IInv, HddOpenFails, UserAt, UserGoto
<1> QED BY DEF TypeOK, SectionKeepsNode, LookupUnambiguous, EntriesConserved,
   PhaseInv, TransInv, UserInv, ModeInv, NodesInv, OpsInv, CommandInv, Local,
   UserPCs, NoOp, InTrans, Unregistered, NoOps, registry, tree, ifaces, Asleep

(* Down whatever the driver answers; a refusal leaves it to be cached.     *)
LEMMA HddStopStep ==
  ASSUME IInv, HddStop
  PROVE  IInv'
<1> USE DEF IInv, HddStop, RtnlFree, StartsTrans, VdevCanTrans, UserEnters,
     VdevTransStart
<1>1. TypeOK' /\ LookupUnambiguous' /\ PhaseInv' /\ NodesInv'
      /\ OpsInv' /\ CommandInv'
  BY LookupFacts DEF TypeOK, LookupUnambiguous, PhaseInv, NodesInv, OpsInv,
     CommandInv, Local, UserPCs, States, NoOp, registry
<1>2. SectionKeepsNode'
  BY LookupFacts DEF SectionKeepsNode, TypeOK, NodesInv, Local, NoOp, registry
<1>3. EntriesConserved'
  BY NoneFacts DEF TypeOK, EntriesConserved, UserInv, registry, Asleep
<1>4. TransInv'
  BY DEF TransInv, TypeOK, Local, InTrans, registry
<1>5. UserInv'
  BY LookupFacts, NoneFacts DEF UserInv, TypeOK, NodesInv, Local,
     Unregistered, registry, Asleep
<1>6. ModeInv'
  BY LookupFacts, NoneFacts DEF ModeInv, TypeOK, Local, NoOps, registry,
     Asleep
<1> QED BY <1>1, <1>2, <1>3, <1>4, <1>5, <1>6

(* The command is cached for an interface user space took down.            *)
LEMMA HddStopCachedStep ==
  ASSUME IInv, HddStopCached
  PROVE  IInv'
<1> USE DEF IInv, HddStopCached, UserAt, UserReturns
<1>1. SectionKeepsNode' /\ LookupUnambiguous' /\ PhaseInv'
      /\ TransInv' /\ UserInv' /\ ModeInv' /\ NodesInv' /\ OpsInv'
  BY DEF SectionKeepsNode, LookupUnambiguous, PhaseInv, TransInv, UserInv,
     ModeInv, NodesInv, OpsInv, NoOp, InTrans, Unregistered, NoOps, Idle,
     registry, tree, ifaces, Asleep
<1>2. TypeOK'
  BY DEF TypeOK, UserInv, Local, UserPCs, Unregistered, Idle, registry, tree,
     ifaces, Asleep
<1>3. EntriesConserved'
  BY NoneFacts DEF EntriesConserved, TypeOK, UserInv, Local, Unregistered,
     Idle, registry, tree, ifaces, Asleep
<1>4. CommandInv'
  BY NoneFacts DEF TypeOK, CommandInv, UserInv, NodesInv, ModeInv, registry,
     ifaces, Asleep
<1> QED BY <1>1, <1>2, <1>3, <1>4

(* What the driver closes is not up any more.                              *)
LEMMA HddStoppedStep ==
  ASSUME IInv, HddStopped
  PROVE  IInv'
<1> USE DEF IInv, HddStopped, UserAt, UserGoto
<1>1. TypeOK' /\ SectionKeepsNode' /\ LookupUnambiguous'
      /\ EntriesConserved' /\ PhaseInv' /\ TransInv' /\ UserInv' /\ ModeInv'
      /\ NodesInv' /\ OpsInv' /\ CommandInv'
  BY DEF TypeOK, SectionKeepsNode, LookupUnambiguous, EntriesConserved,
     PhaseInv, TransInv, UserInv, ModeInv, NodesInv, OpsInv, CommandInv,
     Local, UserPCs, NoOp, InTrans, Unregistered, NoOps, registry, tree,
     Asleep
<1> QED BY <1>1

(* A new operation is on a node without a transition.                      *)
LEMMA OpStartStep ==
  ASSUME IInv, NEW t \in Operators, OpStart(t)
  PROVE  IInv'
<1> USE DEF IInv, OpStart, StartsTrans, VdevCanTrans
<1>1. LookupUnambiguous' /\ EntriesConserved' /\ PhaseInv'
      /\ TransInv' /\ UserInv' /\ NodesInv' /\ CommandInv'
  BY DEF LookupUnambiguous, EntriesConserved, PhaseInv, TransInv, UserInv,
     NodesInv, CommandInv, InTrans, Unregistered, registry, tree, ifaces,
     Asleep
<1>2. TypeOK'
  BY LookupFacts, NoneFacts DEF TypeOK, NodesInv, registry, tree, ifaces
<1>3. SectionKeepsNode'
  BY LookupFacts, NoneFacts DEF SectionKeepsNode, TypeOK, NodesInv, NoOp,
     registry, tree, ifaces
<1>4. ModeInv'
  BY DEF ModeInv, PhaseInv, NoOps, registry, tree, ifaces, Asleep
<1>5. OpsInv'
  BY LookupFacts, NoneFacts DEF OpsInv, TypeOK, TransInv, UserInv, NodesInv,
     NoOp, InTrans, Unregistered, registry, tree, ifaces, Asleep
<1> QED BY <1>1, <1>2, <1>3, <1>4, <1>5

(* The entry still holds the node the operation began on.                  *)
LEMMA OpStopStep ==
  ASSUME IInv, NEW t \in Operators, OpStop(t)
  PROVE  IInv'
<1> USE DEF IInv, OpStop
<1>1. LookupUnambiguous' /\ EntriesConserved' /\ PhaseInv'
      /\ TransInv' /\ UserInv' /\ ModeInv' /\ NodesInv' /\ CommandInv'
  BY DEF LookupUnambiguous, EntriesConserved, PhaseInv, TransInv, UserInv,
     ModeInv, NodesInv, CommandInv, InTrans, Unregistered, NoOps, registry,
     tree, ifaces, Asleep
<1>2. TypeOK'
  BY DEF TypeOK, SectionKeepsNode, NoOp, registry, tree, ifaces
<1>3. SectionKeepsNode'
  BY DEF SectionKeepsNode, TypeOK, NoOp, registry, tree, ifaces
<1>4. OpsInv'
  BY DEF OpsInv, TypeOK, SectionKeepsNode, NoOp, registry, tree, ifaces
<1> QED BY <1>1, <1>2, <1>3, <1>4

(* The driver's transition waits for everything below it.                  *)
LEMMA ModeStartWaitStep ==
  ASSUME IInv, ModeStartWait
  PROVE  IInv'
<1> USE DEF IInv, ModeStartWait, AnyActive, ModeAt, ModeGoto
<1> QED BY DEF TypeOK, SectionKeepsNode, LookupUnambiguous, EntriesConserved,
   PhaseInv, TransInv, UserInv, ModeInv, NodesInv, OpsInv, CommandInv, Local,
   ModePCs, States, NoOp, InTrans, Unregistered, NoOps, registry, ifaces,
   Asleep

(* Nothing but the mode change's place changes.                            *)
LEMMA ModeRefusedStep ==
  ASSUME IInv, ModeRefused
  PROVE  IInv'
<1> USE DEF IInv, ModeRefused, ModeDrained, NoOps, ModeAt, ModeGoto
<1> QED BY DEF TypeOK, SectionKeepsNode, LookupUnambiguous, EntriesConserved,
     PhaseInv, TransInv, UserInv, ModeInv, NodesInv, OpsInv, CommandInv,
     Local, ModePCs, NoOp, InTrans, Unregistered, registry, tree, ifaces,
     Asleep

(* With the tree drained, no operation is left.                            *)
LEMMA ModeStopsAllStep ==
  ASSUME IInv, ModeStopsAll
  PROVE  IInv'
<1> USE DEF IInv, ModeStopsAll, ModeDrained, NoOps, ModeAt, ModeGoto
<1> QED BY DEF TypeOK, SectionKeepsNode, LookupUnambiguous, EntriesConserved,
     PhaseInv, TransInv, UserInv, ModeInv, NodesInv, OpsInv, CommandInv,
     Local, ModePCs, NoOp, InTrans, Unregistered, registry, tree, Asleep

(* No user is in a transition; one that only looked up may remain.         *)
LEMMA CloseUnregisterStep ==
  ASSUME IInv, CloseUnregister
  PROVE  IInv'
<1> USE DEF IInv, CloseUnregister, Unregister, ModeAt
<1>1. SectionKeepsNode' /\ LookupUnambiguous' /\ PhaseInv'
      /\ TransInv' /\ NodesInv' /\ OpsInv'
  BY DEF SectionKeepsNode, LookupUnambiguous, PhaseInv, TransInv, NodesInv,
     OpsInv, NoOp, InTrans, Idle, tree, ifaces
<1>2. TypeOK'
  <2>1. PICK d \in exists :
            /\ Unregister(Lookup(d))
            /\ mode' = [Idle EXCEPT !.pc = "close", !.dev = d,
                                   !.slot = Lookup(d)]
    OBVIOUS
  <2>2. d \in NetDevs /\ Lookup(d) \in Slots \cup {None}
    BY LookupFacts DEF TypeOK
  <2> QED BY <2>1, <2>2 DEF TypeOK, Idle, Local, ModePCs, tree, ifaces
<1>3. EntriesConserved'
  <2>1. PICK d \in exists :
            /\ Unregister(Lookup(d))
            /\ mode' = [Idle EXCEPT !.pc = "close", !.dev = d,
                                   !.slot = Lookup(d)]
    OBVIOUS
  <2>2. mode.slot = None /\ mode'.slot = Lookup(d)
    BY <2>1 DEF ModeInv, Idle, Asleep
  <2> QED BY <2>1, <2>2, NoneFacts DEF TypeOK, EntriesConserved
<1>4. UserInv'
  <2>1. PICK d \in exists :
            /\ Unregister(Lookup(d))
            /\ mode' = [Idle EXCEPT !.pc = "close", !.dev = d,
                                   !.slot = Lookup(d)]
    OBVIOUS
  <2>2. \A s \in Slots : netDev'[s] = IF s = Lookup(d) THEN None ELSE netDev[s]
    BY <2>1, NoneFacts DEF TypeOK
  <2>3. mode'.pc = "close" /\ mode'.slot = Lookup(d)
    BY <2>1 DEF Idle
  <2>4. user.pc \notin InTrans \/ Asleep
    BY ClosingFacts
  <2>5. Asleep' <=> Asleep
    BY DEF Asleep, tree
  <2>6. user.pc \in {"start_wait", "cache"} \/ Asleep =>
          netDev[user.slot] = user.dev /\ user.dev \in exists
    BY DEF UserInv
  <2>7. user.pc # "idle" => user.slot \in Slots
    BY DEF UserInv, TypeOK
  <2>8. Asleep => user.pc = "wait"
    BY DEF Asleep
  <2> HIDE DEF Asleep
  <2> QED BY <2>2, <2>3, <2>4, <2>5, <2>6, <2>7, <2>8
       DEF UserInv, InTrans, Unregistered, ifaces
<1>5. ModeInv'
  <2>1. PICK d \in exists :
            /\ Unregister(Lookup(d))
            /\ mode' = [Idle EXCEPT !.pc = "close", !.dev = d,
                                   !.slot = Lookup(d)]
    OBVIOUS
  <2>2. /\ d \in NetDevs
        /\ Lookup(d) # None =>
             Lookup(d) \in Slots /\ Lookup(d) \in inUse /\ netDev[Lookup(d)] = d
    BY LookupFacts DEF TypeOK
  <2>3. mode'.pc = "close" /\ mode'.dev = d /\ mode'.slot = Lookup(d)
    BY <2>1 DEF Idle
  <2>4. \A s \in Slots : netDev'[s] # d
    BY <2>1, <2>2, LookupFacts, NoneFacts DEF TypeOK, LookupUnambiguous
  <2>5. Lookup(d) # None /\ Lookup(d) = user.slot =>
          user.pc \in {"start_wait", "cache"} \/ Asleep
    BY <2>2, ClosingFacts, NoneFacts DEF TypeOK, Local, UserPCs, UserInv,
       Unregistered, InTrans, Asleep
  <2>6. Lookup(d) # None => netDev'[Lookup(d)] = None
    BY <2>1, <2>2 DEF TypeOK
  <2>7. Asleep' <=> Asleep
    BY DEF Asleep, tree
  <2> QED BY <2>2, <2>3, <2>4, <2>5, <2>6, <2>7, ClosingFacts
       DEF ModeInv, ifaces, NoOps
<1>6. CommandInv'
  BY LookupFacts, ClosingFacts, NoneFacts DEF TypeOK, CommandInv, ifaces
<1> QED BY <1>1, <1>2, <1>3, <1>4, <1>5, <1>6

(* The rtnl lock is free: no user holds the entry that is closed.          *)
LEMMA CloseAdapterStep ==
  ASSUME IInv, CloseAdapter
  PROVE  IInv'
<1> USE DEF IInv, CloseAdapter, ModeAt, ModeGoto, RtnlFree, UserAt
<1>1. TypeOK' /\ SectionKeepsNode' /\ EntriesConserved' /\ PhaseInv'
      /\ TransInv' /\ UserInv' /\ ModeInv' /\ NodesInv' /\ OpsInv'
      /\ CommandInv'
  BY DEF TypeOK, SectionKeepsNode, EntriesConserved, PhaseInv, TransInv,
     UserInv, ModeInv, NodesInv, OpsInv, CommandInv, Local, ModePCs, NoOp,
     InTrans, Unregistered, NoOps, registry, tree, Asleep
<1>2. LookupUnambiguous'
  BY DEF LookupUnambiguous, ModeInv, NoOps, registry, tree, Asleep
<1> QED BY <1>1, <1>2

(* The node freed is the mode change's alone.                              *)
LEMMA CloseDestroyStep ==
  ASSUME IInv, CloseDestroy
  PROVE  IInv'
<1> USE DEF IInv, CloseDestroy, DscVdevDestroy, ModeAt, ModeGoto
<1>1. EntriesConserved' /\ PhaseInv' /\ TransInv' /\ OpsInv'
  BY DEF EntriesConserved, PhaseInv, TransInv, OpsInv, InTrans, NoOp, tree,
     ifaces
<1>2. TypeOK'
  BY DEF TypeOK, ModeInv, Local, ModePCs, NoOps, tree, ifaces, Asleep
<1>3. SectionKeepsNode'
  BY DEF SectionKeepsNode, TypeOK, ModeInv, NodesInv, Local, NoOp, NoOps,
     tree, ifaces, Asleep
<1>4. LookupUnambiguous'
  BY NoneFacts DEF LookupUnambiguous, TypeOK, ModeInv, Local, NoOps, tree,
     ifaces, Asleep
<1>5. UserInv'
  BY DEF UserInv, TypeOK, ModeInv, NodesInv, Local, Unregistered, NoOps, tree,
     ifaces, Asleep
<1>6. ModeInv'
  BY DEF ModeInv, TypeOK, Local, NoOps, tree, ifaces, Asleep
<1>7. NodesInv'
  BY DEF NodesInv, TypeOK, ModeInv, Local, NoOps, tree, ifaces, Asleep
<1>8. CommandInv'
  BY DEF CommandInv, ModeInv, NoOps, tree, ifaces, Asleep
<1> QED BY <1>1, <1>2, <1>3, <1>4, <1>5, <1>6, <1>7, <1>8

(* The entry given back has no node any more.                              *)
LEMMA ClosePutStep ==
  ASSUME IInv, ClosePut
  PROVE  IInv'
<1> USE DEF IInv, ClosePut, Put, ModeAt
<1>1. PhaseInv' /\ TransInv' /\ ModeInv' /\ OpsInv'
  BY DEF PhaseInv, TransInv, ModeInv, OpsInv, InTrans, NoOps, NoOp, Idle,
     tree, ifaces, Asleep
<1>2. TypeOK'
  BY DEF TypeOK, ModeInv, Local, ModePCs, NoOps, Idle, tree, ifaces, Asleep
<1>3. SectionKeepsNode'
  BY DEF SectionKeepsNode, ModeInv, NoOp, NoOps, Idle, tree, ifaces, Asleep
<1>4. LookupUnambiguous'
  BY NoneFacts DEF LookupUnambiguous, TypeOK, Local, Idle, tree, ifaces
<1>5. EntriesConserved'
  BY NoneFacts DEF EntriesConserved, TypeOK, SectionKeepsNode, ModeInv, Local,
     NoOp, NoOps, Idle, tree, ifaces, Asleep
<1>6. UserInv'
  BY DEF UserInv, ModeInv, Unregistered, NoOps, Idle, tree, ifaces, Asleep
<1>7. NodesInv'
  BY DEF NodesInv, TypeOK, Local, Idle, tree, ifaces
<1>8. CommandInv'
  BY DEF CommandInv, ModeInv, NoOps, Idle, tree, ifaces, Asleep
<1> QED BY <1>1, <1>2, <1>3, <1>4, <1>5, <1>6, <1>7, <1>8

(* No interface is left, so none is up.                                    *)
LEMMA CloseAllDoneStep ==
  ASSUME IInv, CloseAllDone
  PROVE  IInv'
<1> USE DEF IInv, CloseAllDone, ModeAt, ModeGoto
<1>1. TypeOK' /\ SectionKeepsNode' /\ LookupUnambiguous'
      /\ EntriesConserved' /\ PhaseInv' /\ TransInv'
      /\ UserInv' /\ NodesInv' /\ OpsInv' /\ CommandInv'
  BY DEF TypeOK, SectionKeepsNode, LookupUnambiguous, EntriesConserved,
     PhaseInv, TransInv, UserInv, NodesInv, OpsInv, CommandInv, Local,
     ModePCs, NoOp, InTrans, Unregistered, registry, tree, ifaces, Asleep
<1>2. ModeInv'
  BY DEF ModeInv, TypeOK, Local, NoOps, registry, tree, ifaces, Asleep
<1> QED BY <1>1, <1>2

(* The interface opened anew has an entry and a node of its own.           *)
LEMMA ModeOpensStep ==
  ASSUME IInv, ModeOpens
  PROVE  IInv'
<1> USE DEF IInv, ModeOpens, DscVdevCreate, Register, ModeAt, ModeGoto,
     RtnlFree, UserAt, Get
<1>1. TypeOK' /\ PhaseInv' /\ TransInv' /\ UserInv'
      /\ ModeInv' /\ OpsInv'
  BY DEF TypeOK, PhaseInv, TransInv, UserInv, ModeInv, OpsInv, Local, ModePCs,
     InTrans, Unregistered, NoOps, NoOp, tree, Asleep
<1>2. SectionKeepsNode'
  BY GetFacts, NoneFacts DEF SectionKeepsNode, TypeOK, NodesInv, Local, NoOp,
     tree
<1>3. LookupUnambiguous'
  BY NoneFacts DEF LookupUnambiguous, TypeOK, NodesInv, Local, tree
<1>4. EntriesConserved'
  BY GetFacts, NoneFacts DEF EntriesConserved, TypeOK, Local, tree
<1>5. NodesInv'
  BY NoneFacts DEF NodesInv, TypeOK, Local, tree
<1>6. CommandInv'
  <2>1. ssr'.pc \notin {"replay", "stop_iface"}
    BY ClosingFacts
  <2>2. PICK r \in Slots, v \in Vdevs \ alive :
            /\ r \notin inUse
            /\ vdev' = [vdev EXCEPT ![r] = v]
            /\ cmd' = [cmd EXCEPT ![v] = "NO_COMMAND"]
            /\ \A s \in Slots \ {r} : netDev'[s] = netDev[s]
    BY GetFacts DEF TypeOK
  <2>3. \A s \in Slots \ {r} : netDev[s] # None =>
          vdev'[s] = vdev[s] /\ cmd'[vdev'[s]] = cmd[vdev[s]]
    BY <2>2, NoneFacts DEF TypeOK, NodesInv
  <2>4. cmd'[vdev'[r]] = "NO_COMMAND"
    BY <2>2 DEF TypeOK
  <2> QED BY <2>1, <2>2, <2>3, <2>4 DEF CommandInv
<1> QED BY <1>1, <1>2, <1>3, <1>4, <1>5, <1>6

(* The rtnl lock is free: the user holds nothing.                          *)
LEMMA ModeLocksStep ==
  ASSUME IInv, ModeLocks
  PROVE  IInv'
<1> USE DEF IInv, ModeLocks, ModeAt, ModeGoto, RtnlFree
<1> QED BY DEF TypeOK, SectionKeepsNode, LookupUnambiguous, EntriesConserved,
     PhaseInv, TransInv, UserInv, ModeInv, NodesInv, OpsInv, CommandInv,
     Local, ModePCs, NoOp, InTrans, Unregistered, NoOps, registry, tree,
     ifaces, Asleep

(* Nothing but the mode change's place changes.                            *)
LEMMA ModeOpenedStep ==
  ASSUME IInv, ModeOpened
  PROVE  IInv'
<1> USE DEF IInv, ModeOpened, ModeAt, ModeGoto
<1> QED BY DEF TypeOK, SectionKeepsNode, LookupUnambiguous, EntriesConserved,
     PhaseInv, TransInv, UserInv, ModeInv, NodesInv, OpsInv, CommandInv,
     Local, ModePCs, NoOp, InTrans, Unregistered, NoOps, registry, tree,
     ifaces, Asleep

(* With the rtnl lock held every entry in use is a registered one, and the *)
(* array is empty afterwards.                                              *)
LEMMA ModeOpenFailsStep ==
  ASSUME IInv, ModeOpenFails
  PROVE  IInv'
<1> USE DEF IInv, ModeOpenFails, ModeAt, ModeGoto
<1>1. /\ user.pc = "idle" /\ user.slot = None /\ user.vdev = None
      /\ mode.slot = None /\ NoOps
  BY DEF ModeInv, UserInv
<1>2. \A s \in inUse : s \in Slots /\ netDev[s] # None
  BY <1>1, NoneFacts DEF TypeOK, EntriesConserved
<1>3. inUse' = {}
  BY <1>2
<1>4. \A s \in Slots : netDev[s] # None => s \in inUse
  BY DEF LookupUnambiguous
<1>5. \A s \in Slots : netDev'[s] = None /\ vdev'[s] = None
  BY <1>2, <1>4 DEF NodesInv
<1>6. alive' = {}
  BY <1>2 DEF EntriesConserved, TypeOK
<1>7. /\ netDev' \in [Slots -> NetDevs \cup {None}]
      /\ vdev' \in [Slots -> Vdevs \cup {None}]
  BY DEF TypeOK
<1>8. \A t \in Operators : opAt[t] = NoOp
  BY <1>1 DEF TypeOK, SectionKeepsNode, NoOps
<1>9. mode' \in Local(ModePCs) /\ mode'.pc = "stop" /\ mode'.slot = None
  BY <1>1 DEF TypeOK, Local, ModePCs
<1>10. ssr.pc \notin {"replay", "stop_iface"}
  BY ClosingFacts
<1>11. TypeOK'
  BY <1>3, <1>6, <1>7, <1>9 DEF TypeOK, tree
<1>12. SectionKeepsNode' /\ LookupUnambiguous' /\ EntriesConserved'
  BY <1>1, <1>3, <1>5, <1>6, <1>8
     DEF SectionKeepsNode, LookupUnambiguous, EntriesConserved
<1>13. PhaseInv' /\ TransInv'
  BY <1>9 DEF PhaseInv, TransInv, tree
<1>14. UserInv' /\ ModeInv'
  BY <1>1, <1>9 DEF UserInv, ModeInv, NoOps, Unregistered, Asleep, tree
<1>15. NodesInv' /\ OpsInv' /\ CommandInv'
  BY <1>1, <1>3, <1>5, <1>10 DEF NodesInv, OpsInv, CommandInv
<1> QED BY <1>11, <1>12, <1>13, <1>14, <1>15

(* The tree is free again; whoever queued behind it is started.            *)
LEMMA ModeStopStep ==
  ASSUME IInv, ModeStop
  PROVE  IInv'
<1> USE DEF IInv, ModeStop, Triggered, AnyActive, Granted, Becomes, ModeAt
<1>1. TypeOK' /\ SectionKeepsNode' /\ LookupUnambiguous' /\ PhaseInv'
      /\ UserInv' /\ ModeInv' /\ NodesInv' /\ OpsInv' /\ CommandInv'
  BY DEF TypeOK, SectionKeepsNode, LookupUnambiguous, PhaseInv, UserInv,
     ModeInv, NodesInv, OpsInv, CommandInv, Local, ModePCs, States, NoOp,
     Unregistered, NoOps, Idle, registry, ifaces, Asleep
<1>2. EntriesConserved'
  BY DEF EntriesConserved, ModeInv, NoOps, Idle, registry, ifaces, Asleep
<1>3. TransInv'
  BY DEF TransInv, PhaseInv, InTrans, Idle, registry, ifaces
<1> QED BY <1>1, <1>2, <1>3

(* The firmware goes down in the middle of whatever the user does.         *)
LEMMA FwDownStep ==
  ASSUME IInv, FwDown
  PROVE  IInv'
<1> USE DEF IInv, FwDown, ModeAt, SsrAt, SsrGoto
<1> QED BY DEF TypeOK, SectionKeepsNode, LookupUnambiguous, EntriesConserved,
   PhaseInv, TransInv, UserInv, ModeInv, NodesInv, OpsInv, CommandInv, SsrPCs,
   NoOp, InTrans, Unregistered, NoOps, registry, tree, ifaces, Asleep

(* The psoc's transition waits for the user's, or is refused.              *)
LEMMA ShutdownStep ==
  ASSUME IInv, Shutdown
  PROVE  IInv'
<1> USE DEF IInv, Shutdown, AnyActive, SsrAt, SsrGoto
<1> QED BY DEF TypeOK, SectionKeepsNode, LookupUnambiguous, EntriesConserved,
   PhaseInv, TransInv, UserInv, ModeInv, NodesInv, OpsInv, CommandInv, SsrPCs,
   States, NoOp, InTrans, Unregistered, NoOps, registry, ifaces, Asleep

(* Nothing but the restart's place changes.                                *)
LEMMA ShutdownDoneStep ==
  ASSUME IInv, ShutdownDone
  PROVE  IInv'
<1> USE DEF IInv, ShutdownDone, NoOps, SsrAt, SsrGoto
<1> QED BY DEF TypeOK, SectionKeepsNode, LookupUnambiguous, EntriesConserved,
   PhaseInv, TransInv, UserInv, ModeInv, NodesInv, OpsInv, CommandInv, SsrPCs,
   NoOp, InTrans, Unregistered, registry, tree, ifaces, Asleep

(* The flag falls before the replay; requests queue from now on.           *)
LEMMA ReinitStep ==
  ASSUME IInv, ~Over, Reinit
  PROVE  IInv'
<1> USE DEF IInv, Reinit, Over, Refused, SsrAt
<1>1. SectionKeepsNode' /\ LookupUnambiguous' /\ EntriesConserved'
      /\ PhaseInv' /\ TransInv' /\ UserInv' /\ ModeInv'
      /\ NodesInv' /\ OpsInv'
  BY DEF SectionKeepsNode, LookupUnambiguous, EntriesConserved, PhaseInv,
     TransInv, UserInv, ModeInv, NodesInv, OpsInv, NoOp, InTrans,
     Unregistered, NoOps, registry, tree, ifaces, Asleep
<1>2. TypeOK'
  BY ReplayFacts DEF TypeOK, SsrPCs, registry, tree, ifaces
<1>3. CommandInv'
  BY SlotsAssumption DEF CommandInv, registry, ifaces
<1> QED BY <1>1, <1>2, <1>3

(* The transition ends, and the flag stays.                                *)
LEMMA ReinitFailsStep ==
  ASSUME IInv, ~Over, ReinitFails
  PROVE  IInv'
<1> USE DEF IInv, ReinitFails, Over, Refused, Triggered, AnyActive, Granted,
     Becomes, SsrAt, SsrGoto
<1> QED BY DEF TypeOK, SectionKeepsNode, LookupUnambiguous, EntriesConserved,
   PhaseInv, TransInv, UserInv, ModeInv, NodesInv, OpsInv, CommandInv, SsrPCs,
   States, NoOp, InTrans, Unregistered, NoOps, registry, ifaces, Asleep

(* The command read is one the user still wants.                           *)
LEMMA ReplayReadStep ==
  ASSUME IInv, ReplayRead
  PROVE  IInv'
<1> USE DEF IInv, ReplayRead, SsrAt, SsrGoto, ReplayNext
<1>1. SectionKeepsNode' /\ LookupUnambiguous' /\ EntriesConserved'
      /\ UserInv' /\ ModeInv' /\ NodesInv' /\ OpsInv'
  BY DEF SectionKeepsNode, LookupUnambiguous, EntriesConserved, UserInv,
     ModeInv, NodesInv, OpsInv, NoOp, Unregistered, NoOps, registry, tree,
     ifaces, Asleep
<1>2. TypeOK'
  <2>1. /\ ssr \in [pc : SsrPCs, slot : Slots \cup {MaxSlots + 1}]
        /\ ssr.slot <= ReplayedSlots
    BY DEF TypeOK
  <2>2. ssr' \in [pc : SsrPCs, slot : Slots \cup {MaxSlots + 1}]
    BY <2>1, ReplayFacts DEF SsrPCs
  <2>3. oops' \in BOOLEAN
    BY DEF TypeOK
  <2> QED BY <2>2, <2>3 DEF TypeOK, registry, tree, ifaces
<1>3. PhaseInv'
  BY DEF PhaseInv, TypeOK, registry, tree, ifaces
<1>4. TransInv'
  BY DEF TransInv, TypeOK, InTrans, registry, tree, ifaces
<1>5. CommandInv'
  <2>1. ssr.slot \in Slots /\ ssr.slot <= ReplayedSlots /\ ssr.slot \in Nat
    BY ReplayFacts, SlotsAssumption DEF TypeOK, Slots
  <2> QED BY <2>1, SlotsAssumption DEF TypeOK, CommandInv, registry, ifaces
<1> QED BY <1>1, <1>2, <1>3, <1>4, <1>5

(* The interface that is stopped is not up.                                *)
LEMMA ReplayStopStep ==
  ASSUME IInv, ReplayStop
  PROVE  IInv'
<1> USE DEF IInv, ReplayStop, SsrAt, ReplayNext
<1>1. SectionKeepsNode' /\ LookupUnambiguous' /\ EntriesConserved'
      /\ PhaseInv' /\ TransInv' /\ UserInv' /\ ModeInv' /\ NodesInv'
      /\ OpsInv'
  BY DEF SectionKeepsNode, LookupUnambiguous, EntriesConserved, PhaseInv,
     TransInv, UserInv, ModeInv, NodesInv, OpsInv, NoOp, InTrans,
     Unregistered, NoOps, registry, tree, Asleep
<1>2. TypeOK'
  <2>1. ssr' \in [pc : SsrPCs, slot : Slots \cup {MaxSlots + 1}]
    BY ReplayFacts DEF TypeOK, CommandInv, SsrPCs
  <2> QED BY <2>1 DEF TypeOK, registry, tree
<1>3. CommandInv'
  <2>1. ssr.slot \in Slots /\ ssr.slot <= ReplayedSlots /\ ssr.slot \in Nat
    BY ReplayFacts, SlotsAssumption DEF TypeOK, CommandInv, Slots
  <2> QED BY <2>1, SlotsAssumption DEF TypeOK, CommandInv, NodesInv, registry
<1> QED BY <1>1, <1>2, <1>3

(* The mode change or the delete that waited for the restart is started.   *)
LEMMA SsrStopStep ==
  ASSUME IInv, SsrStop
  PROVE  IInv'
<1> USE DEF IInv, SsrStop, Triggered, AnyActive, Granted, Becomes, SsrAt
<1>1. SectionKeepsNode' /\ LookupUnambiguous' /\ EntriesConserved'
      /\ PhaseInv' /\ UserInv' /\ ModeInv' /\ NodesInv'
      /\ OpsInv' /\ CommandInv'
  BY DEF SectionKeepsNode, LookupUnambiguous, EntriesConserved, PhaseInv,
     UserInv, ModeInv, NodesInv, OpsInv, CommandInv, NoOp, Unregistered,
     NoOps, registry, ifaces, Asleep
<1>2. TypeOK'
  BY ReplayFacts DEF TypeOK, States, SsrPCs, registry, ifaces
<1>3. TransInv'
  BY DEF TransInv, PhaseInv, InTrans, registry, ifaces
<1> QED BY <1>1, <1>2, <1>3

(* The empty registry is consistent.                                       *)
LEMMA InitIInv == Init => IInv
<1> SUFFICES ASSUME Init PROVE IInv
  OBVIOUS
<1> USE NoneFacts DEF Init
<1>1. TypeOK
  BY ReplayFacts DEF TypeOK, States, Local, UserPCs, ModePCs, SsrPCs, Idle, NoOp
<1>2. SectionKeepsNode /\ LookupUnambiguous /\ EntriesConserved
  BY DEF SectionKeepsNode, LookupUnambiguous, EntriesConserved, Idle
<1>3. PhaseInv /\ TransInv /\ UserInv /\ ModeInv
  BY DEF PhaseInv, TransInv, UserInv, ModeInv, Idle, InTrans, Unregistered,
     NoOps, Asleep
<1>4. NodesInv /\ OpsInv /\ CommandInv
  BY DEF NodesInv, OpsInv, CommandInv, Idle
<1> QED BY <1>1, <1>2, <1>3, <1>4 DEF IInv

(* Every step of every thread preserves the inductive invariant.           *)
LEMMA NextIInv == IInv /\ [Next]_vars => IInv'
<1> SUFFICES ASSUME IInv, [Next]_vars PROVE IInv'
  OBVIOUS
<1>1. CASE Begins
  BY <1>1, AddGetStep, DelLookupStep, HddOpenStep, HddStopStep,
     ModeStartWaitStep, FwDownStep, OpStartStep DEF Begins
<1>2. CASE UserWorks
  BY <1>2, AddCreateStep, AddCreateFailsStep, AddTransStartStep, AddIfaceStep,
     AddIfaceFailsStep, AddRegisterStep, UserTransStopStep, UserDestroyStep,
     UserPutStep, DelStartWaitStep, DelDrainedStep, DelUnregisterStep,
     DelCloseStep, DelCloseFailsStep, HddOpenedStep, HddOpenFailsStep,
     HddStopCachedStep, HddStoppedStep DEF UserWorks
<1>3. CASE ModeWorks
  BY <1>3, ModeRefusedStep, ModeStopsAllStep, CloseUnregisterStep,
     CloseAdapterStep, CloseDestroyStep, ClosePutStep, CloseAllDoneStep,
     ModeLocksStep, ModeOpensStep, ModeOpenedStep, ModeOpenFailsStep,
     ModeStopStep DEF ModeWorks
<1>4. CASE ~Over /\ SsrWorks
  BY <1>4, ShutdownStep, ShutdownDoneStep, ReinitStep, ReinitFailsStep,
     ReplayReadStep, ReplayStopStep, SsrStopStep DEF SsrWorks
<1>5. CASE \E t \in Operators : OpStop(t)
  BY <1>5, OpStopStep
<1>6. CASE UNCHANGED vars
  <2> USE <1>6 DEF IInv, vars, registry, tree, ifaces
  <2>1. TypeOK' /\ SectionKeepsNode' /\ LookupUnambiguous' /\ EntriesConserved'
    BY DEF TypeOK, SectionKeepsNode, LookupUnambiguous, EntriesConserved
  <2>2. PhaseInv' /\ TransInv' /\ UserInv' /\ ModeInv'
    BY DEF PhaseInv, TransInv, UserInv, ModeInv, NoOps, Asleep
  <2>3. NodesInv' /\ OpsInv' /\ CommandInv'
    BY DEF NodesInv, OpsInv, CommandInv
  <2> QED BY <2>1, <2>2, <2>3
<1> QED BY <1>1, <1>2, <1>3, <1>4, <1>5, <1>6 DEF Next, Running, Halted

---------------------------------------------------------------------------
(* The inductive invariant holds in every reachable state.                 *)
THEOREM Invariance == Spec => []IInv
<1> QED BY InitIInv, NextIInv, PTL DEF Spec

(* Every variable keeps its type, the replay's cursor stays within the     *)
(* array and one beyond it.                                                *)
THEOREM TypeCorrect == Spec => []TypeOK
<1>1. IInv => TypeOK
  BY DEF IInv
<1> QED BY <1>1, Invariance, PTL

(* An operation, and the user between its lookup and its destroy, works on *)
(* a node that is still in its entry and not freed: the rtnl lock and the  *)
(* driver's transition together stand in for the osif lock, which          *)
(* osif_vdev_sync_trans_start_wait has let go of.                          *)
THEOREM SectionsKeepTheirNodes == Spec => []SectionKeepsNode
<1>1. IInv => SectionKeepsNode
  BY DEF IInv
<1> QED BY <1>1, Invariance, PTL

(* osif_vdev_sync_lookup has at most one entry to find for an interface,   *)
(* and that entry's node is its own and alive.                             *)
THEOREM LookupsAreUnambiguous == Spec => []LookupUnambiguous
<1>1. IInv => LookupUnambiguous
  BY DEF IInv
<1> QED BY <1>1, Invariance, PTL

(* No path of add, delete, mode change or their failures loses an entry of *)
(* the fixed array or a node.                                              *)
THEOREM EntriesAreConserved == Spec => []EntriesConserved
<1>1. IInv => EntriesConserved
  BY DEF IInv
<1> QED BY <1>1, Invariance, PTL

(* A step of the restart leaves every interface open that user space has   *)
(* up: of all it does only the replay of a cached interface-down closes    *)
(* one, and the command it read is withdrawn by a later open.              *)
THEOREM ReplayKeepsUp == Spec => UpStaysUp
<1>1. ASSUME IInv, SsrWorks
      PROVE  up \cap opened \subseteq opened'
  <2>1. CASE ReplayStop
    <3>1. ssr.slot \in Slots
      BY <1>1, <2>1, ReplayFacts DEF IInv, TypeOK, CommandInv, ReplayStop, SsrAt
    <3> QED BY <1>1, <2>1, <3>1 DEF IInv, CommandInv, ReplayStop, SsrAt
  <2>2. CASE ~ReplayStop
    BY <1>1, <2>2 DEF SsrWorks, Shutdown, ShutdownDone, Reinit, ReinitFails,
       ReplayRead, SsrStop, ifaces
  <2> QED BY <2>1, <2>2
<1>2. IInv /\ [Next]_vars => [SsrWorks => up \cap opened \subseteq opened']_vars
  BY <1>1
<1> QED BY <1>2, Invariance, PTL DEF Spec, UpStaysUp
=============================================================================
