------------------------------ MODULE Neighbor ------------------------------
(***************************************************************************)
(* The OSPFv2 neighbor data structure and its state machine                *)
(* (src/src/proto/neighbor.rs), as operators on a neighbor record.  The    *)
(* fields keep the source's names.  Lists whose order the protocol does    *)
(* not use are sets.  Timer fields are left out: a timer that may have     *)
(* expired is an action of the module that uses the record.  So are two    *)
(* fields no decision reads: ls_retransmit_list is cleared and never       *)
(* filled, last_dd is stored and never looked at.  A neighbor the daemon   *)
(* has no structure for yet is NewNeighbor: it answers like one that is    *)
(* Down.                                                                   *)
(***************************************************************************)
CONSTANTS
    Key,      \* LSA keys
    Hdr,      \* LSA headers, as they appear in a DD packet
    DdSeqNo   \* DD sequence numbers

NeighborState ==
    {"Down", "Attempt", "Init", "TwoWay", "ExStart", "Exchange", "Loading", "Full"}

\* NeighborState derives Ord: the states from a given one upward.
InitOrBetter     == NeighborState \ {"Down", "Attempt"}
TwoWayOrBetter   == InitOrBetter \ {"Init"}
ExStartOrBetter  == TwoWayOrBetter \ {"TwoWay"}
ExchangeOrBetter == ExStartOrBetter \ {"ExStart"}

Neighbor ==
    [state           : NeighborState,
     dd_seq_number   : DdSeqNo,
     is_master       : BOOLEAN,
     sent_m_clear    : BOOLEAN,
     ls_request_list : SUBSET Key,
     db_summary_list : SUBSET Hdr]

\* Neighbor::new
NewNeighbor(seq0) ==
    [state |-> "Down", dd_seq_number |-> seq0, is_master |-> FALSE,
     sent_m_clear |-> FALSE,
     ls_request_list |-> {}, db_summary_list |-> {}]

\* Mutant: the requests of the abandoned exchange stay.
ClearSummaryOnly(n) == [n EXCEPT !.db_summary_list = {}]

\* Neighbor::clear_lists
ClearLists(n) ==
    [n EXCEPT !.ls_request_list = {}, !.db_summary_list = {}]

To(n, state) == [n EXCEPT !.state = state]

\* Neighbor::handle_event
HandleEvent(n, event, adj) ==
    CASE event = "HelloReceived" /\ n.state \in {"Down", "Attempt"} -> To(n, "Init")
      [] event = "TwoWayReceived" /\ n.state = "Init" ->
            To(n, IF adj THEN "ExStart" ELSE "TwoWay")
      [] event = "AdjOk" /\ n.state = "TwoWay" /\ adj -> To(n, "ExStart")
      [] event = "NegotiationDone" /\ n.state = "ExStart" -> To(n, "Exchange")
      [] event = "ExchangeDone" /\ n.state = "Exchange" ->
            To(n, IF n.ls_request_list = {} THEN "Full" ELSE "Loading")
      [] event = "LoadingDone" /\ n.state = "Loading" -> To(n, "Full")
      [] event \in {"SeqNumberMismatch", "BadLsReq"} /\ n.state \in ExStartOrBetter ->
            To(ClearLists(n), "ExStart")
      [] event = "AdjOk" /\ n.state \in ExStartOrBetter /\ ~adj ->
            To(ClearLists(n), "TwoWay")
      [] event = "OneWay" /\ n.state \in TwoWayOrBetter -> To(ClearLists(n), "Init")
      [] event \in {"InactivityTimer", "LinkDown"} -> To(ClearLists(n), "Down")
      [] OTHER -> n
=============================================================================
