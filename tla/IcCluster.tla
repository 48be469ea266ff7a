------------------------------ MODULE IcCluster -------------------------------
(***************************************************************************)
(* The instrument cluster client of IC-Lib: main() and cluster_init, the   *)
(* detached thread with its asio receiver, and onVwsMessageReceived, which *)
(* parses a datagram of the world simulator (VWS) and passes it on to the  *)
(* SCS and to the CloudHub.                                                *)
(*                                                                         *)
(* A datagram is its number, its length and what filter_pkt looks at.  Its *)
(* text is that number in every cell: all that matters of the text is      *)
(* where it ends, since the buffer is read as a C string.                  *)
(***************************************************************************)
EXTENDS Naturals, Sequences, FiniteSets

CONSTANTS
    BufSize,     \* cells of recv_buffer_, 1024 in the code
    Types,       \* the values of "type" that state_parse knows
    FieldCount,  \* per type: the number of fields state_parse reads
    Inputs,      \* the datagrams VWS may send, without their number
    MaxPkt       \* bound: datagrams sent

Keys  == {"skin", "state", "airc_device_data", "type"}
Input == [len: Nat, json: {"object", "null", "other"}, keys: SUBSET Keys,
          stateNull: BOOLEAN, type: Types \cup {"unknown"}, present: Nat]

ASSUME ClusterAssumption ==
    /\ BufSize \in Nat \ {0}
    /\ FieldCount \in [Types -> Nat]
    /\ Inputs \subseteq Input
    /\ MaxPkt \in Nat

VARIABLES
    mainPc,        \* where main() is; "ended" when the process is gone
    rpc,           \* where the receiver thread is
    opened,        \* the receiver's socket was opened and bound
    event_update,  \* the notifier is registered
    sent,          \* number of datagrams VWS has sent
    sock,          \* datagrams in the socket's queue
    recv_buffer_,
    cur,           \* the datagram being handled
    state,         \* per type: the number of the datagram each field is from
    accepted,      \* datagrams filter_pkt let through
    scsTried, hubTried,  \* datagrams given to the two senders
    notified,      \* calls of the notifier
    handled        \* datagrams after which the buffer was cleared

vars == <<mainPc, rpc, opened, event_update, sent, sock, recv_buffer_, cur, state,
          accepted, scsTried, hubTried, notified, handled>>

Junk == MaxPkt + 1           \* a byte that is neither NUL nor of a datagram
Cell == 0..Junk
Datagram == [n: 1..MaxPkt, in: Inputs]
Nothing  == [n |-> 0]
Numbers  == Seq(1..MaxPkt)
Ended    == mainPc = "ended"

TypeOK ==
    /\ mainPc \in {"config", "register", "notifier", "run", "loop", "ended"}
    /\ rpc \in {"none", "bind", "recv", "filter", "scs", "hub", "notify", "flush", "done"}
    /\ opened \in BOOLEAN /\ event_update \in BOOLEAN
    /\ sent \in 0..MaxPkt
    /\ sock \in Seq(Datagram)
    /\ recv_buffer_ \in [1..BufSize -> Cell]
    /\ cur \in Datagram \cup {Nothing}
    /\ DOMAIN state = Types
    /\ \A t \in Types : state[t] \in [1..FieldCount[t] -> 0..MaxPkt]
    /\ accepted \in Numbers /\ scsTried \in Numbers /\ hubTried \in Numbers
    /\ notified \in Nat /\ handled \in Nat

(* recv_buffer_ is not initialised by the constructor.                      *)
Init ==
    /\ mainPc = "config" /\ rpc = "none"
    /\ opened = FALSE /\ event_update = FALSE
    /\ sent = 0 /\ sock = <<>>
    /\ recv_buffer_ \in {[i \in 1..BufSize |-> c] : c \in {0, Junk}}
    /\ cur = Nothing
    /\ state = [t \in Types |-> [i \in 1..FieldCount[t] |-> 0]]
    /\ accepted = <<>> /\ scsTried = <<>> /\ hubTried = <<>>
    /\ notified = 0 /\ handled = 0

wireVars == <<sent, sock>>
pktVars  == <<recv_buffer_, cur, state, accepted, scsTried, hubTried, notified, handled>>
outVars  == <<scsTried, hubTried, notified>>

-----------------------------------------------------------------------------
(* main() *)

MainTo(from, to) == mainPc = from /\ mainPc' = to

(* parse_config and the registration fail: an error code, or an exception   *)
(* of connect that nobody catches, since VWS is not there.                  *)
MainFails ==
    /\ \/ MainTo("config", "ended")
       \/ MainTo("register", "ended")
    /\ UNCHANGED <<rpc, opened, event_update, wireVars, pktVars>>

parse_config ==
    /\ MainTo("config", "register")
    /\ UNCHANGED <<rpc, opened, event_update, wireVars, pktVars>>

(* cluster_init: the registration is sent before the receiver exists.       *)
cluster_init ==
    /\ MainTo("register", "notifier")
    /\ UNCHANGED <<rpc, opened, event_update, wireVars, pktVars>>

cluster_register_notifier ==
    /\ MainTo("notifier", "run")
    /\ event_update' = TRUE
    /\ UNCHANGED <<rpc, opened, wireVars, pktVars>>

(* The thread is detached; main sleeps in a loop from here on.              *)
cluster_run ==
    /\ MainTo("run", "loop")
    /\ rpc' = "bind"
    /\ UNCHANGED <<opened, event_update, wireVars, pktVars>>

-----------------------------------------------------------------------------
(* VWS sends to a registered cluster; nothing waits where no socket is.     *)
VwsSend(in) ==
    /\ mainPc \in {"notifier", "run", "loop"}
    /\ sent < MaxPkt
    /\ sent' = sent + 1
    /\ sock' = IF opened THEN Append(sock, [n |-> sent + 1, in |-> in]) ELSE sock
    /\ UNCHANGED <<mainPc, rpc, opened, event_update, pktVars>>

-----------------------------------------------------------------------------
(* The receiver's thread *)

At(pc)       == rpc = pc /\ ~Ended
OnlyRpc(pc)  == rpc' = pc /\ UNCHANGED <<mainPc, opened, event_update, wireVars>>

(* An exception leaves run(), is logged and thrown again: std::terminate.   *)
Terminate == mainPc' = "ended" /\ UNCHANGED <<rpc, opened, event_update, wireVars, pktVars>>

(* subscribeVwsReceiver with the constructor of MsgReceiver.                *)
subscribeVwsReceiver ==
    /\ At("bind")
    /\ rpc' = "recv" /\ opened' = TRUE
    /\ UNCHANGED <<mainPc, event_update, wireVars, pktVars>>

(* open() fails: nothing is started, run() returns and the thread is over.  *)
OpenFails == At("bind") /\ OnlyRpc("done") /\ UNCHANGED pktVars

(* bind() or the address of the configuration throws.                       *)
BindThrows == At("bind") /\ Terminate

(* Mutant: the length of the datagram is not limited to the buffer.         *)
Stored_Unbounded(b, d) ==
    [i \in 1..(IF d.in.len > BufSize THEN d.in.len ELSE BufSize) |->
        IF i <= d.in.len THEN d.n ELSE b[i]]

(* What async_receive_from leaves in the buffer: a longer datagram is cut.  *)
Stored(b, d) == [i \in 1..BufSize |-> IF i <= d.in.len THEN d.n ELSE b[i]]

(* handle_receive for a datagram that is not empty: the callback is called. *)
handle_receive ==
    /\ At("recv") /\ sock # <<>> /\ Head(sock).in.len > 0
    /\ rpc' = "filter"
    /\ sock' = Tail(sock)
    /\ cur' = Head(sock)
    /\ recv_buffer_' = Stored(recv_buffer_, Head(sock))
    /\ UNCHANGED <<mainPc, opened, event_update, sent, state, accepted, outVars, handled>>

(* Mutant: start_receive is forgotten before the return.                    *)
ReceiveEmpty_NotAgain ==
    /\ At("recv") /\ sock # <<>> /\ Head(sock).in.len = 0
    /\ rpc' = "done"
    /\ sock' = Tail(sock)
    /\ UNCHANGED <<mainPc, opened, event_update, sent, pktVars>>

(* "Received Null-size message."                                            *)
ReceiveEmpty ==
    /\ At("recv") /\ sock # <<>> /\ Head(sock).in.len = 0
    /\ sock' = Tail(sock)
    /\ UNCHANGED <<mainPc, rpc, opened, event_update, sent, pktVars>>

(* With an error the callback is called all the same, on what the buffer    *)
(* holds: an empty text, which json::parse throws on.                       *)
ReceiveError == At("recv") /\ Terminate

-----------------------------------------------------------------------------
(* The text json::parse sees ends at the first NUL.  It is the datagram if  *)
(* that was stored whole and a NUL follows; behind a full buffer lies the   *)
(* pointer m_callback, whose first byte may be NUL or not.                  *)
TextIsDatagram ==
    /\ \A i \in 1..BufSize : recv_buffer_[i] = cur.n <=> i <= cur.in.len
    /\ cur.in.len < BufSize => recv_buffer_[cur.in.len + 1] = 0
    /\ cur.in.len <= BufSize

(* at("skin") throws without the key; operator[] of a const object asserts  *)
(* that the key is there, and the build keeps assertions.                   *)
HasNeededKeys(in) ==
    /\ in.json = "object"
    /\ {"skin", "state", "airc_device_data"} \subseteq in.keys
    /\ in.stateNull \/ "type" \in in.keys

FilterThrows ==
    /\ At("filter")
    /\ \/ ~TextIsDatagram
       \/ cur.in.len = BufSize
       \/ cur.in.json # "null" /\ ~HasNeededKeys(cur.in)
    /\ Terminate

(* "Unable to parse vws paket": only the JSON value null comes here.        *)
FilterRejects ==
    /\ At("filter") /\ TextIsDatagram /\ cur.in.json = "null"
    /\ OnlyRpc("flush")
    /\ UNCHANGED pktVars

(* Mutant: a field that is missing is stepped over.                         *)
state_parse_StepsOver(fields) ==
    [i \in DOMAIN fields |-> IF i # cur.in.present + 1 THEN cur.n ELSE fields[i]]

(* state_parse, under state_mutex: the fields are assigned one by one until *)
(* at() throws for the first that is missing; the exception is caught here. *)
state_parse(fields) ==
    [i \in DOMAIN fields |-> IF i <= cur.in.present THEN cur.n ELSE fields[i]]

filter_pkt ==
    /\ At("filter") /\ TextIsDatagram /\ HasNeededKeys(cur.in)
    /\ state' = IF ~cur.in.stateNull /\ cur.in.type \in Types
                THEN [state EXCEPT ![cur.in.type] = state_parse(@)]
                ELSE state
    /\ accepted' = Append(accepted, cur.n)
    /\ OnlyRpc("scs")
    /\ UNCHANGED <<recv_buffer_, cur, outVars, handled>>

(* Mutant: the callback gives up when the first sender reports an error.    *)
SendScs_Stops ==
    /\ At("scs")
    /\ scsTried' = Append(scsTried, cur.n)
    /\ \E ok \in BOOLEAN : OnlyRpc(IF ok THEN "hub" ELSE "flush")
    /\ UNCHANGED <<recv_buffer_, cur, state, accepted, hubTried, notified, handled>>

(* UdpMsgSender::send builds its io_service and its socket outside the try  *)
(* block: without descriptors that throws through the callback.             *)
SenderThrows == (At("scs") \/ At("hub")) /\ Terminate

(* Other errors are logged, and the result of send is not looked at.        *)
SendScs ==
    /\ At("scs")
    /\ scsTried' = Append(scsTried, cur.n)
    /\ OnlyRpc("hub")
    /\ UNCHANGED <<recv_buffer_, cur, state, accepted, hubTried, notified, handled>>

SendHub ==
    /\ At("hub")
    /\ hubTried' = Append(hubTried, cur.n)
    /\ OnlyRpc("notify")
    /\ UNCHANGED <<recv_buffer_, cur, state, accepted, scsTried, notified, handled>>

Notify ==
    /\ At("notify")
    /\ notified' = IF event_update THEN notified + 1 ELSE notified
    /\ OnlyRpc("flush")
    /\ UNCHANGED <<recv_buffer_, cur, state, accepted, scsTried, hubTried, handled>>

(* Mutant: the buffer keeps the last datagram.                              *)
flushInternalBuffer_Keeps ==
    /\ At("flush")
    /\ handled' = handled + 1
    /\ OnlyRpc("recv")
    /\ UNCHANGED <<recv_buffer_, cur, state, accepted, outVars>>

(* flushInternalBuffer, and start_receive at the end of handle_receive.     *)
flushInternalBuffer ==
    /\ At("flush")
    /\ recv_buffer_' = [i \in 1..BufSize |-> 0]
    /\ handled' = handled + 1
    /\ OnlyRpc("recv")
    /\ UNCHANGED <<cur, state, accepted, outVars>>

-----------------------------------------------------------------------------
Main ==
    \/ MainFails \/ parse_config \/ cluster_init
    \/ cluster_register_notifier \/ cluster_run

Callback ==
    \/ FilterThrows \/ FilterRejects \/ filter_pkt
    \/ SendScs \/ SendHub \/ Notify \/ flushInternalBuffer

Receiver ==
    \/ subscribeVwsReceiver \/ OpenFails \/ BindThrows
    \/ handle_receive \/ ReceiveEmpty
    \/ Callback

Next ==
    \/ Main
    \/ Receiver
    \/ ReceiveError \/ SenderThrows
    \/ \E in \in Inputs : VwsSend(in)

(* The receiver's thread is scheduled.  Datagrams and errors are not        *)
(* assumed.                                                                 *)
Spec == Init /\ [][Next]_vars /\ WF_vars(Receiver)

-----------------------------------------------------------------------------
(* Properties *)

(* A datagram that filter_pkt can read, if nothing but it is in the buffer. *)
Usable(in) == in.len < BufSize /\ (in.json = "null" \/ HasNeededKeys(in))

(* An exception in the callback ends the process, but what was received     *)
(* earlier never makes a usable datagram fatal: the zeros that              *)
(* flushInternalBuffer leaves end every text.  Only the first datagram is   *)
(* read in a buffer nobody cleared.                                         *)
UsableSurvives ==
    Ended /\ rpc = "filter" /\ handled > 0 => ~Usable(cur.in)

(* onVwsMessageReceived passes every datagram it accepts on to both         *)
(* receivers and to the notifier, once and in the order of arrival, before  *)
(* the next one is looked at, although each send may fail and although the  *)
(* notifier is registered by another thread.                                *)
PassedOn ==
    rpc = "recv" /\ ~Ended =>
      /\ scsTried = accepted /\ hubTried = accepted
      /\ notified = Len(accepted)
      /\ \A i, j \in DOMAIN accepted : i < j => accepted[i] < accepted[j]

(* state_parse gives up at the first field that is missing, so the shared   *)
(* state may mix several datagrams; but a field is never newer than one     *)
(* that state_parse reads before it.                                        *)
StateNewestFirst ==
    \A t \in Types : \A i, j \in DOMAIN state[t] : i < j => state[t][i] >= state[t][j]

(* A receiver whose socket is open always gets back to waiting for the next *)
(* datagram, whatever it received, or the process has ended: it is never    *)
(* alive and deaf.                                                          *)
ListensAgain == opened ~> (rpc = "recv" \/ Ended)
===============================================================================
