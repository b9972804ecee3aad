------------------------------ MODULE WebServer ------------------------------
(* The HTTP server and the list of its websocket clients (HTTP/): the server's  *)
(* own task opens and closes sessions and keeps the list, while the task of a   *)
(* command starts, stops and broadcasts.  A removal from the list by the latter *)
(* is two steps, since nothing guards the list.  The server of ESP-IDF, with    *)
(* its sessions, is modelled from how this code uses it.                        *)
EXTENDS Naturals, Sequences, FiniteSets

CONSTANTS
    Sockets,        \* the descriptors that sessions get
    MaxSockets,     \* HTTPD_MAX_OPEN_SOCKETS, also what the list holds
    MaxStarts,      \* bounds: how often the server is started,
    MaxBroadcasts   \* and how often something is broadcast

ASSUME WebAssumption == MaxSockets \in Nat \ {0} /\ MaxStarts \in Nat /\ MaxBroadcasts \in Nat

VARIABLE web        \* the server, its sessions, the list, and what the command does

Slots == 1 .. MaxSockets
NoSlot == 0
Lowest(at) == IF at = {} THEN NoSlot ELSE CHOOSE i \in at : \A j \in at : i <= j

FreeSlots(w) == {i \in Slots : ~w.slots[i].active}
ActiveSlots(w) == Slots \ FreeSlots(w)
Clients(w) == {w.slots[i].fd : i \in ActiveSlots(w)}
Open(w) == DOMAIN w.sessions

WebInit ==
    web = [server |-> 0, handle |-> 0, started |-> 0, state |-> "stopped", sessions |-> <<>>,
           slots |-> [i \in Slots |-> [fd |-> 0, active |-> FALSE]], count |-> 0, next |-> 1,
           does |-> "nothing", at |-> 0, sent |-> 0, raced |-> FALSE]

-------------------------------------------------------------------------------
(* The list.                                                                   *)

\* addSocket().  Once removals have raced there may be room by the count and no next
\* slot: what is filled in is then the entry before the first, whose `active` is the
\* second byte of the count.
BeforeTheList == 256
AddSocket(w, fd) ==
    IF w.count >= MaxSockets THEN w
    ELSE LET u == IF w.next = NoSlot THEN [w EXCEPT !.count = @ + BeforeTheList]
                  ELSE [w EXCEPT !.slots[w.next] = [fd |-> fd, active |-> TRUE]]
         IN  [u EXCEPT !.count = @ + 1, !.next = Lowest(FreeSlots(u)),
                       !.raced = @ \/ w.does = "removes"]

\* Mutant: the next slot is only ever moved down.
ClearSlotOnly(w, i) ==
    [w EXCEPT !.slots[i].active = FALSE, !.count = @ - 1, !.next = IF i < @ THEN i ELSE @]
ClearSlot(w, i) ==
    [w EXCEPT !.slots[i].active = FALSE, !.count = @ - 1,
              !.next = IF @ = NoSlot \/ i < @ THEN i ELSE @]

\* removeSocket(), by the task of the server: all at once, while a command may be
\* between the two steps of its own.
RemoveSocket(w, fd) ==
    LET at == {i \in ActiveSlots(w) : w.slots[i].fd = fd}
    IN  IF at = {} THEN w
        ELSE [ClearSlot(w, Lowest(at)) EXCEPT !.raced = @ \/ w.does = "removes"]

-------------------------------------------------------------------------------
(* The task of the server.                                                     *)

\* http_close_cb(), which the server calls for every session that ends.
EndSession(w, fd) ==
    RemoveSocket([w EXCEPT !.sessions = [x \in Open(w) \ {fd} |-> w.sessions[x]]], fd)

Serving == web.server # 0 /\ web.does # "stops"

\* lru_purge_enable: the session that was used last must make room.
OpenSession(fd) ==
    /\ Serving /\ fd \notin Open(web)
    /\ \E w \in IF Cardinality(Open(web)) < MaxSockets THEN {web}
                ELSE {EndSession(web, x) : x \in Open(web)} :
         web' = [w EXCEPT !.sessions = [x \in Open(w) \cup {fd} |-> IF x = fd THEN "http" ELSE w.sessions[x]]]

\* ws_handler(), of the handshake and of a close frame.
Handshake(fd) ==
    /\ Serving /\ fd \in Open(web) /\ web.sessions[fd] = "http"
    /\ web' = AddSocket([web EXCEPT !.sessions[fd] = "websocket"], fd)
CloseFrame(fd) ==
    /\ Serving /\ fd \in Open(web) /\ web.sessions[fd] = "websocket"
    /\ web' = RemoveSocket([web EXCEPT !.sessions[fd] = "left"], fd)

CloseSession(fd) == web.server # 0 /\ fd \in Open(web) /\ web' = EndSession(web, fd)

-------------------------------------------------------------------------------
(* Commands, of a task other than the server's.                                *)

\* setHttpHighPriority(), http_init() and http_stop(): the sessions end first, and
\* httpd_start() may fail.
RestartsAs(state) == web.does = "nothing" /\ web' = [web EXCEPT !.does = "stops", !.at = state]
Stopped == web.server = 0 \/ (Open(web) = {})
Starts ==
    /\ web.does = "stops" /\ Stopped /\ web.at # "stopped" /\ web.started < MaxStarts
    /\ \/ web' = [web EXCEPT !.does = "nothing", !.server = web.started + 1, !.handle = web.started + 1,
                             !.started = @ + 1, !.state = web.at]
       \/ web' = [web EXCEPT !.does = "nothing", !.server = 0, !.state = "stopped", !.started = @ + 1]
Stops ==
    /\ web.does = "stops" /\ Stopped /\ web.at = "stopped"
    /\ web' = [web EXCEPT !.does = "nothing", !.server = 0, !.state = "stopped"]

Priority(high) == RestartsAs(IF high THEN "high" ELSE "normal")
Enable == web.state = "stopped" /\ RestartsAs("normal")
Disable == web.state # "stopped" /\ RestartsAs("stopped")

\* ws_broadcast(), from slot to slot; a client that is not reached is removed.
Broadcast ==
    /\ web.does = "nothing" /\ web.handle # 0 /\ web.sent < MaxBroadcasts
    /\ web' = [web EXCEPT !.does = "sends", !.at = 1, !.sent = @ + 1]
Sends ==
    /\ web.does = "sends"
    /\ IF web.at \notin Slots THEN web' = [web EXCEPT !.does = "nothing", !.at = 0]
       ELSE \/ web' = [web EXCEPT !.at = @ + 1]
            \/ /\ web.slots[web.at].active
               /\ web' = [web EXCEPT !.does = "removes",
                                     !.sessions = [x \in Open(web) |->
                                         IF x = web.slots[web.at].fd THEN "left" ELSE web.sessions[x]]]
Removes ==
    /\ web.does = "removes"
    /\ web' = [ClearSlot(web, web.at) EXCEPT !.does = "sends", !.at = @ + 1]

WebNext ==
    \/ \E fd \in Sockets : OpenSession(fd) \/ Handshake(fd) \/ CloseFrame(fd) \/ CloseSession(fd)
    \/ \E high \in BOOLEAN : Priority(high)
    \/ Enable \/ Disable \/ Starts \/ Stops \/ Broadcast \/ Sends \/ Removes

Websockets(w) == {fd \in Open(w) : w.sessions[fd] = "websocket"}

\* A broadcast uses no session that is gone and no server that was stopped: whoever is
\* in the list has a websocket of the server that broadcasts go to (ws_broadcast()
\* checks neither).  And it reaches everyone: unless two tasks removed a client at
\* once, all are in the list, which knows how many they are and its first free slot.
ListFollowsSessions ==
    /\ ActiveSlots(web) # {} => web.handle = web.server
    /\ web.does # "removes" => Clients(web) \subseteq Websockets(web)
    /\ ~web.raced /\ web.does # "removes" =>
           /\ Websockets(web) \subseteq Clients(web)
           /\ web.count = Cardinality(ActiveSlots(web))
           /\ web.next = Lowest(FreeSlots(web))
===============================================================================
