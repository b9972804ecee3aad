----------------------------- MODULE MCEspNowLink -----------------------------
(* EspNowLink on small instances.                                             *)
EXTENDS EspNowLink, SequencesExt

(* What the next step depends on, the VIEW of the safety runs.  frame, replies *)
(* and published only describe the last step; a field of the client is left   *)
(* out in the states that write it anew before they read it; and message ids  *)
(* and nonces, of which only equality matters, are numbered in the order they *)
(* occur in.                                                                  *)
Rank(names, x) ==
    IF x = 0 THEN 0
    ELSE CHOOSE i \in DOMAIN names : names[i] = x /\ \A j \in 1..(i - 1) : names[j] # x

Ids(q) == [i \in DOMAIN q |-> q[i].id]
Data(f) == IF f.type = "AUTH" THEN f.data
           ELSE IF f.type \in {"CONNECT", "CHALLENGE"} THEN <<f.data>> ELSE <<>>
Pair(k) == IF k \in Key THEN k ELSE <<>>
Asked(s) == IF Active(table, s) THEN KeyOf(table.pending[s]) ELSE <<>>
Joined(q) == FoldLeft(LAMBDA a, b : a \o b, <<>>, q)

LinkState ==
    LET ids == <<client.connectId>> \o Ids(uplink) \o Ids(control)
        d == SessionFor(table, Me)
        held == IF HasSession(table, Me) THEN Pair(d.key) ELSE <<>>
        nonces == <<client.clientNonce, client.gatewayNonce>> \o Pair(client.key) \o held
                  \o Joined([s \in Slot |-> Asked(s)])
                  \o Joined([i \in DOMAIN uplink |-> Data(uplink[i])])
                  \o Joined([i \in DOMAIN control |-> Data(control[i])])
        n(x) == Rank(nonces, x)
        k(x) == IF x \in Key THEN <<n(x[1]), n(x[2])>> ELSE x
        id(x) == IF \E i \in DOMAIN ids : i > 1 /\ ids[i] = x THEN Rank(ids, x) ELSE 0
        in(states, x) == IF client.st \in states THEN x ELSE 0
        data(f) == IF f.type = "AUTH" THEN k(f.data)
                   ELSE IF f.type \in {"CONNECT", "CHALLENGE"} THEN n(f.data) ELSE f.data
        q(s) == [i \in DOMAIN s |-> <<s[i].type, id(s[i].id), s[i].cid, data(s[i])>>]
    IN  <<up, task, q(uplink), q(control), generation, captured, willing, calm,
          client.st, client.gw, client.generation, client.cid, client.failures, client.backoff,
          client.will, n(client.clientNonce), n(client.gatewayNonce), k(client.key),
          id(client.connectId), id(client.authId), id(client.pingId),
          in({"SECURING"}, client.tries), in({"CONNECTED"}, client.missed),
          {[e EXCEPT !.key = k(@)] : e \in table.devices}, k(table.peers[Me]),
          [s \in Slot |-> IF Active(table, s) THEN <<k(KeyOf(table.pending[s])), table.pending[s].age>>
                          ELSE Free],
          table.nextCid>>
===============================================================================
