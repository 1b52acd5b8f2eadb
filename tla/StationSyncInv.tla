---------------------------- MODULE StationSyncInv ----------------------------
(***************************************************************************)
(* The inductive invariants behind GapFree, and behind StatusLogPrefix and *)
(* ItemStatusFresh: where the points and the status rows are that the      *)
(* station has saved and the server has not stored yet.                    *)
(***************************************************************************)
EXTENDS StationSync

(* Frame f carries a point of item i; the points of i the frames of q carry. *)
IsPoint(f, i) == f.type = "data" /\ f.item = i
Carried(q, i) == {q[n].ts : n \in {m \in DOMAIN q : IsPoint(q[m], i)}}

(* When a point of i in q arrives, every earlier point of H is in B or has  *)
(* arrived from q before it.                                                *)
Backed(q, i, H, B) ==
    \A n \in DOMAIN q : IsPoint(q[n], i) =>
        \A u \in H : u < q[n].ts =>
            \/ u \in B
            \/ \E m \in DOMAIN q : m < n /\ IsPoint(q[m], i) /\ q[m].ts = u

(* No timestamp is ahead of the station's clock, and none is 0. *)
StampInv ==
    \A i \in Items :
        /\ hist[i] \subseteq 1 .. now
        /\ stored[i] \subseteq 0 .. now
        /\ Carried(queue, i) \subseteq 0 .. now
        /\ \A k \in Conns : Carried(c2s[k], i) \subseteq 0 .. now
        /\ latest[i] \in 0 .. now
        /\ \A k \in Conns : reply[k].type = "latest" => reply[k].ts[i] \in 0 .. now

(* The frames of every connection can be stored one by one without a gap. *)
FramesInv == \A k \in Conns, i \in Items : Backed(c2s[k], i, hist[i], stored[i])

(* The server has every point up to the latest one it reports. *)
ReplyInv ==
    \A k \in Conns, i \in Items :
        reply[k].type = "latest" =>
            \A u \in hist[i] : u <= reply[k].ts[i] => u \in stored[i]

(* Up to the replay cursor, everything is stored or on its way. *)
CursorInv ==
    cpc \in {"lock", "replay", "subscribe"} /\ ~broken[cur] =>
        \A i \in Items : \A u \in hist[i] :
            u <= latest[i] => u \in stored[i] \cup Carried(c2s[cur], i)

(* The replay holds ingestMu, and when it is over the cursors are at the end. *)
ReplayInv ==
    /\ cpc \in {"replay", "subscribe"} => ingestMu
    /\ cpc = "subscribe" => \A i \in Items : \A u \in hist[i] : u <= latest[i]

(* A subscribed session has everything stored, on its way, or in its queue. *)
RealtimeInv ==
    subscribed =>
        /\ cpc = "realtime"
        /\ ~broken[cur] =>
             \A i \in Items :
                 hist[i] \subseteq stored[i] \cup Carried(c2s[cur], i) \cup Carried(queue, i)

(* The queue can be sent message by message without a gap. *)
QueueInv ==
    cpc = "realtime" /\ ~broken[cur] =>
        \A i \in Items :
            Backed(queue, i, hist[i], stored[i] \cup Carried(c2s[cur], i))

NoGapInv ==
    /\ GapFree
    /\ StampInv
    /\ FramesInv
    /\ ReplyInv
    /\ CursorInv
    /\ ReplayInv
    /\ RealtimeInv
    /\ QueueInv
-----------------------------------------------------------------------------
(* The status log *)

IsStatus(f) == f.type \in {"status", "statusReplay"}

(* The rows frame f carries; those the frames of q carry. *)
RowsIn(f) == IF f.type = "status" THEN {f.row}
             ELSE IF f.type = "statusReplay" THEN f.rows ELSE {}
RowsOn(q) == UNION {RowsIn(q[n]) : n \in DOMAIN q}

StatusFree(q) == \A n \in DOMAIN q : ~IsStatus(q[n])

(* When a row in q arrives, every earlier row is in B or arrives from q no  *)
(* later: the rows of one frame are saved in order.                         *)
RowsBacked(q, B) ==
    \A n \in DOMAIN q : \A r \in RowsIn(q[n]) : \A p \in 1 .. r :
        \/ p \in B
        \/ \E m \in DOMAIN q : m <= n /\ p \in RowsIn(q[m])

(* The handler of k still takes frames; it has not read the latest row yet. *)
Alive(k) == spc[k] \notin {"gone", "closing", "delete"}
Early(k) == spc[k] \in {"hello", "info", "sync"}

(* The rows that are stored, or in the hands of the handler of k. *)
Held(k) == statusLog \cup work[k].rows

(* Only rows of the station's log go round, and none is of a GPIO item. *)
RowInv ==
    /\ statusLog \subseteq DOMAIN log
    /\ RowsOn(queue) \subseteq DOMAIN log
    /\ \A k \in Conns : /\ RowsOn(c2s[k]) \subseteq DOMAIN log
                        /\ work[k].rows \subseteq DOMAIN log
    /\ \A r \in DOMAIN log : log[r].item \notin GpioItems

(* The order of the handshake: no status frame before the latest row is read. *)
PhaseInv ==
    /\ \A k \in Conns : Early(k) => StatusFree(c2s[k]) /\ reply[k].type # "latest"
    /\ cpc \in {"lock", "replay", "subscribe", "realtime"} =>
          ~Early(cur) /\ reply[cur].type # "latest"
    /\ cpc \in {"replay", "subscribe"} => ingestMu
    /\ subscribed => cpc = "realtime"

(* Row is still the latest of the server, as the handler of k read it. *)
StillLatest(k, row) ==
    /\ \A p \in 1 .. row : p \in statusLog
    /\ Alive(k) => /\ spc[k] = "run" /\ StatusFree(c2s[k])
                   /\ \A p \in statusLog : p <= row

LatestInv ==
    /\ \A k \in Conns : reply[k].type = "latest" => StillLatest(k, reply[k].row)
    /\ cpc \in {"lock", "replay"} => StillLatest(cur, latestRow)

(* A replayed batch in hand is new to the server and continues its log; the *)
(* items it has dealt with show its rows.                                   *)
WorkOK(k) ==
    /\ spc[k] \notin {"items", "logs"} => work[k].rows = {}
    /\ spc[k] = "logs" => work[k].items = {}
    /\ \A r \in work[k].rows : r \notin statusLog
    /\ \A r \in work[k].rows : \A p \in 1 .. r : p \in Held(k)
    /\ \A i \in Items \ work[k].items :
          \A r \in RowsOf(i, work[k].rows) : r <= itemStatus[i]

WorkInv == \A k \in Conns : WorkOK(k)

(* A replayed batch in q is the first frame that carries rows, and all of   *)
(* them are new to the server, whose log is L.                              *)
NoBatch(q) == \A n \in DOMAIN q : q[n].type # "statusReplay"
BatchFirst(q, L) ==
    \A n \in DOMAIN q : q[n].type = "statusReplay" =>
        /\ \A r \in q[n].rows : r \notin L
        /\ \A m \in DOMAIN q : m < n => ~IsStatus(q[m])

RowFramesInv ==
    \A k \in Conns : Alive(k) =>
        /\ RowsBacked(c2s[k], Held(k))
        /\ BatchFirst(c2s[k], statusLog)
        /\ spc[k] # "run" => NoBatch(c2s[k])

(* After the replay every row is stored or on its way, and the queue goes on *)
(* where the connection ends.                                               *)
RowQueueInv ==
    cpc # "idle" /\ Alive(cur) /\ ~broken[cur] =>
        /\ cpc = "subscribe" => DOMAIN log \subseteq Held(cur) \cup RowsOn(c2s[cur])
        /\ subscribed =>
              DOMAIN log \subseteq Held(cur) \cup RowsOn(c2s[cur]) \cup RowsOn(queue)
        /\ cpc = "realtime" => RowsBacked(queue, Held(cur) \cup RowsOn(c2s[cur]))

LogInv ==
    /\ StatusLogPrefix
    /\ ItemStatusFresh
    /\ RowInv
    /\ PhaseInv
    /\ LatestInv
    /\ WorkInv
    /\ RowFramesInv
    /\ RowQueueInv
=============================================================================
