----------------------------- MODULE MCHandler ------------------------------
EXTENDS Handler, TLC

\* Keys 1, 3 and 5 share a shard of two entries; 2 is alone in the other.
MCHash == [k \in Keys |-> k]

MCOperations ==
    [op : {"get"}, key : {3, 5}] \cup [op : {"delete"}, key : {1, 2}]
    \cup [op : {"put"}, key : {1, 5}, value : {"v"}]
    \cup {[op |-> "put", key |-> 0, value |-> "v"], [op |-> "put", key |-> 1, value |-> ""]}
    \cup [op : {"recommend"}, count : {0, 1, 2}]
    \cup {[op |-> "stats"]}

\* The first shard is full.
MCPreload == << <<3, "v">>, <<1, "w">>, <<2, "v">> >>

\* Draws of both signs, one of them a half.
MCDraw ==
    [m \in Noised \X (0 .. 1) |->
        CASE m[1] = "requests" -> 3 - 4 * m[2]
          [] m[1] = "gets" -> -2 + 3 * m[2]
          [] OTHER -> 2 - m[2]]
=============================================================================
