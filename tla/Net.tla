-------------------------------- MODULE Net --------------------------------
(***************************************************************************)
(* kernel/net/network.c: the receive and transmit queues, linked lists of  *)
(* socket buffers with a limit; the ARP cache; the loopback device, the    *)
(* only network device of the repository; and who frees a buffer.          *)
(*                                                                         *)
(* Each call is one step, and each turn of the loops of net_rx_poll and    *)
(* net_tx_poll: interrupts come in between.  A frame is a constant record; *)
(* the pointers and lengths inside a buffer are left out, and so are the   *)
(* statistics.  Memory that nothing points to stands for fresh memory.  A  *)
(* frame sent on the loopback device, or on none, is freed either way.     *)
(***************************************************************************)
EXTENDS Integers, Sequences, FiniteSets, LinkedList

CONSTANTS Skbs,             \* the buffers that kmalloc may return
          QUEUE_SIZE,       \* NET_RX_QUEUE_SIZE and NET_TX_QUEUE_SIZE
          Frames,           \* bound: the frames that arrive and are sent
          IPs, MACs,        \* bound: the addresses in ARP packets
          ARP_CACHE_SIZE,
          LoIP, LoMAC,      \* the addresses of the loopback device
          NoSkb

ASSUME NetAssumption ==
    /\ QUEUE_SIZE \in Nat \ {0} /\ ARP_CACHE_SIZE \in Nat \ {0}
    /\ NoSkb \notin Skbs /\ LoIP \in IPs /\ LoMAC \in MACs
    /\ Frames \subseteq [type : {"IP", "other"}] \cup
                        [type : {"ARP"}, op : {"request", "reply", "bad"}, ip : IPs, mac : MACs]

VARIABLES skb,          \* st: free, caller, rx or tx; the frame and the queue links
          queue,        \* head, tail and length of the rx and of the tx queue
          arp_cache,
          lo_list,      \* where the loopback device is: in the list of devices, out of it, or
                        \* "looped", its own successor in the list
          order,        \* history: the buffers of each queue as they were put in
          arpRef,       \* history: the last address announced, by IP
          badfree       \* history: some buffer was freed twice

NetVars == <<skb, queue, arp_cache, lo_list, order, arpRef, badfree>>

Dirs == {"rx", "tx"}
ArpSlots == 0 .. (ARP_CACHE_SIZE - 1)
FreeSkb == [st |-> "free", frame |-> [type |-> "other"], next |-> NoSkb, prev |-> NoSkb]
NoEntry == [valid |-> FALSE]

\* The cache after arp_add: the entry of the address, else the first free one, else none.
arp_add(cache, ip, mac) ==
    LET same == {i \in ArpSlots : cache[i].valid /\ cache[i].ip = ip}
        free == {i \in ArpSlots : ~cache[i].valid}
        pick == IF same # {} THEN same ELSE free
        slot == CHOOSE i \in pick : \A j \in pick : i <= j
    IN  IF pick = {} THEN cache
        ELSE [cache EXCEPT ![slot] = [valid |-> TRUE, ip |-> ip, mac |-> mac]]

\* net_rx_queue_init and net_tx_queue_init.
net_queue_init ==
    /\ queue = [q \in Dirs |-> [head |-> NoSkb, tail |-> NoSkb, len |-> 0]]
    /\ order = [q \in Dirs |-> <<>>]

\* The loopback device is registered, with its ARP entry in the cleared cache.
loopback_init ==
    /\ lo_list = "in"
    /\ arp_cache = arp_add([i \in ArpSlots |-> NoEntry], LoIP, LoMAC)
    /\ arpRef = {<<LoIP, LoMAC>>}

network_init ==
    /\ net_queue_init /\ loopback_init
    /\ skb = [b \in Skbs |-> FreeSkb]
    /\ badfree = FALSE

\* Nothing tests whether the device is in the list, and it is the only one: there is
\* room whenever it is out.
netdev_register ==
    /\ lo_list' = IF lo_list = "out" THEN "in" ELSE "looped"
    /\ UNCHANGED <<skb, queue, arp_cache, order, arpRef, badfree>>

\* A device that follows itself stays where it is.
netdev_unregister ==
    /\ lo_list # "out"
    /\ lo_list' = IF lo_list = "in" THEN "out" ELSE "looped"
    /\ UNCHANGED <<skb, queue, arp_cache, order, arpRef, badfree>>
-----------------------------------------------------------------------------
\* Buffers.
Reachable(b) ==
    \/ \E q \in Dirs : queue[q].head = b \/ queue[q].tail = b
    \/ \E c \in Skbs : skb[c].st \in Dirs /\ (skb[c].next = b \/ skb[c].prev = b)

\* kmalloc returns memory that nothing uses; which, makes no difference.
Fresh == {b \in Skbs : skb[b].st = "free" /\ ~Reachable(b)}

skb_alloc(frame) ==
    LET b == CHOOSE x \in Fresh : TRUE IN
    /\ Fresh # {}
    /\ skb' = [skb EXCEPT ![b] = [FreeSkb EXCEPT !.st = "caller", !.frame = frame]]
    /\ UNCHANGED <<queue, arp_cache, lo_list, order, arpRef, badfree>>

skb_free(sk, b) ==
    /\ skb' = [sk EXCEPT ![b] = FreeSkb]
    /\ badfree' = (badfree \/ sk[b].st = "free")

\* net_rx_enqueue and net_tx_enqueue: the end of the list, or, at the limit, free.
net_enqueue(q, b) ==
    LET tail == queue[q].tail
        linked == [skb EXCEPT ![b].st = q, ![b].next = NoSkb, ![b].prev = tail]
    IN
    /\ skb[b].st = "caller"
    /\ IF queue[q].len >= QUEUE_SIZE
       THEN skb_free(skb, b) /\ UNCHANGED <<queue, order>>
       ELSE /\ skb' = IF tail # NoSkb THEN [linked EXCEPT ![tail].next = b] ELSE linked
            /\ queue' = [queue EXCEPT ![q] = [head |-> IF tail # NoSkb THEN @.head ELSE b,
                                              tail |-> b, len |-> @.len + 1]]
            /\ order' = [order EXCEPT ![q] = Append(@, b)]
            /\ UNCHANGED badfree
    /\ UNCHANGED <<arp_cache, lo_list, arpRef>>

\* loopback_tx hands the buffer to loopback_rx, which frees it.
loopback_tx(sk, b) == skb_free(sk, b)

\* Mutant: the tail still names the last buffer of a queue that became empty.
net_dequeue_tail(q) ==
    LET b == queue[q].head
        next == skb[b].next IN
    /\ b # NoSkb
    /\ queue' = [queue EXCEPT ![q] = [head |-> next, tail |-> @.tail, len |-> @.len - 1]]
    /\ order' = [order EXCEPT ![q] = IF @ # <<>> THEN Tail(@) ELSE @]

\* net_rx_dequeue and net_tx_dequeue: the first buffer leaves its queue.
net_dequeue(q) ==
    LET b == queue[q].head
        next == skb[b].next IN
    /\ b # NoSkb
    /\ queue' = [queue EXCEPT ![q] = [head |-> next,
                                      tail |-> IF next # NoSkb THEN @.tail ELSE NoSkb,
                                      len  |-> @.len - 1]]
    /\ order' = [order EXCEPT ![q] = IF @ # <<>> THEN Tail(@) ELSE @]

\* The buffers after it, before its handler frees it.
Dequeued(q) ==
    LET next == skb[queue[q].head].next
    IN  IF next # NoSkb THEN [skb EXCEPT ![next].prev = NoSkb] ELSE skb

\* arp_rx on a request or a reply learns the sender's address.
Learns(frame) == frame.op \in {"request", "reply"}

Announce(ip, mac) ==
    IF (\E e \in arpRef : e[1] = ip) \/ Cardinality(arpRef) < ARP_CACHE_SIZE
    THEN {e \in arpRef : e[1] # ip} \cup {<<ip, mac>>}
    ELSE arpRef

\* Mutant: an address that is in the cache already is put in a free slot as well.
arp_rx_append(frame) ==
    LET free == {i \in ArpSlots : ~arp_cache[i].valid}
        slot == CHOOSE i \in free : \A j \in free : i <= j
    IN  IF Learns(frame)
        THEN /\ arp_cache' = IF free = {} THEN arp_cache
                             ELSE [arp_cache EXCEPT ![slot] = [valid |-> TRUE, ip |-> frame.ip, mac |-> frame.mac]]
             /\ arpRef' = Announce(frame.ip, frame.mac)
        ELSE UNCHANGED <<arp_cache, arpRef>>

arp_rx(frame) ==
    IF Learns(frame)
    THEN /\ arp_cache' = arp_add(arp_cache, frame.ip, frame.mac)
         /\ arpRef' = Announce(frame.ip, frame.mac)
    ELSE UNCHANGED <<arp_cache, arpRef>>

\* Packets of other types are only freed.
eth_rx(frame) == IF frame.type = "ARP" THEN arp_rx(frame) ELSE UNCHANGED <<arp_cache, arpRef>>

net_rx_poll ==
    LET b == queue["rx"].head IN
    /\ net_dequeue("rx")
    /\ eth_rx(skb[b].frame)
    /\ skb_free(Dequeued("rx"), b)
    /\ UNCHANGED lo_list

\* The transmit function of the device, or, without a device, skb_free.
net_tx_poll ==
    LET b == queue["tx"].head IN
    /\ net_dequeue("tx")
    /\ loopback_tx(Dequeued("tx"), b)
    /\ UNCHANGED <<arp_cache, lo_list, arpRef>>

\* The transmit function of the loopback device takes the buffer over.
eth_tx(b) ==
    /\ skb[b].st = "caller" /\ loopback_tx(skb, b)
    /\ UNCHANGED <<queue, arp_cache, lo_list, order, arpRef>>

NetNext ==
    \/ netdev_register \/ netdev_unregister \/ net_rx_poll \/ net_tx_poll
    \/ \E frame \in Frames : skb_alloc(frame)
    \/ \E b \in Skbs :
          \/ \E q \in Dirs : net_enqueue(q, b)
          \/ eth_tx(b)
-----------------------------------------------------------------------------
\* What arp_lookup finds: the first valid entry of the address.
arp_lookup(ip) ==
    LET at == {i \in ArpSlots : arp_cache[i].valid /\ arp_cache[i].ip = ip}
    IN  IF at = {} THEN {} ELSE {<<ip, arp_cache[CHOOSE i \in at : \A j \in at : i <= j].mac>>}

\* Both queues are whole lists, along the links in either direction, and hand out the
\* buffers in the order in which they came; none is lost, no queue leads to a buffer
\* that was freed or is in the other queue, no queue grows past its limit, and no path,
\* the overflow of a queue included, frees a buffer twice.
BuffersOwned ==
    /\ ~badfree
    /\ \A q \in Dirs :
          /\ LinkedAs(skb, queue[q].head, queue[q].tail, NoSkb, order[q])
          /\ queue[q].len = Len(order[q]) /\ queue[q].len <= QUEUE_SIZE
          /\ \A i \in 1 .. Len(order[q]) : skb[order[q][i]].st = q

\* The cache knows the address that was announced last, for as many IP addresses as
\* it has room for, however requests and replies repeat and contradict one another.
ArpKnowsLast == \A ip \in IPs : arp_lookup(ip) = {e \in arpRef : e[1] = ip}
=============================================================================
