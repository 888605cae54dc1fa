-------------------------------- MODULE Blink --------------------------------
(***************************************************************************)
(* The blinking characters of src/mp1/mp1.S: a linked list of structures   *)
(* that ioctls change and that the RTC's tasklet walks at every tick.  The *)
(* tasklet runs to its end between any two instructions of an ioctl; an    *)
(* ioctl is cut into steps where the tasklet could see a difference.  The  *)
(* registers ESI and EDI hold nodes of the ioctl in progress.              *)
(***************************************************************************)
EXTENDS Integers, Sequences, SequencesExt, FiniteSets

CONSTANTS
    N,              \* structures malloc can give
    WORD,           \* 2^16: the lengths and the countdown are 16 bits wide
    Args,           \* structures the user passes to ADD
    MAX_CALLS       \* bound on the ioctls made

Nodes == 1..N
NULL == 0
Blank == "blank"
WILD == N + 1       \* an address that is not a node: what the user left in next
                    \* (the upper half survives the 32-bit store to STATUS)

Fields == {"location", "on_char", "off_char", "on_length", "off_length",
           "countdown", "status", "next"}

ASSUME BlinkAssumption ==
    /\ N \in Nat /\ WORD \in Nat \ {0} /\ MAX_CALLS \in Nat
    /\ Args # {}
    /\ \A a \in Args : /\ DOMAIN a = Fields
                       /\ {a.on_length, a.off_length, a.countdown} \subseteq 0..WORD - 1
                       /\ a.next \in {NULL, WILD}

Locations == {a.location : a \in Args}

VARIABLES
    mp1_list_head, mem, used,       \* the list, its memory, what malloc gave out
    screen,                         \* vmem: the character at each location
    pc, esi, edi, cl,               \* the ioctl in progress and its registers
    wild,                           \* the tasklet followed an address that is no node
    calls,
    leaked, shown, raced, ticked, pair  \* history

ioctl == <<pc, esi, edi, cl, calls>>
hist  == <<leaked, shown, raced, ticked, pair>>
vars  == <<mp1_list_head, mem, used, screen, ioctl, wild, hist>>

\* The walk from the head along next: it visits no node twice, and ends at an
\* address that is no node or was visited.
IsWalk(s) ==
    /\ IF s = <<>> THEN mp1_list_head \notin Nodes ELSE s[1] = mp1_list_head
    /\ \A i \in 1..Len(s) - 1 : mem[s[i]].next = s[i + 1]
    /\ \A i, j \in 1..Len(s) : s[i] = s[j] => i = j
    /\ s # <<>> => mem[s[Len(s)]].next \notin Nodes \ Range(s)
Walks == SeqOf(Nodes, N)
List == CHOOSE s \in Walks : IsWalk(s)
Listed == Range(List)

-----------------------------------------------------------------------------

\* The countdown wraps at 16 bits; at zero the state changes.
Toggles(m) == (m.countdown - 1) % WORD = 0

\* Mutant: at zero nothing changes.
After_stuck(m) ==
    IF ~Toggles(m) THEN [m EXCEPT !.countdown = (@ - 1) % WORD] ELSE m

After(m) ==
    IF ~Toggles(m) THEN [m EXCEPT !.countdown = (@ - 1) % WORD]
    ELSE IF m.status = 1 THEN [m EXCEPT !.status = 0, !.countdown = m.off_length]
    ELSE [m EXCEPT !.status = 1, !.countdown = m.on_length]

CharOf(m) == IF m.status = 1 THEN m.on_char ELSE m.off_char

\* The character of an ioctl in progress has been chosen and not yet written.
Pending(n) == (pc \in {"add_next", "poke_add"} /\ esi = n) \/ (pc = "poke_sync" /\ edi = n)

\* The nodes that change, in the order of the walk: the last at a location is
\* the one seen there.
mp1_rtc_tasklet ==
    LET list == List
        changing == {n \in Range(list) : Toggles(mem[n])}
        at(loc) == {i \in 1..Len(list) : list[i] \in changing /\ mem[list[i]].location = loc}
        lastAt(loc) == IF at(loc) = {} THEN NULL
                       ELSE list[CHOOSE i \in at(loc) : \A j \in at(loc) : j <= i]
    IN  /\ mp1_list_head # NULL /\ ~wild
        /\ mem' = [n \in Nodes |-> IF n \in Range(list) THEN After(mem[n]) ELSE mem[n]]
        /\ screen' = [loc \in Locations |->
                         IF lastAt(loc) = NULL THEN screen[loc] ELSE CharOf(mem'[lastAt(loc)])]
        /\ wild' = (mem[Last(list)].next = WILD)
        /\ shown' = [loc \in Locations |-> IF lastAt(loc) = NULL THEN shown[loc] ELSE lastAt(loc)]
        /\ raced' = {n \in Nodes : IF n \in changing THEN Pending(n) ELSE n \in raced}
        /\ ticked' = (edi # NULL)
        /\ UNCHANGED <<mp1_list_head, used, ioctl, leaked, pair>>

-----------------------------------------------------------------------------
(* mp1_ioctl_add *)

Begin(l) == pc = "idle" /\ ~wild /\ calls < MAX_CALLS /\ calls' = calls + 1 /\ pc' = l
At(l) == pc = l /\ ~wild
Go(l) == pc' = l /\ UNCHANGED calls

\* Every way out restores the caller's registers.
Return == Go("idle") /\ esi' = NULL /\ edi' = NULL /\ cl' = Blank
Refused == pc = "idle" /\ ~wild /\ UNCHANGED ioctl

\* A null argument is refused and mp1_malloc may fail; the memory it gives is
\* not initialised.  Which free structure it gives makes no difference.
add_malloc ==
    /\ \/ /\ Begin("add_check")
          /\ Nodes # used
          /\ LET n == CHOOSE n \in Nodes \ used : TRUE IN used' = used \cup {n} /\ esi' = n
          /\ UNCHANGED <<edi, cl>>
       \/ Refused /\ UNCHANGED used
    /\ UNCHANGED <<mp1_list_head, mem, screen, wild, hist>>

\* The location is checked before it is copied, in memory not written yet: the
\* outcome is whatever that holds, and a refusal does not free the memory.
add_check ==
    /\ At("add_check")
    /\ \/ Go("add_copy") /\ UNCHANGED <<leaked, esi, edi, cl>>
       \/ Return /\ leaked' = leaked \cup {esi}
    /\ UNCHANGED <<mp1_list_head, mem, used, screen, wild, shown, raced, ticked, pair>>

\* mp1_copy_from_user; then the countdown starts with the "on" length.
add_copy ==
    /\ At("add_copy")
    /\ \/ /\ \E a \in Args :
                mem' = [mem EXCEPT ![esi] = [a EXCEPT !.countdown = a.on_length, !.status = 1]]
          /\ Go(IF mp1_list_head = NULL THEN "add_head" ELSE "add_link")
          /\ UNCHANGED <<used, esi, edi, cl>>
       \/ Return /\ used' = used \ {esi} /\ UNCHANGED mem
    /\ UNCHANGED <<mp1_list_head, screen, wild, hist>>

add_link ==
    /\ At("add_link")
    /\ mem' = [mem EXCEPT ![esi].next = mp1_list_head]
    /\ Go("add_publish")
    /\ UNCHANGED <<mp1_list_head, used, screen, esi, edi, cl, wild, hist>>

add_publish ==
    /\ At("add_publish")
    /\ mp1_list_head' = esi /\ cl' = mem[esi].on_char /\ Go("poke_add")
    /\ UNCHANGED <<mem, used, screen, esi, edi, wild, hist>>

\* insert_into_empty: the head first, next after it.
add_head ==
    /\ At("add_head")
    /\ mp1_list_head' = esi /\ Go("add_next")
    /\ UNCHANGED <<mem, used, screen, esi, edi, cl, wild, hist>>

add_next ==
    /\ At("add_next")
    /\ mem' = [mem EXCEPT ![esi].next = NULL]
    /\ cl' = mem[esi].on_char /\ Go("poke_add")
    /\ UNCHANGED <<mp1_list_head, used, screen, esi, edi, wild, hist>>

\* mp1_poke at the end of an ioctl on node n.
mp1_poke(n) ==
    /\ screen' = [screen EXCEPT ![mem[n].location] = cl]
    /\ shown' = [shown EXCEPT ![mem[n].location] = n]
    /\ ticked' = FALSE /\ Return
    /\ UNCHANGED <<mp1_list_head, mem, used, wild, leaked, raced, pair>>

add_poke == At("poke_add") /\ mp1_poke(esi)

-----------------------------------------------------------------------------
(* mp1_ioctl_remove and mp1_ioctl_find *)

\* The first node of the list with that location.
Has(loc) == \E i \in DOMAIN List : mem[List[i]].location = loc
mp1_search(loc) ==
    List[CHOOSE i \in DOMAIN List : /\ mem[List[i]].location = loc
                                    /\ \A j \in 1..i - 1 : mem[List[j]].location # loc]
Previous(n) == CHOOSE p \in Listed : mem[p].next = n

remove_search ==
    \E loc \in Locations :
        /\ IF Has(loc) THEN Begin("remove_unlink") /\ esi' = mp1_search(loc) /\ UNCHANGED <<edi, cl>>
                       ELSE Refused
        /\ UNCHANGED <<mp1_list_head, mem, used, screen, wild, hist>>

\* Mutant: the head is freed without being unlinked.
remove_unlink_not ==
    /\ At("remove_unlink")
    /\ IF mp1_list_head = esi
       THEN UNCHANGED mp1_list_head /\ UNCHANGED mem
       ELSE mem' = [mem EXCEPT ![Previous(esi)].next = mem[esi].next] /\ UNCHANGED mp1_list_head
    /\ pair' = IF esi \in pair THEN {} ELSE pair
    /\ Go("remove_free")
    /\ UNCHANGED <<used, screen, esi, edi, cl, wild, leaked, shown, raced, ticked>>

remove_unlink ==
    /\ At("remove_unlink")
    /\ IF mp1_list_head = esi
       THEN mp1_list_head' = mem[esi].next /\ UNCHANGED mem
       ELSE mem' = [mem EXCEPT ![Previous(esi)].next = mem[esi].next] /\ UNCHANGED mp1_list_head
    /\ pair' = IF esi \in pair THEN {} ELSE pair
    /\ Go("remove_free")
    /\ UNCHANGED <<used, screen, esi, edi, cl, wild, leaked, shown, raced, ticked>>

remove_free ==
    /\ At("remove_free")
    /\ used' = used \ {esi}
    /\ raced' = raced \ {esi}
    /\ shown' = [loc \in Locations |-> IF shown[loc] = esi THEN NULL ELSE shown[loc]]
    /\ ticked' = FALSE /\ Return
    /\ UNCHANGED <<mp1_list_head, mem, screen, wild, leaked, pair>>

\* Copies the element to the user, or fails: the list does not change.
mp1_ioctl_find ==
    /\ Refused
    /\ UNCHANGED <<mp1_list_head, mem, used, screen, wild, hist>>

-----------------------------------------------------------------------------
(* mp1_ioctl_sync: the timing of ESI is copied to EDI, a field at a time. *)

sync_search ==
    \E first, second \in Locations :
        /\ IF Has(first) /\ Has(second)
           THEN /\ Begin("sync_lengths")
                /\ esi' = mp1_search(first) /\ edi' = mp1_search(second)
                /\ pair' = IF mp1_search(second) \in pair THEN {} ELSE pair
                /\ UNCHANGED cl
           ELSE Refused /\ UNCHANGED pair
        /\ UNCHANGED <<mp1_list_head, mem, used, screen, wild, leaked, shown, raced, ticked>>

sync_lengths ==
    /\ At("sync_lengths")
    /\ mem' = [mem EXCEPT ![edi].on_length = mem[esi].on_length,
                          ![edi].off_length = mem[esi].off_length]
    /\ Go("sync_countdown")
    /\ UNCHANGED <<mp1_list_head, used, screen, esi, edi, cl, wild, hist>>

\* Mutant: the countdown is not copied.
sync_countdown_not ==
    /\ At("sync_countdown") /\ Go("sync_status")
    /\ UNCHANGED <<mp1_list_head, mem, used, screen, esi, edi, cl, wild, hist>>

sync_countdown ==
    /\ At("sync_countdown")
    /\ mem' = [mem EXCEPT ![edi].countdown = mem[esi].countdown]
    /\ Go("sync_status")
    /\ UNCHANGED <<mp1_list_head, used, screen, esi, edi, cl, wild, hist>>

\* If the tasklet did not run meanwhile, the two are in step from here on.
sync_status ==
    /\ At("sync_status")
    /\ mem' = [mem EXCEPT ![edi].status = mem[esi].status]
    /\ pair' = IF ticked \/ esi = edi THEN pair ELSE {esi, edi}
    /\ Go("sync_char")
    /\ UNCHANGED <<mp1_list_head, used, screen, esi, edi, cl, wild, leaked, shown, raced, ticked>>

\* Mutant: the status is not looked at.
sync_char_on ==
    /\ At("sync_char")
    /\ cl' = mem[edi].on_char /\ Go("poke_sync")
    /\ UNCHANGED <<mp1_list_head, mem, used, screen, esi, edi, wild, hist>>

sync_char ==
    /\ At("sync_char")
    /\ cl' = CharOf(mem[edi]) /\ Go("poke_sync")
    /\ UNCHANGED <<mp1_list_head, mem, used, screen, esi, edi, wild, hist>>

sync_poke == At("poke_sync") /\ mp1_poke(edi)

-----------------------------------------------------------------------------
Init ==
    /\ mp1_list_head = NULL /\ used = {}
    /\ mem = [n \in Nodes |->      \* anything: never read before it is copied
                 [CHOOSE a \in Args : TRUE EXCEPT !.status = 0]]
    /\ screen = [loc \in Locations |-> Blank]
    /\ pc = "idle" /\ esi = NULL /\ edi = NULL /\ cl = Blank /\ wild = FALSE /\ calls = 0
    /\ leaked = {} /\ shown = [loc \in Locations |-> NULL] /\ raced = {}
    /\ ticked = FALSE /\ pair = {}

mp1_ioctl_add == add_malloc \/ add_check \/ add_copy \/ add_link \/ add_publish \/ add_head
                 \/ add_next \/ add_poke
mp1_ioctl_remove == remove_search \/ remove_unlink \/ remove_free
mp1_ioctl_sync == sync_search \/ sync_lengths \/ sync_countdown \/ sync_status \/ sync_char \/ sync_poke

Next == mp1_rtc_tasklet \/ mp1_ioctl_add \/ mp1_ioctl_remove \/ mp1_ioctl_find \/ mp1_ioctl_sync

\* The RTC keeps interrupting; an ioctl may take as long as it likes.
Fairness == WF_vars(mp1_rtc_tasklet)

Spec == Init /\ [][Next]_vars /\ Fairness

-----------------------------------------------------------------------------
(* Properties. *)

\* Every variable has its type; what is 16 bits wide stays so.
TypeOK ==
    /\ mp1_list_head \in Nodes \cup {NULL} /\ used \subseteq Nodes /\ leaked \subseteq used
    /\ \A n \in Nodes :
          /\ DOMAIN mem[n] = Fields /\ mem[n].location \in Locations
          /\ {mem[n].on_length, mem[n].off_length, mem[n].countdown} \subseteq 0..WORD - 1
          /\ mem[n].status \in 0..1 /\ mem[n].next \in Nodes \cup {NULL, WILD}
    /\ esi \in Nodes \cup {NULL} /\ edi \in Nodes \cup {NULL} /\ wild \in BOOLEAN

\* At every instruction where the tasklet may run, the list it walks ends, has
\* no node twice and only nodes that are allocated: a node is unlinked before
\* it is freed and complete before it is published.
ListSound ==
    /\ Listed \subseteq used
    /\ mp1_list_head # NULL => mem[Last(List)].next \notin Listed
    /\ pc = "remove_free" => esi \notin Listed

\* Memory is not lost: what was allocated is in the list, belongs to the call
\* in progress, or was abandoned by the location check of a failed ADD.
NoneLost ==
    used \ (Listed \cup leaked) \subseteq
        IF pc \in {"add_check", "add_copy", "add_link", "add_publish", "add_head", "remove_free"}
        THEN {esi} ELSE {}

\* Between calls, the screen shows the state of the node that wrote a location
\* last, unless the tasklet changed the node after an ioctl had chosen its
\* character; then it is right again from the node's next change.
ScreenFollows ==
    pc = "idle" => \A loc \in Locations :
        shown[loc] # NULL /\ shown[loc] \notin raced /\ mem[shown[loc]].location = loc =>
            screen[loc] = CharOf(mem[shown[loc]])

\* Two nodes synchronised between two ticks blink together ever after.
InStep ==
    \A m, n \in pair : /\ mem[m].status = mem[n].status
                       /\ mem[m].countdown = mem[n].countdown

\* Once the calls stop (each SYNC may set a countdown back), every listed node
\* goes on blinking, a length of zero included: it is in neither state for ever.
Blinks ==
    \A n \in Nodes : \A s \in 0..1 : []<>(mem[n].status # s \/ wild \/ n \notin Listed)

\* The tasklet follows an address that is not a node only in the window of
\* insert_into_empty, where the head is published before next is written: in
\* every other state, whatever the user left in next, the list ends in NULL.
WildOnlyEmpty ==
    /\ wild => pc = "add_next"
    /\ pc # "add_next" /\ mp1_list_head # NULL => mem[Last(List)].next = NULL

\* The list is one the tasklet can walk and nothing allocated is lost, between
\* any two instructions of an ioctl.
ListKept == TypeOK /\ ListSound /\ NoneLost /\ WildOnlyEmpty

=============================================================================
