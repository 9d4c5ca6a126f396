----------------------------- MODULE TickBitmap -----------------------------
(***************************************************************************)
(* Tick arrays of a Raydium concentrated pool and the search for the next  *)
(* initialized one (dex/raydium_clmm/state.rs).  The pool account holds a  *)
(* bitmap of the arrays around tick zero, the extension account bitmaps of *)
(* the arrays beyond it, one above the other on each side.                 *)
(*                                                                         *)
(* A bitmap is the set of its bits' positions.  s is the tick_spacing of a *)
(* pool, down the direction zero_for_one.                                  *)
(***************************************************************************)
EXTENDS FixedPoint, Sequences, FiniteSets, FiniteSetsExt

CONSTANTS
    ArraySize,      \* TICK_ARRAY_SIZE
    BitmapSize,     \* TICK_ARRAY_BITMAP_SIZE
    Bitmaps,        \* EXTENSION_TICKARRAY_BITMAP_SIZE
    MaxTick

MinTick == -MaxTick

tick_count(s) == ArraySize * s
max_tick_in_tickarray_bitmap(s) == s * ArraySize * BitmapSize

ASSUME BitmapAssumption ==
    /\ ArraySize \in Nat \ {0} /\ BitmapSize \in Nat \ {0} /\ Bitmaps \in Nat
    /\ MaxTick \in Nat \ {0}

-----------------------------------------------------------------------------
(* TickArrayState *)

check_is_out_of_boundary(t) == t < MinTick \/ t > MaxTick

get_array_start_index(t, s) == (t \div tick_count(s)) * tick_count(s)

check_is_valid_start_index(t, s) ==
    IF check_is_out_of_boundary(t)
    THEN t =< MaxTick /\ t = get_array_start_index(MinTick, s)
    ELSE t % tick_count(s) = 0

\* ticks is what an array holds: a function of its initialized ticks.
First(ticks, down) == IF down THEN Max(DOMAIN ticks) ELSE Min(DOMAIN ticks)

\* Initialized ticks of an array that lie ahead of tick t.
next_initialized_tick(start, ticks, t, s, down) ==
    IF get_array_start_index(t, s) # start THEN {}
    ELSE {u \in DOMAIN ticks : IF down THEN u =< t ELSE u > t}

-----------------------------------------------------------------------------
(* The search.  It returns where it found an array, or where to go on. *)

Found(i) == [is |-> "found", start |-> i]
NotFound(i) == [is |-> "not found", start |-> i]
Error == [is |-> "error", start |-> 0]
Panic == [is |-> "panic", start |-> 0]

IsFound(search) == search.is = "found"

\* round says what a round of a search finds that begins at i, or where the next
\* one does.
Search(round, start) ==
    LET search[i \in Int] ==
            IF round[i].is = "not found" THEN search[round[i].start] ELSE round[i]
    IN  search[start]

\* A search and up to count further ones, each from where the one before found
\* something; the starts of what they found.
Searches(first, further, count) ==
    LET searches[n \in Nat] ==
            IF n = 0 THEN <<first>>
            ELSE LET last == searches[n - 1][Len(searches[n - 1])]
                 IN  IF IsFound(last) THEN Append(searches[n - 1], further[last.start])
                     ELSE searches[n - 1]
    IN  searches[count]

Starts(searches) ==
    [n \in 1..Cardinality({m \in DOMAIN searches : IsFound(searches[m])}) |-> searches[n].start]

Beyond(i, s, down) == IF down THEN i - tick_count(s) ELSE i + tick_count(s)

\* Bits of a bitmap from position b on, and the one of them to take: the bits
\* before it are shifted out, then leading or trailing zeros are counted.
Ahead(bits, b, down) == {c \in bits : IF down THEN c =< b ELSE c >= b}
Nearest(bits, down) == IF down THEN Max(bits) ELSE Min(bits)

is_overflow_default_tickarray_bitmap(t, s) ==
    LET boundary == max_tick_in_tickarray_bitmap(s)
        i == get_array_start_index(t, s)
        least == IF -boundary < MinTick THEN get_array_start_index(MinTick, s) ELSE -boundary
        most == IF boundary > MaxTick
                THEN Beyond(get_array_start_index(MaxTick, s), s, FALSE) ELSE boundary
    IN  i >= most \/ i < least

check_current_tick_array_is_initialized(bits, t, s) ==
    LET compressed == (t \div tick_count(s)) + BitmapSize
    IN  IF check_is_out_of_boundary(t) THEN Error
        ELSE IF compressed \in bits THEN Found((compressed - BitmapSize) * tick_count(s))
        ELSE NotFound((compressed - BitmapSize) * tick_count(s))

\* next_initialized_tick_array_start_index over the bitmap of the pool.
NextInDefault(bits, last, s, down) ==
    LET boundary == max_tick_in_tickarray_bitmap(s)
        next == Beyond(last, s, down)
        ahead == Ahead(bits, (next \div tick_count(s)) + BitmapSize, down)
    IN  IF ~check_is_valid_start_index(last, s) THEN Panic
        ELSE IF next < -boundary \/ next >= boundary THEN NotFound(last)
        ELSE IF ahead # {} THEN Found((Nearest(ahead, down) - BitmapSize) * tick_count(s))
        ELSE NotFound(IF down THEN -boundary ELSE boundary - tick_count(s))

-----------------------------------------------------------------------------
(* TickArrayBitmapExtension: x.positive and x.negative are functions from  *)
(* 0..(Bitmaps - 1) to bitmaps.                                            *)

check_extension_boundary(i, s) ==
    LET boundary == max_tick_in_tickarray_bitmap(s)
    IN  /\ MaxTick > boundary
        /\ -boundary > MinTick
        /\ ~(i >= -boundary /\ i < boundary)

get_bitmap_offset(i, s) ==
    LET boundary == max_tick_in_tickarray_bitmap(s)
        offset == (AbsOf(i) \div boundary) - 1
    IN  IF i < 0 /\ AbsOf(i) % boundary = 0 THEN offset - 1 ELSE offset

get_bitmap(x, i, s) ==
    IF i < 0 THEN x.negative[get_bitmap_offset(i, s)] ELSE x.positive[get_bitmap_offset(i, s)]

HasBitmap(i, s) == check_is_valid_start_index(i, s) /\ check_extension_boundary(i, s)

tick_array_offset_in_bitmap(i, s) ==
    LET m == AbsOf(i) % max_tick_in_tickarray_bitmap(s)
    IN  IF i < 0 /\ m # 0 THEN BitmapSize - (m \div tick_count(s)) ELSE m \div tick_count(s)

check_tick_array_is_initialized(x, i, s) ==
    IF ~HasBitmap(i, s) THEN Error
    ELSE IF tick_array_offset_in_bitmap(i, s) \in get_bitmap(x, i, s) THEN Found(i)
    ELSE NotFound(i)

get_bitmap_tick_boundary(i, s) ==
    LET boundary == max_tick_in_tickarray_bitmap(s)
    IN  IF i < 0 /\ AbsOf(i) % boundary # 0
        THEN -boundary * ((AbsOf(i) \div boundary) + 1)
        ELSE IF i < 0 THEN i ELSE boundary * (i \div boundary)

next_initialized_tick_array_in_bitmap(bits, next, s, down) ==
    LET offset == tick_array_offset_in_bitmap(next, s)
        ahead == Ahead(bits, offset, down)
        least == get_bitmap_tick_boundary(next, s)
    IN  IF ahead # {} THEN Found(next + ((Nearest(ahead, down) - offset) * tick_count(s)))
        ELSE NotFound(IF down THEN least
                      ELSE least + max_tick_in_tickarray_bitmap(s) - tick_count(s))

next_initialized_tick_array_from_one_bitmap(x, last, s, down) ==
    LET next == Beyond(last, s, down)
    IN  IF \/ next < get_array_start_index(MinTick, s)
           \/ next > get_array_start_index(MaxTick, s)
        THEN NotFound(next)
        ELSE IF ~HasBitmap(next, s) THEN Error
        ELSE next_initialized_tick_array_in_bitmap(get_bitmap(x, next, s), next, s, down)

-----------------------------------------------------------------------------
(* PoolState: both bitmaps in turn, until an array is found or the search  *)
(* has left the ticks there are ("none").                                  *)

NextInBitmaps(bits, x, last, s, down) ==
    LET d == NextInDefault(bits, last, s, down)
        e == next_initialized_tick_array_from_one_bitmap(x, d.start, s, down)
    IN  IF d.is \in {"found", "panic"} THEN d
        ELSE IF e.is = "not found" /\ check_is_out_of_boundary(e.start)
        THEN [e EXCEPT !.is = "none"] ELSE e

next_initialized_tick_array_start_index(bits, x, last, s, down) ==
    Search([i \in Int |-> NextInBitmaps(bits, x, i, s, down)], get_array_start_index(last, s))

\* The array of tick t, or the next one there is.
get_first_initialized_tick_array(bits, x, t, s, down) ==
    LET start == get_array_start_index(t, s)
        current == IF is_overflow_default_tickarray_bitmap(t, s)
                   THEN check_tick_array_is_initialized(x, start, s)
                   ELSE check_current_tick_array_is_initialized(bits, t, s)
        next == next_initialized_tick_array_start_index(bits, x, start, s, down)
    IN  IF current.is # "not found" THEN [here |-> current.is = "found", at |-> current]
        ELSE [here |-> FALSE, at |-> IF next.is = "none" THEN Error ELSE next]

\* What the searches for the arrays to load return: the first array and, while
\* there are any, load_count further ones.
load_cur_and_next_specify_count_tick_array_key(load_count, bits, x, t, s, down) ==
    Searches(get_first_initialized_tick_array(bits, x, t, s, down).at,
             [i \in Int |-> next_initialized_tick_array_start_index(bits, x, i, s, down)],
             load_count)
=============================================================================
