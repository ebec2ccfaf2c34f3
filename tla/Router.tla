--------------------------------- MODULE Router ---------------------------------
(***************************************************************************)
(* What stands before the handlers: the administrator's key and subnet,    *)
(* and the rate limit, as it meets the health check of docker-compose.yml. *)
(*                                                                         *)
(* tower_governor gives every address a bucket in each tier and keeps one  *)
(* number per bucket, the time at which it would be full again.  Here it   *)
(* is kept as the seconds until then.  The health check comes from inside  *)
(* the container, so it has the bucket of that address to itself.          *)
(***************************************************************************)
EXTENDS Integers

CONSTANTS
    W,            \* bits of an address, 32 in the code
    INTERVAL,     \* seconds between health checks, and
    RETRIES,      \* failures in a row after which the container is unhealthy
    Malformed,    \* a part of ADMIN_ALLOWED_SUBNET that does not parse
    NoPrefix,     \* ADMIN_ALLOWED_SUBNET without a slash
    V6,           \* an address that is not IPv4
    None

ASSUME Numbers == {W, INTERVAL, RETRIES} \subseteq Nat \ {0}
ASSUME MarksAreNone == {Malformed, NoPrefix} \cap Nat = {}
ASSUME NoneIsNoNumber == None \notin Nat

\* An address, a mask: the bits that are 1, the lowest being bit 0.
Bits == 0 .. W - 1
Word == SUBSET Bits

ASSUME MarksAreNoWords == \A word \in Word : word # Malformed /\ word # V6

Subnet == [base : {Malformed} \cup Word, prefix : (0 .. W + 1) \cup {Malformed, NoPrefix}]

VARIABLES
    subnet,      \* ADMIN_ALLOWED_SUBNET
    answer,      \* the last /admin request and its status, or None
    bucket,      \* of the health check: seconds until it is full, None if there is none
    waited,      \* seconds since the last health check, as far as they matter
    failures     \* health checks refused in a row

vars == <<subnet, answer, bucket, waited, failures>>

-----------------------------------------------------------------------------
(* The administrator *)

Prefix == IF subnet.prefix = NoPrefix THEN W ELSE subnet.prefix

\* Shifted within the word.
Shift_left(word, n) == {bit + n : bit \in word} \cap Bits

\* Mutant: no case for 0; a shift by all the bits shifts by none.
mask_unguarded(prefix) == Shift_left(Bits, (W - prefix) % W)

mask(prefix) == IF prefix = 0 THEN {} ELSE Shift_left(Bits, W - prefix)

check_admin_ip(addr) ==
    IF subnet.base = Malformed \/ Prefix = Malformed THEN 500
    ELSE IF Prefix > W THEN 500
    ELSE IF addr = V6 THEN 401
    ELSE IF addr \cap mask(Prefix) = subnet.base \cap mask(Prefix) THEN 200
    ELSE 401

\* A request to /admin: turned away by the limiter, by its key, or by its address.
Admin_request(addr, right_key) ==
    /\ \E status \in {429, IF right_key THEN check_admin_ip(addr) ELSE 401} :
          answer' = [addr |-> addr, right_key |-> right_key, status |-> status]
    /\ UNCHANGED <<subnet, bucket, waited, failures>>

-----------------------------------------------------------------------------
(* The rate limit of the general tier, which has /health *)

\* per_second(10) is one request in 10 seconds.
moderate_config == [per_second |-> 10, burst_size |-> 20]

\* The container is given up no sooner than the limiter lets one more request through.
ASSUME Patient == RETRIES * INTERVAL >= moderate_config.per_second

\* A bucket begins with one request taken, and one that has filled up with none.
Filled == IF bucket = None THEN moderate_config.per_second ELSE bucket

\* Mutant: nothing is ever refused.
Limited_never == FALSE

Limited == Filled > moderate_config.per_second * moderate_config.burst_size

\* Mutant: a request that is refused is charged for.
Health_check_charged ==
    /\ waited = INTERVAL
    /\ waited' = 0
    /\ failures' = IF Limited THEN failures + 1 ELSE 0
    /\ bucket' = IF Limited THEN bucket + INTERVAL ELSE Filled + moderate_config.per_second
    /\ UNCHANGED <<subnet, answer>>

\* curl -f on /health: refused with 429, or answered 200.
Health_check ==
    /\ waited = INTERVAL
    /\ waited' = 0
    /\ IF Limited
       THEN failures' = failures + 1 /\ UNCHANGED bucket
       ELSE failures' = 0 /\ bucket' = Filled + moderate_config.per_second
    /\ UNCHANGED <<subnet, answer>>

\* A second goes by.  (The check may come later than its interval asks.)
Tick ==
    /\ waited' = IF waited < INTERVAL THEN waited + 1 ELSE waited
    /\ bucket' = IF bucket = None \/ bucket = 0 THEN bucket ELSE bucket - 1
    /\ UNCHANGED <<subnet, answer, failures>>

\* Every minute the thread drops the buckets that have filled up.
retain_recent ==
    /\ bucket = 0
    /\ bucket' = None
    /\ UNCHANGED <<subnet, answer, waited, failures>>

-----------------------------------------------------------------------------

Init == /\ subnet \in Subnet
        /\ answer = None
        /\ bucket = None
        /\ waited = 0
        /\ failures = 0

Next == \/ \E addr \in {V6} \cup Word, right_key \in BOOLEAN : Admin_request(addr, right_key)
        \/ Health_check \/ Tick \/ retain_recent

Spec == Init /\ [][Next]_vars

-----------------------------------------------------------------------------
(* Properties *)

\* Every variable holds values of its type; a bucket is never fuller of debt than
\* a burst and the requests at its edges.
TypeOK ==
    /\ subnet \in Subnet
    /\ answer \in [addr : {V6} \cup Word, right_key : BOOLEAN, status : {200, 401, 429, 500}] \cup {None}
    /\ bucket \in 0 .. moderate_config.per_second * (moderate_config.burst_size + 1) \cup {None}
    /\ waited \in 0 .. INTERVAL
    /\ failures \in Nat

\* The administrator is let in from the subnet and from nowhere else: with the
\* right key, a well-formed subnet, and an address that agrees with the base in
\* its first bits, be they none or all.
GateIsTheSubnet ==
    answer # None /\ answer.status # 429 =>
        (answer.status = 200 <=>
            /\ answer.right_key
            /\ subnet.base # Malformed /\ Prefix \in 0 .. W
            /\ answer.addr # V6
            /\ \A bit \in W - Prefix .. W - 1 : bit \in answer.addr <=> bit \in subnet.base)

\* The health check asks more often than the limiter lets it, and fails most of
\* the time; but never so often in a row that the container counts as unhealthy.
StaysHealthy == failures < RETRIES

===============================================================================
