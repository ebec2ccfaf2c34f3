------------------------------ MODULE RouterProofs ------------------------------
(* What holds of Router for words of any width, and for any health check that  *)
(* is as patient as that of docker-compose.yml.                                *)
EXTENDS Router, TLAPS

-----------------------------------------------------------------------------
(* The limiter: its own numbers *)

per_second == moderate_config.per_second
burst      == moderate_config.per_second * moderate_config.burst_size

\* A bucket past its burst has been past it since the last request that was
\* served: every second since, refused checks and all, has drained it.
Draining ==
    /\ failures * INTERVAL < per_second
    /\ bucket # None /\ bucket > burst =>
          bucket + failures * INTERVAL + waited <= burst + per_second

\* The status of the last request is that of the gate, or the limiter's.
AnswerIsTheGates ==
    answer # None =>
        answer.status \in {429, IF answer.right_key THEN check_admin_ip(answer.addr) ELSE 401}

IInv == TypeOK /\ Draining /\ AnswerIsTheGates

LEMMA Rates ==
    /\ per_second = 10 /\ burst = 200
    /\ moderate_config.per_second = 10
    /\ moderate_config.per_second * moderate_config.burst_size = 200
    /\ moderate_config.per_second * (moderate_config.burst_size + 1) = 210
  BY DEF per_second, burst, moderate_config

LEMMA Constants ==
    /\ W \in Nat /\ W > 0 /\ INTERVAL \in Nat /\ INTERVAL > 0 /\ RETRIES \in Nat /\ RETRIES > 0
    /\ RETRIES * INTERVAL >= per_second
  BY Numbers, Patient DEF per_second

LEMMA OneMore ==
    ASSUME NEW n \in Nat
    PROVE  (n + 1) * INTERVAL = n * INTERVAL + INTERVAL /\ n * INTERVAL \in Nat
  BY Constants

-----------------------------------------------------------------------------
(* The gate *)

\* The mask of a prefix has the first bits, all or none of them included.
LEMMA MaskIs ==
    ASSUME NEW prefix \in 0 .. W
    PROVE  mask(prefix) = W - prefix .. W - 1
  <1>1. CASE prefix = 0
    BY <1>1, Constants DEF mask
  <1>2. CASE prefix # 0
    <2>1. mask(prefix) = {bit + (W - prefix) : bit \in Bits} \cap Bits
      BY <1>2 DEF mask, Shift_left
    <2>2. ASSUME NEW bit \in W - prefix .. W - 1
          PROVE  bit \in mask(prefix)
      <3>1. bit - (W - prefix) \in Bits /\ bit \in Bits
            /\ bit = (bit - (W - prefix)) + (W - prefix)
        BY <2>2, Constants DEF Bits
      <3> QED BY <2>1, <3>1
    <2>3. ASSUME NEW bit \in mask(prefix)
          PROVE  bit \in W - prefix .. W - 1
      <3>1. PICK b \in Bits : bit = b + (W - prefix)
        BY <2>1
      <3> QED BY <2>1, <3>1, Constants DEF Bits
    <2> QED BY <2>2, <2>3
  <1> QED BY <1>1, <1>2

LEMMA PrefixIs ==
    ASSUME subnet \in Subnet
    PROVE  Prefix \in (0 .. W + 1) \cup {Malformed}
  BY Constants DEF Prefix, Subnet

LEMMA GateStatus ==
    ASSUME NEW addr
    PROVE  check_admin_ip(addr) \in {200, 401, 500}
  BY DEF check_admin_ip

\* Words agree under a mask when they agree in its bits.
LEMMA GateOpens ==
    ASSUME subnet \in Subnet, NEW addr \in {V6} \cup Word
    PROVE  check_admin_ip(addr) = 200 <=>
              /\ subnet.base # Malformed /\ Prefix \in 0 .. W
              /\ addr # V6
              /\ \A bit \in W - Prefix .. W - 1 : bit \in addr <=> bit \in subnet.base
  <1>1. CASE subnet.base = Malformed \/ Prefix = Malformed
    <2>1. Prefix = Malformed => Prefix \notin 0 .. W
      BY MarksAreNone
    <2> QED BY <1>1, <2>1 DEF check_admin_ip
  <1>2. CASE subnet.base # Malformed /\ Prefix # Malformed
    <2>1. Prefix \in 0 .. W + 1
      BY <1>2, PrefixIs
    <2>2. CASE Prefix > W
      BY <1>2, <2>1, <2>2, Constants DEF check_admin_ip
    <2>3. CASE ~(Prefix > W)
      <3>1. Prefix \in 0 .. W
        BY <2>1, <2>3, Constants
      <3>2. CASE addr = V6
        BY <1>2, <2>3, <3>2 DEF check_admin_ip
      <3>3. CASE addr # V6
        <4>1. check_admin_ip(addr) = 200 <=>
                 addr \cap mask(Prefix) = subnet.base \cap mask(Prefix)
          BY <1>2, <2>3, <3>3 DEF check_admin_ip
        <4>2. mask(Prefix) = W - Prefix .. W - 1
          BY <3>1, MaskIs
        <4>3. addr \cap (W - Prefix .. W - 1) = subnet.base \cap (W - Prefix .. W - 1) <=>
                 \A bit \in W - Prefix .. W - 1 : bit \in addr <=> bit \in subnet.base
          OBVIOUS
        <4> QED BY <1>2, <3>1, <3>3, <4>1, <4>2, <4>3
      <3> QED BY <3>2, <3>3
    <2> QED BY <2>2, <2>3
  <1> QED BY <1>1, <1>2

-----------------------------------------------------------------------------
(* The invariant *)

LEMMA InitEstablishes == Init => IInv
  <1> SUFFICES ASSUME Init
               PROVE  IInv
    OBVIOUS
  <1>1. TypeOK
    BY Constants DEF Init, TypeOK
  <1>2. Draining
    BY Constants, Rates DEF Init, Draining
  <1> QED BY <1>1, <1>2 DEF Init, IInv, AnswerIsTheGates

\* A request to /admin leaves the limiter of /health alone.
LEMMA AdminStep ==
    ASSUME IInv, NEW addr \in {V6} \cup Word, NEW right_key \in BOOLEAN,
           Admin_request(addr, right_key)
    PROVE  IInv'
  <1>1. PICK status \in {429, IF right_key THEN check_admin_ip(addr) ELSE 401} :
           answer' = [addr |-> addr, right_key |-> right_key, status |-> status]
    BY DEF Admin_request
  <1>2. UNCHANGED <<subnet, bucket, waited, failures>>
    BY DEF Admin_request
  <1>3. status \in {200, 401, 429, 500}
    BY <1>1, GateStatus
  <1>4. TypeOK'
    BY <1>1, <1>2, <1>3 DEF IInv, TypeOK
  <1>5. Draining'
    BY <1>2 DEF IInv, Draining
  <1>6. AnswerIsTheGates'
    BY <1>1, <1>2 DEF AnswerIsTheGates, check_admin_ip, Prefix
  <1> QED BY <1>4, <1>5, <1>6 DEF IInv

LEMMA AnswerStays ==
    ASSUME AnswerIsTheGates, UNCHANGED <<subnet, answer>>
    PROVE  AnswerIsTheGates'
  BY DEF AnswerIsTheGates, check_admin_ip, Prefix

LEMMA CheckStep ==
    ASSUME IInv, Health_check
    PROVE  IInv'
  <1>1. TypeOK /\ Draining /\ AnswerIsTheGates
    BY DEF IInv
  <1>2. waited = INTERVAL /\ waited' = 0 /\ UNCHANGED <<subnet, answer>>
    BY DEF Health_check
  <1>3. failures \in Nat /\ bucket \in (0 .. 210) \cup {None}
    BY <1>1, Rates DEF TypeOK
  <1>4. CASE Limited
    <2>1. failures' = failures + 1 /\ bucket' = bucket
      BY <1>4 DEF Health_check
    <2>2. bucket # None /\ bucket \in 0 .. 210 /\ bucket > burst
      BY <1>3, <1>4, Rates DEF Limited, Filled
    <2>3. failures' * INTERVAL = failures * INTERVAL + INTERVAL /\ failures * INTERVAL \in Nat
      BY <1>3, <2>1, OneMore
    <2>4. bucket + failures * INTERVAL + INTERVAL <= burst + per_second
      BY <1>1, <1>2, <2>2 DEF Draining
    <2>5. Draining'
      BY <1>2, <2>1, <2>2, <2>3, <2>4, Rates, Constants DEF Draining
    <2>6. TypeOK'
      BY <1>1, <1>2, <2>1, Constants DEF TypeOK
    <2> QED BY <1>1, <1>2, <2>5, <2>6, AnswerStays DEF IInv
  <1>5. CASE ~Limited
    <2>1. failures' = 0 /\ bucket' = Filled + per_second
      BY <1>5 DEF Health_check, per_second
    <2>2. Filled \in 0 .. 200
      BY <1>3, <1>5, Rates DEF Limited, Filled
    <2>3. 0 * INTERVAL = 0
      BY Constants
    <2>4. Draining'
      BY <1>2, <2>1, <2>2, <2>3, Rates DEF Draining
    <2>5. TypeOK'
      BY <1>1, <1>2, <2>1, <2>2, Rates, Constants DEF TypeOK
    <2> QED BY <1>1, <1>2, <2>4, <2>5, AnswerStays DEF IInv
  <1> QED BY <1>4, <1>5

LEMMA TickStep ==
    ASSUME IInv, Tick
    PROVE  IInv'
  <1>1. TypeOK /\ Draining /\ AnswerIsTheGates
    BY DEF IInv
  <1>2. failures \in Nat /\ bucket \in (0 .. 210) \cup {None} /\ waited \in 0 .. INTERVAL
    BY <1>1, Rates DEF TypeOK
  <1>3. failures * INTERVAL \in Nat
    BY <1>2, OneMore
  <1>4. UNCHANGED <<subnet, answer, failures>>
    BY DEF Tick
  <1>5. waited' \in 0 .. INTERVAL /\ waited' <= waited + 1
    BY <1>2, Constants DEF Tick
  <1>6. \/ bucket = None /\ bucket' = None
        \/ bucket = 0 /\ bucket' = 0
        \/ bucket \in 1 .. 210 /\ bucket' = bucket - 1
    BY <1>2 DEF Tick
  <1>7. TypeOK'
    BY <1>1, <1>4, <1>5, <1>6, Rates DEF TypeOK
  <1>8. Draining'
    <2>1. CASE bucket' = None \/ bucket' = 0
      BY <1>1, <1>4, <2>1, Rates DEF Draining
    <2>2. CASE bucket \in 1 .. 210 /\ bucket' = bucket - 1
      <3>1. bucket # None
        BY <2>2, NoneIsNoNumber
      <3>2. bucket' > burst => bucket > burst
        BY <2>2, Rates
      <3>3. bucket > burst => bucket + failures * INTERVAL + waited <= burst + per_second
        BY <1>1, <3>1 DEF Draining
      <3> QED BY <1>1, <1>2, <1>3, <1>4, <1>5, <2>2, <3>2, <3>3, Rates DEF Draining
    <2> QED BY <1>6, <2>1, <2>2
  <1> QED BY <1>1, <1>4, <1>7, <1>8, AnswerStays DEF IInv

LEMMA StepKeeps == IInv /\ [Next]_vars => IInv'
  <1> SUFFICES ASSUME IInv, [Next]_vars
               PROVE  IInv'
    OBVIOUS
  <1>1. ASSUME NEW addr \in {V6} \cup Word, NEW right_key \in BOOLEAN,
               Admin_request(addr, right_key)
        PROVE  IInv'
    BY <1>1, AdminStep
  <1>2. CASE Health_check
    BY <1>2, CheckStep
  <1>3. CASE Tick
    BY <1>3, TickStep
  <1>4. CASE retain_recent
    <2>1. bucket' = None /\ UNCHANGED <<subnet, answer, waited, failures>>
      BY <1>4 DEF retain_recent
    <2> QED BY <2>1, AnswerStays DEF IInv, TypeOK, Draining
  <1>5. CASE UNCHANGED vars
    BY <1>5, AnswerStays DEF vars, IInv, TypeOK, Draining
  <1> QED BY <1>1, <1>2, <1>3, <1>4, <1>5 DEF Next

\* Types, the bucket that drains, and the last answer as the gate's.
THEOREM InvariantHolds == Spec => []IInv
  BY InitEstablishes, StepKeeps, PTL DEF Spec

\* The variables keep their types; a bucket is never past a burst and one request.
THEOREM TypeCorrect == Spec => []TypeOK
  <1>1. IInv => TypeOK
    BY DEF IInv
  <1> QED BY <1>1, InvariantHolds, PTL

\* check_admin_ip and check_admin_key let in the subnet's addresses with the right
\* key and nobody else, for words of any width and every prefix.
THEOREM GateHolds == Spec => []GateIsTheSubnet
  <1>1. IInv => GateIsTheSubnet
    <2> SUFFICES ASSUME IInv, answer # None, answer.status # 429
                 PROVE  answer.status = 200 <=>
                           /\ answer.right_key
                           /\ subnet.base # Malformed /\ Prefix \in 0 .. W
                           /\ answer.addr # V6
                           /\ \A bit \in W - Prefix .. W - 1 :
                                 bit \in answer.addr <=> bit \in subnet.base
      BY DEF GateIsTheSubnet
    <2>1. /\ answer.addr \in {V6} \cup Word /\ answer.right_key \in BOOLEAN
          /\ subnet \in Subnet
      BY DEF IInv, TypeOK
    <2>2. CASE answer.right_key = FALSE
      BY <2>2 DEF IInv, AnswerIsTheGates
    <2>3. CASE answer.right_key = TRUE
      <3>1. answer.status = check_admin_ip(answer.addr)
        BY <2>3 DEF IInv, AnswerIsTheGates
      <3> QED BY <2>1, <2>3, <3>1, GateOpens
    <2> QED BY <2>1, <2>2, <2>3
  <1> QED BY <1>1, InvariantHolds, PTL

\* The health check is refused, but never RETRIES times in a row.
THEOREM HealthHolds == Spec => []StaysHealthy
  <1>1. IInv => StaysHealthy
    <2> SUFFICES ASSUME IInv, ~(failures < RETRIES)
                 PROVE  FALSE
      BY DEF StaysHealthy
    <2>1. failures \in Nat /\ failures * INTERVAL < per_second
      BY DEF IInv, TypeOK, Draining
    <2>2. PICK more \in Nat : failures = RETRIES + more
      <3>1. failures - RETRIES \in Nat /\ failures = RETRIES + (failures - RETRIES)
        BY <2>1, Constants
      <3> QED BY <3>1
    <2>3. failures * INTERVAL = RETRIES * INTERVAL + more * INTERVAL
      BY <2>2, Constants
    <2>4. more * INTERVAL \in Nat /\ RETRIES * INTERVAL \in Nat
      BY <2>2, Constants
    <2> QED BY <2>1, <2>3, <2>4, Constants, Rates
  <1> QED BY <1>1, InvariantHolds, PTL

===============================================================================
