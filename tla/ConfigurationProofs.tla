------------------------ MODULE ConfigurationProofs ------------------------
(***************************************************************************)
(* What the constructor of the pipeline and steer() make of any options,   *)
(* for every number of units and lanes: one latency for each lane, a       *)
(* predictor where the log names one, and instructions spread evenly.  For *)
(* the last one, the lanes have to be seen in the order of their turns:    *)
(* the further behind the lane of the last instruction, the more           *)
(* instructions a lane had (Turns).                                        *)
(***************************************************************************)
EXTENDS Configuration, RingProofs, FiniteSetTheorems

OptionsOK ==
  /\ issue_width \in 1 .. MaxWidth
  /\ fu_lane_matrix \in [FuTypes -> SUBSET LaneBits]
  /\ fu_lat \in [FuTypes -> Nat]

\* What --mdp leaves of the flags, given once or again and again
FlagsOK ==
  /\ mdp_options \in Nat
  /\ "ORACLE_DISAMBIG" \in flags => "ORACLE_MDP" \in flags
  /\ "ALWAYS_PREDICT_CONFLICT" \in flags => "STORE_SETS" \in flags
  /\ mdp_options = 0 => flags = {}
  /\ mdp_options = 1 => \E model \in Nat : flags = ModelFlags(model)

\* How far a lane is from the next turn of its unit
Wait(fu, lane) ==
  IF lane > fu_lane_ptr[fu] THEN lane - fu_lane_ptr[fu]
                            ELSE lane + issue_width - fu_lane_ptr[fu]

LanesOf(fu) == LaneIds \cap fu_lane_matrix[fu]

Turns(fu) ==
  /\ \A lane \in LaneIds \ fu_lane_matrix[fu] : steered[fu][lane] = 0
  /\ \A a, b \in LanesOf(fu) :
       /\ steered[fu][a] <= steered[fu][b] + 1
       /\ Wait(fu, a) < Wait(fu, b) => steered[fu][a] <= steered[fu][b]

MachineOK ==
  /\ \A lane \in LaneIds : ex_depth[lane] \in Depth(lane)
  /\ MDP = Built
  /\ fu_lane_ptr \in [FuTypes -> LaneIds]
  /\ steered \in [FuTypes -> [LaneIds -> Nat]]
  /\ \A fu \in FuTypes : Turns(fu)

IInv ==
  /\ OptionsOK
  /\ FlagsOK
  /\ status = "running" => MachineOK

-----------------------------------------------------------------------------
(* The round of the lanes *)

LEMMA Constants ==
  /\ NumberFuTypes \in Nat \ {0} /\ MaxWidth \in Nat \ {0}
  /\ Matrices \subseteq [FuTypes -> SUBSET LaneBits]
  /\ Latencies \subseteq [FuTypes -> Nat]
BY ConfigurationAssumption

LEMMA WaitType ==
  ASSUME OptionsOK, MachineOK, NEW fu \in FuTypes, NEW lane \in LaneIds
  PROVE  /\ issue_width \in Nat \ {0} /\ fu_lane_ptr[fu] \in 0 .. issue_width - 1
         /\ lane \in 0 .. issue_width - 1
         /\ Wait(fu, lane) \in 1 .. issue_width
         /\ Wrapped(fu_lane_ptr[fu] + Wait(fu, lane)) = lane
<1>1. /\ issue_width \in Nat \ {0} /\ fu_lane_ptr[fu] \in 0 .. issue_width - 1
      /\ lane \in 0 .. issue_width - 1
  BY Constants DEF OptionsOK, MachineOK, LaneIds
<1> DEFINE x == fu_lane_ptr[fu] + Wait(fu, lane)
<1>2. /\ Wait(fu, lane) \in 1 .. issue_width
      /\ x \in 0 .. 2 * issue_width - 1
      /\ lane = IF x < issue_width THEN x ELSE x - issue_width
  BY <1>1 DEF Wait
<1> HIDE DEF x
<1>3. Wrapped(x) = lane
  BY <1>1, <1>2, Wraps DEF Wrapped
<1> QED BY <1>1, <1>2, <1>3 DEF x

LEMMA WaitAfter ==
  ASSUME issue_width \in Nat \ {0}, NEW fu, fu_lane_ptr[fu] \in 0 .. issue_width - 1,
         NEW distance \in 1 .. issue_width
  PROVE  /\ Wrapped(fu_lane_ptr[fu] + distance) \in LaneIds
         /\ Wait(fu, Wrapped(fu_lane_ptr[fu] + distance)) = distance
<1> DEFINE x == fu_lane_ptr[fu] + distance
<1>1. x \in 0 .. 2 * issue_width - 1
  OBVIOUS
<1>2. PICK lane : lane = Wrapped(x)
  OBVIOUS
<1> HIDE DEF x
<1>3. CASE x < issue_width
  <2>1. lane = x
    BY <1>1, <1>2, <1>3, Wraps DEF Wrapped
  <2>2. lane \in LaneIds /\ Wait(fu, lane) = distance
    BY <1>1, <1>3, <2>1 DEF x, Wait, LaneIds
  <2> QED BY <1>2, <2>2 DEF x
<1>4. CASE x >= issue_width
  <2>0. x % issue_width = IF x < issue_width THEN x ELSE x - issue_width
    BY <1>1, Wraps
  <2>1. lane = x - issue_width
    BY <1>1, <1>2, <1>4, <2>0 DEF Wrapped
  <2>2. lane \in LaneIds /\ Wait(fu, lane) = distance
    BY <1>1, <1>4, <2>1 DEF x, Wait, LaneIds
  <2> QED BY <1>2, <2>2 DEF x
<1> QED BY <1>1, <1>3, <1>4

\* The search of steer() ends at the lane whose turn it is.
LEMMA NextTurn ==
  ASSUME OptionsOK, MachineOK, NEW fu \in FuTypes, Distances(fu) # {},
         NEW distance, distance = CHOOSE d \in Distances(fu) : \A e \in Distances(fu) : d <= e
  PROVE  /\ Wrapped(fu_lane_ptr[fu] + distance) \in LanesOf(fu)
         /\ Wait(fu, Wrapped(fu_lane_ptr[fu] + distance)) = distance
         /\ \A lane \in LanesOf(fu) : distance <= Wait(fu, lane)
<1> DEFINE x == fu_lane_ptr[fu] + distance
<1>1. issue_width \in Nat \ {0} /\ fu_lane_ptr[fu] \in 0 .. issue_width - 1
  BY Constants DEF OptionsOK, MachineOK, LaneIds
<1>2. Distances(fu) \subseteq 1 .. issue_width
  BY DEF Distances
<1>3. \E d \in Distances(fu) : \A e \in Distances(fu) : d <= e
  <2>1. Distances(fu) \subseteq Nat
    BY <1>1, <1>2
  <2> QED BY <2>1, Least
<1>4. distance \in Distances(fu) /\ \A e \in Distances(fu) : distance <= e
  BY <1>3, Zenon
<1>5. distance \in 1 .. issue_width /\ x \in 0 .. 2 * issue_width - 1
  BY <1>1, <1>2, <1>4
<1>7. Wrapped(x) \in LaneIds /\ Wait(fu, Wrapped(x)) = distance
  BY <1>1, <1>5, WaitAfter
<1>8. Wrapped(x) \in fu_lane_matrix[fu]
  BY <1>4 DEF Distances
<1>9. ASSUME NEW lane \in LanesOf(fu)
      PROVE  distance <= Wait(fu, lane)
  <2>1. lane \in LaneIds /\ lane \in fu_lane_matrix[fu]
    BY DEF LanesOf
  <2>2. Wait(fu, lane) \in Distances(fu)
    BY <2>1, WaitType DEF Distances
  <2> QED BY <1>4, <2>2
<1> QED BY <1>7, <1>8, <1>9 DEF LanesOf

\* The lane that had its turn goes to the end of the round.
LEMMA SteerStep ==
  ASSUME IInv, NEW fu \in FuTypes, steer(fu)
  PROVE  IInv'
<1> DEFINE distance == CHOOSE d \in Distances(fu) : \A e \in Distances(fu) : d <= e
           lane_id == Wrapped(fu_lane_ptr[fu] + distance)
<1>1. /\ status = "running" /\ UNCHANGED <<lanes, mdp, MDP, ex_depth>>
      /\ OptionsOK /\ FlagsOK /\ MachineOK
  BY DEF steer, IInv
<1>2. UNCHANGED <<issue_width, fu_lane_matrix, fu_lat, flags, mdp_options>>
  BY <1>1 DEF lanes, mdp
<1>3. OptionsOK' /\ FlagsOK'
  BY <1>1, <1>2 DEF OptionsOK, FlagsOK
<1>4. CASE Distances(fu) = {}
  <2>1. status' = "assertion"
    BY <1>4 DEF steer
  <2> QED BY <1>3, <2>1 DEF IInv
<1>5. CASE Distances(fu) # {}
  <2>0. /\ lane_id \in LanesOf(fu) /\ Wait(fu, lane_id) = distance
        /\ \A lane \in LanesOf(fu) : distance <= Wait(fu, lane)
    BY <1>1, <1>5, NextTurn
  <2>1. PICK last \in LanesOf(fu) :
          /\ last = lane_id
          /\ \A lane \in LanesOf(fu) : Wait(fu, last) <= Wait(fu, lane)
    BY <2>0
  <2>2. /\ fu_lane_ptr' = [fu_lane_ptr EXCEPT ![fu] = last]
        /\ steered' = [steered EXCEPT ![fu][last] = @ + 1]
    BY <1>5, <2>1 DEF steer, MovedPtr
  <2> HIDE DEF distance, lane_id
  <2>3. /\ LaneIds' = LaneIds /\ last \in LaneIds /\ last \in fu_lane_matrix[fu]
        /\ issue_width \in Nat \ {0} /\ LaneIds = 0 .. issue_width - 1
        /\ fu_lane_ptr \in [FuTypes -> LaneIds]
        /\ steered \in [FuTypes -> [LaneIds -> Nat]]
        /\ \A unit \in FuTypes : LanesOf(unit)' = LanesOf(unit)
    BY <1>1, <1>2, <2>1, Constants DEF LaneIds, LanesOf, OptionsOK, MachineOK
  <2>4. /\ fu_lane_ptr' \in [FuTypes -> LaneIds]
        /\ fu_lane_ptr'[fu] = last
        /\ \A unit \in FuTypes \ {fu} : /\ fu_lane_ptr'[unit] = fu_lane_ptr[unit]
                                        /\ steered'[unit] = steered[unit]
        /\ steered' \in [FuTypes -> [LaneIds -> Nat]]
        /\ steered'[fu][last] = steered[fu][last] + 1
        /\ \A lane \in LaneIds \ {last} : steered'[fu][lane] = steered[fu][lane]
    BY <2>2, <2>3
  <2>5. ASSUME NEW unit \in FuTypes, unit # fu
        PROVE  Turns(unit)'
    <3>1. \A lane \in LaneIds : Wait(unit, lane)' = Wait(unit, lane)
      BY <1>2, <2>4, <2>5 DEF Wait
    <3>2. LanesOf(unit)' = LanesOf(unit) /\ LanesOf(unit) \subseteq LaneIds
      BY <2>3 DEF LanesOf
    <3>3. /\ \A lane \in LaneIds \ fu_lane_matrix[unit] : steered'[unit][lane] = 0
          /\ \A a, b \in LanesOf(unit) :
               /\ steered'[unit][a] <= steered'[unit][b] + 1
               /\ Wait(unit, a) < Wait(unit, b) => steered'[unit][a] <= steered'[unit][b]
      BY <1>1, <2>4, <2>5 DEF MachineOK, Turns
    <3> QED BY <1>2, <2>3, <3>1, <3>2, <3>3 DEF Turns
  <2>6. Turns(fu)'
    <3>1. ASSUME NEW lane \in LaneIds
          PROVE  /\ Wait(fu, lane) \in 1 .. issue_width
                 /\ steered[fu][lane] \in Nat
                 /\ lane = last => Wait(fu, lane)' = issue_width
                 /\ lane # last /\ Wait(fu, lane) > Wait(fu, last) =>
                      Wait(fu, lane)' = Wait(fu, lane) - Wait(fu, last)
      <4>1. /\ Wait(fu, lane) \in 1 .. issue_width
            /\ fu_lane_ptr[fu] \in 0 .. issue_width - 1
            /\ lane \in 0 .. issue_width - 1 /\ last \in 0 .. issue_width - 1
        BY <1>1, <2>3, WaitType
      <4>2. Wait(fu, lane)' = IF lane > last THEN lane - last ELSE lane + issue_width - last
        BY <1>2, <2>4 DEF Wait
      <4>3. steered[fu][lane] \in Nat
        BY <2>3
      <4>4. lane = last => Wait(fu, lane)' = issue_width
        BY <2>3, <4>1, <4>2
      <4>5. ASSUME lane # last, Wait(fu, lane) > Wait(fu, last)
            PROVE  Wait(fu, lane)' = Wait(fu, lane) - Wait(fu, last)
        BY <2>3, <4>1, <4>2, <4>5 DEF Wait
      <4> QED BY <4>1, <4>3, <4>4, <4>5
    <3>2. \A a, b \in LaneIds : Wait(fu, a) = Wait(fu, b) => a = b
      BY <1>1, WaitType
    <3>3. \A lane \in LanesOf(fu) \ {last} :
            /\ lane \in LaneIds
            /\ Wait(fu, last) < Wait(fu, lane)
            /\ Wait(fu, lane)' = Wait(fu, lane) - Wait(fu, last)
            /\ Wait(fu, lane)' \in Int /\ Wait(fu, lane)' < issue_width
            /\ steered'[fu][lane] = steered[fu][lane] /\ steered[fu][lane] \in Nat
            /\ steered[fu][last] <= steered[fu][lane]
            /\ steered[fu][lane] <= steered[fu][last] + 1
      <4> SUFFICES ASSUME NEW lane \in LanesOf(fu) \ {last}
                   PROVE  /\ lane \in LaneIds
                          /\ Wait(fu, last) < Wait(fu, lane)
                          /\ Wait(fu, lane)' = Wait(fu, lane) - Wait(fu, last)
                          /\ Wait(fu, lane)' \in Int /\ Wait(fu, lane)' < issue_width
                          /\ steered'[fu][lane] = steered[fu][lane] /\ steered[fu][lane] \in Nat
                          /\ steered[fu][last] <= steered[fu][lane]
                          /\ steered[fu][lane] <= steered[fu][last] + 1
        OBVIOUS
      <4>1. lane \in LaneIds /\ lane # last
        BY DEF LanesOf
      <4>2. Wait(fu, last) <= Wait(fu, lane) /\ Wait(fu, last) # Wait(fu, lane)
        BY <2>1, <2>3, <3>2, <4>1
      <4>3. /\ Wait(fu, lane) \in 1 .. issue_width /\ Wait(fu, last) \in 1 .. issue_width
            /\ steered[fu][lane] \in Nat
        BY <2>3, <3>1, <4>1
      <4>4. Wait(fu, last) < Wait(fu, lane)
        BY <4>2, <4>3
      <4>5. Wait(fu, lane)' = Wait(fu, lane) - Wait(fu, last)
        BY <3>1, <4>1, <4>4
      <4>6. Wait(fu, lane)' \in Int /\ Wait(fu, lane)' < issue_width
        BY <2>3, <4>3, <4>5
      <4>7. /\ steered[fu][last] <= steered[fu][lane]
            /\ steered[fu][lane] <= steered[fu][last] + 1
        BY <1>1, <2>1, <4>4 DEF MachineOK, Turns
      <4> QED BY <2>4, <4>1, <4>3, <4>4, <4>5, <4>6, <4>7
    <3>4. /\ Wait(fu, last)' = issue_width
          /\ steered'[fu][last] = steered[fu][last] + 1 /\ steered[fu][last] \in Nat
      <4>1. Wait(fu, last)' = issue_width /\ steered[fu][last] \in Nat
        BY <2>3, <3>1
      <4> QED BY <2>4, <4>1
    <3>5. \A lane \in LaneIds \ fu_lane_matrix[fu] : steered'[fu][lane] = 0
      BY <1>1, <2>3, <2>4 DEF MachineOK, Turns
    <3>6. ASSUME NEW a \in LanesOf(fu), NEW b \in LanesOf(fu)
          PROVE  /\ steered'[fu][a] <= steered'[fu][b] + 1
                 /\ Wait(fu, a)' < Wait(fu, b)' => steered'[fu][a] <= steered'[fu][b]
      <4>1. CASE a = last /\ b = last
        BY <2>3, <3>4, <4>1
      <4>2. CASE a = last /\ b # last
        <5>1. /\ Wait(fu, b)' \in Int /\ Wait(fu, b)' < issue_width
              /\ steered'[fu][b] = steered[fu][b] /\ steered[fu][b] \in Nat
              /\ steered[fu][last] <= steered[fu][b]
          BY <3>3, <4>2
        <5>2. Wait(fu, a)' = issue_width /\ steered'[fu][a] = steered[fu][last] + 1
          BY <3>4, <4>2
        <5> QED BY <2>3, <3>4, <5>1, <5>2
      <4>3. CASE a # last /\ b = last
        BY <3>3, <3>4, <4>3
      <4>4. CASE a # last /\ b # last
        <5>1. /\ steered[fu][a] <= steered[fu][b] + 1
              /\ Wait(fu, a) < Wait(fu, b) => steered[fu][a] <= steered[fu][b]
          BY <1>1 DEF MachineOK, Turns
        <5>2. /\ Wait(fu, a) \in Int /\ Wait(fu, b) \in Int /\ Wait(fu, last) \in Int
          BY <2>3, <3>1, <3>3, <4>4
        <5>3. Wait(fu, a)' < Wait(fu, b)' => Wait(fu, a) < Wait(fu, b)
          BY <3>3, <4>4, <5>2
        <5> QED BY <3>3, <4>4, <5>1, <5>3
      <4> QED BY <4>1, <4>2, <4>3, <4>4
    <3> QED BY <1>2, <2>3, <3>5, <3>6 DEF Turns
  <2>7. MachineOK'
    <3>1. \A lane \in LaneIds : Depth(lane)' = Depth(lane)
      BY <1>2 DEF Depth
    <3>2. MDP' = Built'
      BY <1>1, <1>2 DEF MachineOK, Built
    <3>3. \A unit \in FuTypes : Turns(unit)'
      BY <2>5, <2>6
    <3> QED BY <1>1, <2>3, <2>4, <3>1, <3>2, <3>3 DEF MachineOK
  <2> QED BY <1>3, <2>7 DEF IInv
<1> QED BY <1>4, <1>5

-----------------------------------------------------------------------------
(* The other steps *)

LEMMA OptionStep ==
  ASSUME status' \in {"options", "exit"}, OptionsOK', FlagsOK'
  PROVE  IInv'
BY DEF IInv

LEMMA LaneOptionSteps ==
  ASSUME IInv,
         \/ \E n \in 1 .. MaxWidth : OptionWidth(n)
         \/ \E matrix \in Matrices : set_lane_matrix(matrix)
         \/ \E latencies \in Latencies, given \in 0 .. NumberFuTypes :
              set_lane_latencies(latencies, given)
         \/ OptionPresteer
         \/ \E width \in {issue_width, MaxWidth} : OptionUniversal(width)
  PROVE  IInv'
<1>1. /\ OptionsOK /\ FlagsOK
      /\ MaxWidth \in Nat \ {0}
      /\ Matrices \subseteq [FuTypes -> SUBSET LaneBits]
      /\ Latencies \subseteq [FuTypes -> Nat]
  BY Constants DEF IInv
<1>2. status' = "options" /\ UNCHANGED <<flags, mdp_options>>
  BY DEF OptionWidth, set_lane_matrix, set_lane_latencies, OptionPresteer,
         OptionUniversal, mdp
<1>3. FlagsOK'
  BY <1>1, <1>2 DEF FlagsOK
<1>4. CASE \E n \in 1 .. MaxWidth : OptionWidth(n)
  <2>1. OptionsOK'
    BY <1>1, <1>4 DEF OptionWidth, OptionsOK
  <2> QED BY <1>2, <1>3, <2>1, OptionStep
<1>5. CASE \E matrix \in Matrices : set_lane_matrix(matrix)
  <2>1. OptionsOK'
    BY <1>1, <1>5 DEF set_lane_matrix, OptionsOK
  <2> QED BY <1>2, <1>3, <2>1, OptionStep
<1>6. CASE \E latencies \in Latencies, given \in 0 .. NumberFuTypes :
             set_lane_latencies(latencies, given)
  <2>1. PICK latencies \in Latencies, given \in 0 .. NumberFuTypes :
          set_lane_latencies(latencies, given)
    BY <1>6
  <2>2. latencies \in [FuTypes -> Nat]
    BY <1>1
  <2>3. OptionsOK'
    BY <1>1, <2>1, <2>2 DEF set_lane_latencies, OptionsOK
  <2> QED BY <1>2, <1>3, <2>3, OptionStep
<1>8. CASE OptionPresteer
  <2>1. OptionsOK'
    BY <1>1, <1>8 DEF OptionPresteer, OptionsOK
  <2> QED BY <1>2, <1>3, <2>1, OptionStep
<1>7. CASE \E width \in {issue_width, MaxWidth} : OptionUniversal(width)
  <2>1. Universal \in [FuTypes -> SUBSET LaneBits] /\ OneCycle \in [FuTypes -> Nat]
    BY DEF Universal, OneCycle
  <2>2. OptionsOK'
    BY <1>1, <1>7, <2>1 DEF OptionUniversal, OptionsOK
  <2> QED BY <1>2, <1>3, <2>2, OptionStep
<1> QED BY <1>4, <1>5, <1>6, <1>7, <1>8

\* An --mdp adds to what earlier ones left; the first finds nothing.
LEMMA PredictorOptionSteps ==
  ASSUME IInv,
         \/ \E model \in MdpModels, max \in CtrValues : set_mdp_flags(model, max)
         \/ \E size \in TableSizes : set_store_set_flags(size)
  PROVE  IInv'
<1>1. OptionsOK /\ FlagsOK /\ MdpModels \subseteq Nat
  BY ConfigurationAssumption DEF IInv
<1>2. status' \in {"options", "exit"} /\ UNCHANGED <<issue_width, fu_lane_matrix, fu_lat>>
  BY DEF set_mdp_flags, set_store_set_flags, lanes
<1>3. OptionsOK'
  BY <1>1, <1>2 DEF OptionsOK
<1>4. ASSUME NEW model \in MdpModels, NEW max \in CtrValues, set_mdp_flags(model, max)
      PROVE  FlagsOK'
  <2>1. /\ mdp_options' = mdp_options + 1 /\ mdp_options \in Nat /\ model \in Nat
        /\ flags' = (flags \ ClearedFlags) \cup ModelFlags(model)
    BY <1>1, <1>4 DEF set_mdp_flags, FlagsOK
  <2>2. mdp_options = 0 => flags' = ModelFlags(model)
    BY <1>1, <2>1 DEF FlagsOK
  <2>3. mdp_options' \in Nat /\ mdp_options' # 0 /\ (mdp_options' = 1 => mdp_options = 0)
    BY <2>1
  <2>4. (\E m \in Nat : flags = ModelFlags(m))' <=> \E m \in Nat : flags' = ModelFlags(m)
    BY DEF ModelFlags
  <2>5. /\ "ORACLE_DISAMBIG" \in flags' => "ORACLE_MDP" \in flags'
        /\ "ALWAYS_PREDICT_CONFLICT" \in flags' => "STORE_SETS" \in flags'
    BY <1>1, <2>1 DEF FlagsOK, ClearedFlags, ModelFlags
  <2> QED BY <2>1, <2>2, <2>3, <2>4, <2>5 DEF FlagsOK
<1>5. ASSUME NEW size \in TableSizes, set_store_set_flags(size)
      PROVE  FlagsOK'
  BY <1>1, <1>5 DEF set_store_set_flags, FlagsOK
<1> QED BY <1>2, <1>3, <1>4, <1>5, OptionStep

LEMMA ConstructStep ==
  ASSUME IInv, Construct
  PROVE  IInv'
<1>1. /\ OptionsOK /\ FlagsOK
      /\ UNCHANGED <<issue_width, fu_lane_matrix, fu_lat, flags, mdp_options>>
  BY DEF IInv, Construct, lanes, mdp
<1>2. OptionsOK' /\ FlagsOK'
  BY <1>1 DEF OptionsOK, FlagsOK
<1>3. ASSUME status' = "running"
      PROVE  MachineOK'
  <2>1. /\ \A lane \in LaneIds : Depth(lane) # {}
        /\ ex_depth' = [lane \in LaneIds |-> CHOOSE depth \in Depth(lane) : TRUE]
        /\ MDP' = Built
        /\ fu_lane_ptr' = [fu \in FuTypes |-> 0]
        /\ steered' = [fu \in FuTypes |-> [lane \in LaneIds |-> 0]]
    BY <1>3 DEF Construct
  <2>2. LaneIds' = LaneIds /\ 0 \in LaneIds
    BY <1>1, Constants DEF LaneIds, OptionsOK
  <2>3. ASSUME NEW lane \in LaneIds
        PROVE  ex_depth'[lane] \in Depth(lane)'
    <3>1. ex_depth'[lane] = CHOOSE depth \in Depth(lane) : TRUE
      BY <2>1
    <3>2. (CHOOSE depth \in Depth(lane) : TRUE) \in Depth(lane)
      BY <2>1
    <3>3. Depth(lane)' = Depth(lane)
      BY <1>1 DEF Depth
    <3> QED BY <3>1, <3>2, <3>3
  <2>4. MDP' = Built'
    BY <1>1, <2>1 DEF Built
  <2>5. /\ fu_lane_ptr' \in [FuTypes -> LaneIds]
        /\ steered' \in [FuTypes -> [LaneIds -> Nat]]
        /\ \A fu \in FuTypes, lane \in LaneIds : steered'[fu][lane] = 0
    BY <2>1, <2>2
  <2>6. ASSUME NEW fu \in FuTypes
        PROVE  Turns(fu)'
    <3>1. LanesOf(fu)' \subseteq LaneIds
      BY <2>2 DEF LanesOf
    <3> QED BY <2>2, <2>5, <3>1 DEF Turns
  <2> QED BY <2>2, <2>3, <2>4, <2>5, <2>6 DEF MachineOK
<1> QED BY <1>2, <1>3 DEF IInv

LEMMA StutterStep ==
  ASSUME IInv, UNCHANGED vars
  PROVE  IInv'
<1> USE DEF vars, lanes, mdp, machine
<1>1. OptionsOK' <=> OptionsOK
  BY DEF OptionsOK
<1>2. FlagsOK' <=> FlagsOK
  BY DEF FlagsOK
<1>3. MachineOK' <=> MachineOK
  BY DEF MachineOK, Depth, Built, Turns, LanesOf, LaneIds, Wait
<1> QED BY <1>1, <1>2, <1>3 DEF IInv

-----------------------------------------------------------------------------
(* The inductive invariant: lanes and units are in their ranges, one --mdp *)
(* leaves the flags of its model and any number some flags together, and a *)
(* machine that runs was built from the options and deals out turns        *)
(* (main.cc, pipeline.cc:226-356, dispatch.cc:430-453).                    *)
THEOREM Invariance == Spec => []IInv
<1>1. Init => IInv
  BY Constants DEF Init, IInv, OptionsOK, FlagsOK
<1>2. IInv /\ [Next]_vars => IInv'
  <2> SUFFICES ASSUME IInv, [Next]_vars
               PROVE  IInv'
    OBVIOUS
  <2>1. CASE \/ \E n \in 1 .. MaxWidth : OptionWidth(n)
             \/ \E matrix \in Matrices : set_lane_matrix(matrix)
             \/ \E latencies \in Latencies, given \in 0 .. NumberFuTypes :
                  set_lane_latencies(latencies, given)
             \/ OptionPresteer
             \/ \E width \in {issue_width, MaxWidth} : OptionUniversal(width)
    BY <2>1, LaneOptionSteps
  <2>2. CASE \/ \E model \in MdpModels, max \in CtrValues : set_mdp_flags(model, max)
             \/ \E size \in TableSizes : set_store_set_flags(size)
    BY <2>2, PredictorOptionSteps
  <2>3. CASE Construct
    BY <2>3, ConstructStep
  <2>4. CASE \E fu \in FuTypes : steer(fu)
    BY <2>4, SteerStep
  <2>5. CASE UNCHANGED vars
    BY <2>5, StutterStep
  <2> QED BY <2>1, <2>2, <2>3, <2>4, <2>5 DEF Next
<1> QED BY <1>1, <1>2, PTL DEF Spec

\* steer() spreads the instructions of a unit over its lanes to within one of
\* each other, whatever other units do and however the lanes are shared
\* (dispatch.cc:430-453).
THEOREM Spread == Spec => []Balanced
<1>1. IInv => Balanced
  BY DEF IInv, MachineOK, Balanced, Turns, LanesOf
<1> QED BY <1>1, Invariance, PTL

\* A machine that the constructor accepted has one latency for each lane, more
\* than 0, which is that of every unit in it that has one (pipeline.cc:258-290),
\* whatever matrix and latencies the options leave.
THEOREM OneLatency == Spec => []SingleLatency
<1>1. ASSUME IInv, status = "running", NEW lane \in LaneIds
      PROVE  /\ ex_depth[lane] > 0
             /\ \A fu \in FuTypes :
                  lane \in fu_lane_matrix[fu] /\ fu_lat[fu] > 0 => ex_depth[lane] = fu_lat[fu]
  <2> DEFINE units == {unit \in FuTypes : lane \in fu_lane_matrix[unit]}
             counted == {unit \in units : \E first \in units : first <= unit /\ fu_lat[first] > 0}
             latencies == {fu_lat[unit] : unit \in counted}
  <2>1. ex_depth[lane] \in Depth(lane)
    BY <1>1 DEF IInv, MachineOK
  <2>2. Cardinality(latencies) = 1 /\ ex_depth[lane] \in latencies
    BY <2>1 DEF Depth
  <2>3. IsFiniteSet(latencies)
    <3>1. IsFiniteSet(FuTypes)
      BY Constants, FS_Interval DEF FuTypes
    <3>2. IsFiniteSet(counted)
      BY <3>1, FS_Subset
    <3> DEFINE f == [unit \in counted |-> fu_lat[unit]]
    <3>3. f \in Surjection(counted, latencies)
      BY DEF Surjection
    <3> QED BY <3>2, <3>3, FS_Surjection
  <2>4. PICK latency : latencies = {latency}
    BY <2>2, <2>3, FS_Singleton
  <2>5. ASSUME NEW fu \in units, fu_lat[fu] > 0
        PROVE  ex_depth[lane] = fu_lat[fu]
    <3>1. fu \in counted
      BY <2>5 DEF FuTypes
    <3> QED BY <2>2, <2>4, <3>1
  <2>6. \E first \in units : fu_lat[first] > 0
    BY <2>2
  <2> QED BY <2>5, <2>6
<1>2. IInv => SingleLatency
  BY <1>1 DEF SingleLatency
<1> QED BY <1>2, Invariance, PTL

\* A machine whose log says that loads wait in the issue queue has a predictor
\* that makes them wait there, however often --mdp was given; and with one --mdp
\* at most the log says so if it has (pipeline.cc:240-245, 329-356), for every
\* model.
THEOREM LogRight == Spec => []PrintedIsBuilt
<1>1. ASSUME NEW model \in Nat, flags = {} \/ flags = ModelFlags(model), Built # "none"
      PROVE  PrintedAtIq
  <2>1. CASE model \in 1 .. 3
    <3>1. "STORE_SETS" \notin flags /\ "ORACLE_MDP" \notin flags
      BY <1>1, <2>1 DEF ModelFlags
    <3> QED BY <1>1, <3>1 DEF Built
  <2>4. CASE model = 4
    BY <1>1, <2>4 DEF ModelFlags, PrintedAtIq, Printed, Built
  <2>5. CASE model = 5
    BY <1>1, <2>5 DEF ModelFlags, PrintedAtIq, Printed, Built
  <2>6. CASE model = 6
    BY <1>1, <2>6 DEF ModelFlags, PrintedAtIq, Printed, Built
  <2>7. CASE model \notin 1 .. 6
    <3>1. flags = {}
      BY <1>1, <2>7 DEF ModelFlags
    <3> QED BY <1>1, <3>1 DEF Built
  <2> QED BY <2>1, <2>4, <2>5, <2>6, <2>7
<1>2. ASSUME FlagsOK, PrintedAtIq
      PROVE  Built # "none"
  <2>1. "ORACLE_DISAMBIG" \in flags \/ "ALWAYS_PREDICT_CONFLICT" \in flags \/ "STORE_SETS" \in flags
    BY <1>2 DEF PrintedAtIq, Printed
  <2> QED BY <1>2, <2>1 DEF FlagsOK, Built
<1>3. ASSUME IInv, status = "running"
      PROVE  /\ PrintedAtIq => MDP # "none"
             /\ MDP # "none" => PrintedAtIq \/ mdp_options > 1
  <2>1. MDP = Built /\ FlagsOK
    BY <1>3 DEF IInv, MachineOK
  <2>2. PrintedAtIq => MDP # "none"
    BY <1>2, <2>1
  <2>3. ASSUME MDP # "none", ~(mdp_options > 1)
        PROVE  PrintedAtIq
    <3>1. PICK model \in Nat : flags = {} \/ flags = ModelFlags(model)
      BY <2>1, <2>3 DEF FlagsOK
    <3> QED BY <1>1, <2>1, <2>3, <3>1
  <2> QED BY <2>2, <2>3
<1>4. IInv => PrintedIsBuilt
  BY <1>3 DEF PrintedIsBuilt
<1> QED BY <1>4, Invariance, PTL

=============================================================================
