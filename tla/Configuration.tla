----------------------------- MODULE Configuration -----------------------------
(***************************************************************************)
(* From the options to the machine: which units the options put into which *)
(* execution lane, which memory dependence predictor they ask for, what    *)
(* the constructor of the pipeline accepts, builds and prints, and how,    *)
(* with -a, steer() then spreads the instructions of a functional unit     *)
(* over its lanes.                                                         *)
(***************************************************************************)
EXTENDS Integers, FiniteSets

CONSTANTS
  NumberFuTypes, \* NUMBER_FU_TYPES
  MaxWidth,      \* widest machine; -L configures it
  Matrices,      \* what --lane may configure: for each unit the bits that are set
  Latencies,     \* what --lat may configure: for each unit a number of cycles
  MdpModels,     \* numbers given to --mdp, sensible or not
  CtrValues,     \* maximum counters given to --mdp
  TableSizes,    \* sizes of SSIT and LFST given to --store-set; 1 is that of model 6
  DefaultSize,
  MaxMdpOptions, \* bound on the occurrences of --mdp
  MaxSteered     \* bound on the instructions steered

FuTypes == 0 .. NumberFuTypes - 1
LaneBits == 0 .. MaxWidth - 1
Universal == [fu \in FuTypes |-> LaneBits]
OneCycle == [fu \in FuTypes |-> 1]

ASSUME ConfigurationAssumption ==
  /\ {NumberFuTypes, MaxWidth} \subseteq Nat \ {0}
  /\ Matrices \subseteq [FuTypes -> SUBSET LaneBits]
  /\ Latencies \subseteq [FuTypes -> Nat]
  /\ MdpModels \subseteq Nat /\ CtrValues \subseteq Nat /\ TableSizes \subseteq Nat
  /\ {DefaultSize, MaxMdpOptions, MaxSteered} \subseteq Nat

VARIABLES
  issue_width, fu_lane_matrix, fu_lat,
  PRESTEER,    \* Dispatch picks the lanes, not the issue queue
  flags,       \* of the flags of parameters.h about memory dependences, those set
  MDP_MAX,
  table_size,  \* SSIT_SIZE and LFST_SIZE
  mdp_options, \* occurrences of --mdp
  MDP,         \* the predictor that was built
  ex_depth,    \* of each lane, when the machine is running
  fu_lane_ptr, \* for each unit the lane its last instruction went to
  steered,     \* history: instructions of each unit steered to each lane
  status       \* "options", "running", "exit" or "assertion"

lanes == <<issue_width, fu_lane_matrix, fu_lat, PRESTEER>>
mdp == <<flags, MDP_MAX, table_size, mdp_options>>
machine == <<MDP, ex_depth, fu_lane_ptr, steered>>
vars == <<lanes, mdp, machine, status>>

LaneIds == 0 .. issue_width - 1

-----------------------------------------------------------------------------
(* The options, in any order and repeated *)

\* --iw
OptionWidth(n) ==
  /\ status = "options"
  /\ issue_width' = n
  /\ UNCHANGED <<fu_lane_matrix, fu_lat, PRESTEER, mdp, machine, status>>

\* --lane
set_lane_matrix(matrix) ==
  /\ status = "options"
  /\ fu_lane_matrix' = matrix
  /\ UNCHANGED <<issue_width, fu_lat, PRESTEER, mdp, machine, status>>

\* --lat; of too few numbers there is a warning, and those given count.
set_lane_latencies(latencies, given) ==
  /\ status = "options"
  /\ fu_lat' = [fu \in FuTypes |-> IF fu < given THEN latencies[fu] ELSE fu_lat[fu]]
  /\ UNCHANGED <<issue_width, fu_lane_matrix, PRESTEER, mdp, machine, status>>

\* -a
OptionPresteer ==
  /\ status = "options"
  /\ PRESTEER' = TRUE
  /\ UNCHANGED <<issue_width, fu_lane_matrix, fu_lat, mdp, machine, status>>

\* -u, and -L, which also sets the width
OptionUniversal(width) ==
  /\ status = "options"
  /\ issue_width' = width
  /\ fu_lane_matrix' = Universal
  /\ fu_lat' = OneCycle
  /\ UNCHANGED <<PRESTEER, mdp, machine, status>>

\* the flags that every --mdp starts by clearing
ClearedFlags == {"ORACLE_DISAMBIG", "SPEC_DISAMBIG", "MEM_DEP_PRED", "MDP_STICKY"}

Flags == ClearedFlags \cup {"ORACLE_MDP", "STORE_SETS", "ALWAYS_PREDICT_CONFLICT"}

ModelFlags(model) ==
  CASE model = 1 -> {"SPEC_DISAMBIG"}
    [] model = 2 -> {"SPEC_DISAMBIG", "MEM_DEP_PRED", "MDP_STICKY"}
    [] model = 3 -> {"SPEC_DISAMBIG", "MEM_DEP_PRED"}
    [] model = 4 -> {"ORACLE_DISAMBIG", "ORACLE_MDP"}
    [] model = 5 -> {"SPEC_DISAMBIG", "MEM_DEP_PRED", "STORE_SETS"}
    [] model = 6 -> {"SPEC_DISAMBIG", "MEM_DEP_PRED", "STORE_SETS", "ALWAYS_PREDICT_CONFLICT"}
    [] OTHER -> {}

\* --mdp
set_mdp_flags(model, max) ==
  /\ status = "options" /\ mdp_options < MaxMdpOptions
  /\ mdp_options' = mdp_options + 1
  /\ flags' = (flags \ ClearedFlags) \cup ModelFlags(model)
  /\ MDP_MAX' = IF model = 2 THEN 1 ELSE max
  /\ table_size' = IF model = 6 THEN 1 ELSE table_size
  /\ status' = IF model > 6 \/ (model = 3 /\ max = 0) THEN "exit" ELSE status
  /\ UNCHANGED <<lanes, machine>>

\* --store-set
set_store_set_flags(size) ==
  /\ status = "options"
  /\ table_size' = size
  /\ UNCHANGED <<lanes, flags, MDP_MAX, mdp_options, machine, status>>

-----------------------------------------------------------------------------
(* The constructor of the pipeline and its log *)

\* Mutant: the units of a lane are not compared with each other
FirstDepth(lane) ==
  LET units == {fu \in FuTypes : lane \in fu_lane_matrix[fu]}
  IN IF units = {} THEN {} ELSE {fu_lat[fu] : fu \in units} \ {0}

\* The depth of a lane, in a set, which is empty when the lane is refused: units
\* are looked at in order, and one without latency does not count as long as no
\* other came before.
Depth(lane) ==
  LET units == {fu \in FuTypes : lane \in fu_lane_matrix[fu]}
      counted == {fu \in units : \E first \in units : first <= fu /\ fu_lat[first] > 0}
      latencies == {fu_lat[fu] : fu \in counted}
  IN IF Cardinality(latencies) = 1 THEN latencies ELSE {}

\* Mutant: no predictor for the oracle, as in "Old Oracle MDP"
BuiltForStoreSets == IF "STORE_SETS" \in flags THEN "StoreSets" ELSE "none"

Built ==
  IF "STORE_SETS" \in flags THEN "StoreSets"
  ELSE IF "ORACLE_MDP" \in flags THEN "Oracle" ELSE "none"

\* the line "MEMORY DEPENDENCE PREDICTOR" of the log, as the number of a model
Printed ==
  IF "ORACLE_DISAMBIG" \in flags THEN 4
  ELSE IF "SPEC_DISAMBIG" \notin flags THEN 0
  ELSE IF "MEM_DEP_PRED" \notin flags THEN 1
  ELSE IF "MDP_STICKY" \in flags THEN 2
  ELSE IF "ALWAYS_PREDICT_CONFLICT" \in flags THEN 6
  ELSE IF "STORE_SETS" \in flags THEN 5
  ELSE 3

\* "Loads synchronize (stall/unstall) at: IQ"
PrintedAtIq == Printed \in {4, 5, 6}

\* pipeline_t::pipeline_t()
Construct ==
  /\ status = "options"
  /\ IF \E lane \in LaneIds : Depth(lane) = {}
     THEN status' = "exit" /\ UNCHANGED ex_depth
     ELSE /\ status' = "running"
          /\ ex_depth' = [lane \in LaneIds |-> CHOOSE depth \in Depth(lane) : TRUE]
  /\ MDP' = Built
  /\ fu_lane_ptr' = [fu \in FuTypes |-> 0]
  /\ steered' = [fu \in FuTypes |-> [lane \in LaneIds |-> 0]]
  /\ UNCHANGED <<lanes, mdp>>

-----------------------------------------------------------------------------
(* Dispatch *)

Wrapped(lane) == lane % issue_width

\* the distances from the last lane at which the search succeeds
Distances(fu) ==
  {d \in 1 .. issue_width : Wrapped(fu_lane_ptr[fu] + d) \in fu_lane_matrix[fu]}

\* Mutant: one pointer for all units
SharedPtr(fu, lane) == [unit \in FuTypes |-> lane]

MovedPtr(fu, lane) == [fu_lane_ptr EXCEPT ![fu] = lane]

\* Dispatch calls it with PRESTEER only (dispatch.cc:116); otherwise the issue
\* queue gets all lanes of the unit and picks one.
steer(fu) ==
  LET distance == CHOOSE d \in Distances(fu) : \A e \in Distances(fu) : d <= e
      lane_id == Wrapped(fu_lane_ptr[fu] + distance)
  IN /\ status = "running" /\ PRESTEER
     /\ \A lane \in LaneIds : steered[fu][lane] < MaxSteered
     /\ IF Distances(fu) = {}
        THEN status' = "assertion" /\ UNCHANGED <<fu_lane_ptr, steered>>
        ELSE /\ fu_lane_ptr' = MovedPtr(fu, lane_id)
             /\ steered' = [steered EXCEPT ![fu][lane_id] = @ + 1]
             /\ UNCHANGED status
     /\ UNCHANGED <<lanes, mdp, MDP, ex_depth>>

-----------------------------------------------------------------------------
\* parameters.cc sets one of the matrices.
Init ==
  /\ issue_width = MaxWidth
  /\ fu_lane_matrix \in Matrices /\ fu_lat \in Latencies
  /\ PRESTEER = FALSE
  /\ flags = {} /\ MDP_MAX = 63 /\ table_size = DefaultSize
  /\ mdp_options = 0
  /\ MDP = "none"
  /\ ex_depth = [lane \in {} |-> 0]
  /\ fu_lane_ptr = [fu \in FuTypes |-> 0]
  /\ steered = [fu \in FuTypes |-> [lane \in LaneIds |-> 0]]
  /\ status = "options"

Next ==
  \/ \E n \in 1 .. MaxWidth : OptionWidth(n)
  \/ \E matrix \in Matrices : set_lane_matrix(matrix)
  \/ \E latencies \in Latencies, given \in 0 .. NumberFuTypes :
       set_lane_latencies(latencies, given)
  \/ OptionPresteer
  \/ \E width \in {issue_width, MaxWidth} : OptionUniversal(width)
  \/ \E model \in MdpModels, max \in CtrValues : set_mdp_flags(model, max)
  \/ \E size \in TableSizes : set_store_set_flags(size)
  \/ Construct
  \/ \E fu \in FuTypes : steer(fu)

Spec == Init /\ [][Next]_vars

-----------------------------------------------------------------------------
(* Properties *)

\* Whatever the order in which instructions of different units arrive, each unit
\* spreads its own evenly over the lanes that have it, and uses no other lane
\* (dispatch.cc:430-433).
Balanced ==
  status = "running" =>
    \A fu \in FuTypes, lane \in LaneIds :
      IF lane \in fu_lane_matrix[fu]
      THEN \A other \in LaneIds \cap fu_lane_matrix[fu] :
             steered[fu][lane] <= steered[fu][other] + 1
      ELSE steered[fu][lane] = 0

\* "so that a given lane has a single latency for all its FU types"
\* (pipeline.cc:276): the depth of the lane is the latency of each of its units
\* that has one.  The options accept a latency of 0, which the constructor takes
\* for a unit it has not seen yet (pipeline.cc:271): such a unit may share the
\* lane of one that takes longer, but no lane has a depth of 0.
SingleLatency ==
  status = "running" =>
    \A lane \in LaneIds :
      /\ ex_depth[lane] > 0
      /\ \A fu \in FuTypes :
           lane \in fu_lane_matrix[fu] /\ fu_lat[fu] > 0 => ex_depth[lane] = fu_lat[fu]

\* "assert(found)" (dispatch.cc:453): an instruction that Dispatch steers finds a
\* lane with its unit.
UnitFound == status # "assertion"

\* The log says that loads wait in the issue queue only if the predictor that
\* makes them wait there was built (pipeline.cc:240-245, 329-356), and always if
\* there was one --mdp at most.  Of several, the last clears neither ORACLE_MDP
\* nor STORE_SETS (main.cc:164-167): the predictor of an earlier one is built and
\* the log names another.
PrintedIsBuilt ==
  status = "running" =>
    /\ PrintedAtIq => MDP # "none"
    /\ MDP # "none" => PrintedAtIq \/ mdp_options > 1
=============================================================================
