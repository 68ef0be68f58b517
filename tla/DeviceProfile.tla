---------------------------- MODULE DeviceProfile ----------------------------
(***************************************************************************)
(* The device profile (core/src/device_profile.cc and its three platform   *)
(* backends) and the admission of a model at the beginning of Model::Load. *)
(* The profile is one cached value: its static part is read once, until    *)
(* RefreshDeviceProfile, its dynamic part on every query.  Meanwhile the   *)
(* memory that is left changes, and the OS may refuse to tell.             *)
(*                                                                         *)
(* Bytes are counted in small numbers; nothing ever writes thermal_state   *)
(* or low_power_mode, so MaxModelBytes never halves its budget.            *)
(***************************************************************************)
EXTENDS Integers

CONSTANTS Systems,      \* subset of {"android", "apple", "desktop"}
          TotalMemory,  \* total_memory_bytes
          Unknown,      \* the budget when detection failed (1 GiB in the code)
          MaxChanges    \* bound of the model: how often the memory changes

ASSUME ProfileAssumption ==
  /\ Systems \subseteq {"android", "apple", "desktop"}
  /\ TotalMemory \in Nat /\ Unknown \in Nat \ {0} /\ MaxChanges \in Nat

VARIABLES
  system,
  memory,       \* bytes the process could still allocate; negative: Apple's process is past its share
  readable,     \* the OS tells
  changes,
  initialized,  \* g_static_initialized
  available,    \* g_profile.available_memory_bytes
  providers,    \* g_profile.execution_providers, how often each one is listed
  modelBytes,   \* the model that Load is asked for: file_size_bytes, 0 when unknown
  budget,       \* Load: what MaxModelBytes returned
  readAt,       \* history: memory and readable when Load queried the profile
  lastTold,     \* history: what the OS told last when it was asked and told, or 0
  loading       \* Load: no, queried, admitted, rejected

profileVars == <<system, memory, readable, changes, initialized, available, providers,
                 modelBytes, budget, readAt, lastTold, loading>>

Readings == (-TotalMemory)..TotalMemory

DeviceInit ==
  /\ system \in Systems
  /\ memory \in IF system = "apple" THEN Readings ELSE 0..TotalMemory
  /\ readable \in BOOLEAN /\ changes = 0
  /\ initialized = FALSE /\ available = 0 /\ providers = [p \in {"accelerator", "cpu"} |-> 0]
  /\ modelBytes \in 0..TotalMemory
  /\ budget = 0 /\ readAt = [memory |-> 0, readable |-> FALSE] /\ lastTold = 0
  /\ loading = "no"

-----------------------------------------------------------------------------
MemoryChanges ==
  /\ changes < MaxChanges /\ changes' = changes + 1
  /\ memory' \in IF system = "apple" THEN Readings ELSE 0..TotalMemory
  /\ readable' \in BOOLEAN
  /\ UNCHANGED <<system, initialized, available, providers, modelBytes, budget, readAt,
                 lastTold, loading>>

\* The list is cleared first.
FillExecutionProviders ==
  [p \in DOMAIN providers |-> IF p = "accelerator" /\ system = "desktop" THEN 0 ELSE 1]

\* What is left to the process: Android reports 0 when it cannot tell, ...
AndroidAvailable == IF readable THEN memory ELSE 0

\* ... Apple guesses a quarter of the device's memory, and reports 0 for less than nothing, ...
AppleAvailable == IF ~readable THEN TotalMemory \div 4 ELSE IF memory > 0 THEN memory ELSE 0

\* ... and the desktop leaves the last reading alone.
DesktopAvailable == IF readable THEN memory ELSE available

FillDynamicInfo == CASE system = "android" -> AndroidAvailable
                     [] system = "apple"   -> AppleAvailable
                     [] system = "desktop" -> DesktopAvailable

\* kMemoryBudgetFraction of what is available.
MaxModelBytes(bytes) == IF bytes <= 0 THEN Unknown ELSE (bytes * 45) \div 100

\* GetDeviceProfile under its mutex, as called by Load, which keeps a copy.
LoadQueries ==
  /\ loading \in {"no", "rejected"}
  /\ providers' = IF initialized THEN providers ELSE FillExecutionProviders
  /\ initialized' = TRUE
  /\ available' = FillDynamicInfo
  /\ budget' = MaxModelBytes(available')
  /\ readAt' = [memory |-> memory, readable |-> readable]
  /\ lastTold' = IF readable THEN memory ELSE lastTold
  /\ loading' = "queried"
  /\ UNCHANGED <<system, memory, readable, changes, modelBytes>>

\* RefreshDeviceProfile, on FOREGROUND and on THERMAL_THROTTLING or LOW_POWER.
RefreshDeviceProfile ==
  /\ initialized' = FALSE
  /\ UNCHANGED <<system, memory, readable, changes, available, providers, modelBytes, budget,
                 readAt, lastTold, loading>>

\* Fault: a budget of nothing admits nothing, and the size is compared with the memory.
Exceeds_Memory == modelBytes > available

\* The condition that throws FLM_ERROR_MEMORY_PRESSURE.
Exceeds == modelBytes > 0 /\ budget > 0 /\ modelBytes > budget

LoadAdmits ==
  /\ loading = "queried"
  /\ loading' = IF Exceeds THEN "rejected" ELSE "admitted"
  /\ UNCHANGED <<system, memory, readable, changes, initialized, available, providers,
                 modelBytes, budget, readAt, lastTold>>

DeviceNext == MemoryChanges \/ LoadQueries \/ RefreshDeviceProfile \/ LoadAdmits

-----------------------------------------------------------------------------
Listed == \A p \in DOMAIN providers : providers[p] <= 1

\* What Load could know of the memory that was left: what the OS told when it was asked, or
\* else nothing, a guess, or what it told before.
Known == IF readAt.readable THEN readAt.memory
         ELSE CASE system = "android" -> 0
                [] system = "apple"   -> TotalMemory \div 4
                [] system = "desktop" -> lastTold

\* A model that is admitted fits into 45% of the memory that Load could know of, so that it
\* is the OS that decides, and a stale profile only where nothing newer is to be had.  In
\* two cases a fuller device admits more than an emptier one: an Apple process that is past
\* its share reports 0, which is taken for "detection failed", and a budget that rounds to
\* nothing is not compared at all (model.cc:230).  And a provider is never listed twice,
\* however often the profile is refreshed.
AdmissionFits ==
  /\ Listed
  /\ loading = "admitted" /\ modelBytes > 0 =>
       \/ modelBytes * 100 <= Known * 45
       \/ Known <= 0 /\ modelBytes <= Unknown
       \/ Known \in 1..2

-----------------------------------------------------------------------------
(* The inductive invariant of the admission.                               *)

ProfileTypeOK ==
  /\ system \in Systems
  /\ memory \in IF system = "apple" THEN Int ELSE Nat
  /\ readable \in BOOLEAN
  /\ available \in Nat /\ lastTold \in Int /\ budget \in Nat
  /\ providers \in [{"accelerator", "cpu"} -> 0..1]
  /\ modelBytes \in Nat
  /\ readAt \in [memory : Int, readable : BOOLEAN]
  /\ loading \in {"no", "queried", "admitted", "rejected"}

\* The profile holds what Load could know, never less than nothing, and the budget is that
\* profile's, until Load asks again.
Informed ==
  /\ system = "desktop" => available = lastTold
  /\ loading # "no" =>
       /\ available = IF Known > 0 THEN Known ELSE 0
       /\ budget = MaxModelBytes(available)
  /\ loading = "admitted" => ~(modelBytes > 0 /\ budget > 0 /\ modelBytes > budget)

ProfileInv == ProfileTypeOK /\ Informed
=============================================================================
