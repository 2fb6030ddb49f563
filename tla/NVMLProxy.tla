------------------------------ MODULE NVMLProxy ------------------------------
(***************************************************************************)
(* The NVIDIA platform proxy (src/bbque/pp/nvml_platform_proxy.cc): device *)
(* discovery through NVML in LoadPlatformData, the registration of every   *)
(* GPU with the resource accounter and in the proxy's per-type tables, the *)
(* queries on those tables, and Exit.                                      *)
(*                                                                         *)
(* ResourceManager::Setup calls LoadPlatformData once (a failure ends      *)
(* Setup and Go returns); EvtBbqExit calls Exit once; PlatformLifecycle    *)
(* composes the proxy with them.  NVML's answers are chosen                *)
(* nondeterministically.  A resource path "sys0.gpuN.pe0" or               *)
(* "sys0.gpuN.mem0" is abstracted to the pair of its kind and N, and       *)
(* br::ResourceType to the GPU type the proxy registers and one other.     *)
(***************************************************************************)
EXTENDS Naturals, Sequences, TLC

CONSTANTS
  MaxDevices,   \* the largest count nvmlDeviceGetCount reports
  NullPtr,      \* a null pointer returned or stored (a model value)
  Deleted       \* devices after `delete devices` (a model value)

ResourceTypes == {"GPU", "CPU"}

PePath(dev_id)  == <<"pe", dev_id>>
MemPath(dev_id) == <<"mem", dev_id>>

EmptyMap == [x \in {} |-> NullPtr]

\* std::map::insert: the key's existing entry, if any, is kept.
MapInsert(m, k, v) == m @@ (k :> v)

VARIABLES
  pp_pc,          \* "created", "loaded", "failed" (LoadPlatformData
                  \* returned an error) or "exited"
  nvml_up,        \* nvmlInit succeeded and nvmlShutdown was not called
  device_count,   \* NVMLPlatformProxy::device_count
  devices,        \* NVMLPlatformProxy::devices: NullPtr, Deleted, or for
                  \* each index whether nvmlDeviceGetHandleByIndex filled it
  device_ids,     \* ResourceTypeIDMap_t device_ids
  device_paths,   \* ResourceTypePathMap_t device_paths
  gpu_mem_paths,  \* DevPathMap_t gpu_mem_paths
  ra_registered   \* the proxy's paths registered with the ResourceAccounter

pp_vars == <<pp_pc, nvml_up, device_count, devices, device_ids,
             device_paths, gpu_mem_paths, ra_registered>>

PPInit ==
  /\ pp_pc = "created"
  /\ nvml_up = FALSE
  /\ device_count = 0
  /\ devices = NullPtr
  /\ device_ids = EmptyMap
  /\ device_paths = EmptyMap
  /\ gpu_mem_paths = EmptyMap
  /\ ra_registered = {}

-----------------------------------------------------------------------------
(* Registration.  `st` is the record of the tables RegisterDevices writes: *)
(* ids, paths, mem and ra.                                                 *)

\* InsertDeviceID(r_type, uint8_t dev_id): make sure the type has a vector
\* (GetDeviceIterator answers end() when device_count is 0, and the insert
\* is then a no-op on an existing key, so the effect is the same), append
\* the id, and for a GPU insert the memory path of that id.
InsertDeviceID(st, r_type, dev_id) ==
  LET ids == MapInsert(st.ids, r_type, <<>>)
  IN  [st EXCEPT
         !.ids = [ids EXCEPT ![r_type] = Append(@, dev_id)],
         !.mem = IF r_type = "GPU"
                   THEN MapInsert(st.mem, dev_id, MemPath(dev_id))
                   ELSE st.mem]

\* InsertDevicePath(r_type, path): make sure the type has a list and
\* append the path (`new` never yields nullptr, so the early return is dead).
InsertDevicePath(st, r_type, path) ==
  LET paths == MapInsert(st.paths, r_type, <<>>)
  IN  [st EXCEPT !.paths = [paths EXCEPT ![r_type] = Append(@, path)]]

\* One iteration of RegisterDevices: nvmlDeviceGetName on devices[dev_id]
\* only logs, whatever the handle holds; the PE path is registered with the
\* accounter, the id (truncated to uint8_t) and the path are recorded.
RegisterDevice(st, dev_id) ==
  LET st1 == [st EXCEPT !.ra = @ \cup {PePath(dev_id)}]
  IN  InsertDevicePath(InsertDeviceID(st1, "GPU", dev_id % 256),
                       "GPU", PePath(dev_id))

\* for (uint16_t dev_id = 0; dev_id < device_count; ++dev_id)
RECURSIVE RegisterLoop(_, _, _)
RegisterLoop(st, dev_id, count) ==
  IF dev_id >= count THEN st
  ELSE RegisterLoop(RegisterDevice(st, dev_id), dev_id + 1, count)

RegisterDevices(count) ==
  LET st == RegisterLoop([ids |-> device_ids, paths |-> device_paths,
                          mem |-> gpu_mem_paths, ra |-> ra_registered],
                         0, count)
  IN  /\ device_ids' = st.ids
      /\ device_paths' = st.paths
      /\ gpu_mem_paths' = st.mem
      /\ ra_registered' = st.ra

-----------------------------------------------------------------------------
(* Operations.                                                             *)

\* LoadPlatformData: nvmlInit, then nvmlDeviceGetCount (either may fail and
\* return PLATFORM_ENUMERATION_FAILED; after a failed count NVML stays
\* initialized), then a handle per index: a failed lookup is skipped and
\* leaves devices[i] uninitialized.  Then RegisterDevices for every index.
LoadPlatformData ==
  /\ pp_pc = "created"
  /\ \/ /\ pp_pc' = "failed"
        /\ UNCHANGED <<nvml_up, device_count, devices, device_ids,
                       device_paths, gpu_mem_paths, ra_registered>>
     \/ /\ nvml_up' = TRUE
        /\ \/ /\ pp_pc' = "failed"
              /\ UNCHANGED <<device_count, devices, device_ids,
                             device_paths, gpu_mem_paths, ra_registered>>
           \/ \E count \in 0..MaxDevices :
                /\ device_count' = count
                /\ devices' \in [0..count - 1 -> BOOLEAN]
                /\ RegisterDevices(count)
                /\ pp_pc' = "loaded"

\* Setup, Refresh, Release, ReclaimResources and MapResources only log and
\* return PLATFORM_OK.
NoOpCall ==
  /\ pp_pc = "loaded"
  /\ UNCHANGED pp_vars

\* Mutant: Exit without device_paths.clear().
ExitKeepsPaths ==
  /\ pp_pc = "loaded"
  /\ pp_pc' = "exited"
  /\ nvml_up' = FALSE
  /\ devices' = Deleted
  /\ device_ids' = EmptyMap
  /\ UNCHANGED <<device_count, device_paths, gpu_mem_paths, ra_registered>>

\* Exit: nvmlShutdown, `delete devices`, clear the two per-type tables.
\* device_count, gpu_mem_paths and the accounter keep their contents.
Exit ==
  /\ pp_pc = "loaded"
  /\ pp_pc' = "exited"
  /\ nvml_up' = FALSE
  /\ devices' = Deleted
  /\ device_ids' = EmptyMap
  /\ device_paths' = EmptyMap
  /\ UNCHANGED <<device_count, gpu_mem_paths, ra_registered>>

-----------------------------------------------------------------------------
(* Queries (const member functions).                                       *)

\* GetDeviceConstIterator: end() when device_count is 0, else find.
DeviceIdsFound(r_type) ==
  device_count # 0 /\ r_type \in DOMAIN device_ids

GetDeviceIDs(r_type) ==
  IF DeviceIdsFound(r_type) THEN device_ids[r_type] ELSE NullPtr

\* The size of the vector, returned as uint8_t.
GetDevicesNum(r_type) ==
  IF DeviceIdsFound(r_type) THEN Len(device_ids[r_type]) % 256 ELSE 0

GetDevicePaths(r_type) ==
  IF r_type \in DOMAIN device_paths THEN device_paths[r_type] ELSE NullPtr

-----------------------------------------------------------------------------
(* Properties.                                                             *)

\* The three queries agree on every resource type, before loading, after a
\* load of any number of devices and after Exit (which clears the tables
\* but not device_count): the IDs and the paths are both present or both
\* absent, GetDevicesNum counts them, and the i-th path names the i-th
\* device ID, so a client may index one list with the other.
DeviceQueriesAgree ==
  \A r \in ResourceTypes :
    LET ids   == GetDeviceIDs(r)
        paths == GetDevicePaths(r)
    IN  /\ (ids = NullPtr) <=> (paths = NullPtr)
        /\ ids = NullPtr => GetDevicesNum(r) = 0
        /\ ids # NullPtr =>
             /\ GetDevicesNum(r) = Len(ids)
             /\ Len(paths) = Len(ids)
             /\ \A i \in 1..Len(ids) : paths[i] = PePath(ids[i])
             /\ \A i \in 1..Len(ids) : gpu_mem_paths[ids[i]] = MemPath(ids[i])

\* Every GPU the proxy registers with the resource accounter, and so offers
\* to the scheduling policy, is a device NVML handed a handle for: the
\* platform layer never exposes a device it could not open.
RegisteredDevicesOpened ==
  pp_pc = "loaded" =>
    \A dev_id \in 0..device_count - 1 :
      PePath(dev_id) \in ra_registered => devices[dev_id]
=============================================================================
