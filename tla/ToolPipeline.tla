---------------------------- MODULE ToolPipeline ----------------------------
(***************************************************************************)
(* What a tool is, in the four places that must agree on it: the form the  *)
(* toolbox renders and the parameters model (tool_registry.py), the        *)
(* payloads the executor composes (job_executor.py), and the operations    *)
(* that parse them strictly and run in order (raster_ and                  *)
(* vector_operations.py, base_workflow.py).  A job takes one dataset of    *)
(* the user's library and, if it completes, adds one.                      *)
(***************************************************************************)
EXTENDS Integers, Sequences, SequencesExt

CONSTANTS Uploaded,   \* the datasets the library starts with
          MaxJobs     \* bound: jobs that run one after the other

VARIABLES
  library,   \* the user's datasets
  request,   \* the submission being handled, or NoRequest
  stage,     \* "idle", "accepted", "queued", "loaded", "parsed", "refused",
             \* "failed", "completed"
  why,       \* why it was refused or failed
  payload,   \* the dict of _build_workflow_payload: operation |-> field names
  done,      \* the operations of the pipeline that ran
  have,      \* what they left in the work directory, in ctx and in the store
  jobs       \* the number of submissions

toolVars == <<library, request, stage, why, payload, done, have, jobs>>

-----------------------------------------------------------------------------
(* Datasets.  bands is what the file holds and known what the metadata      *)
(* says; 0 is none.                                                         *)

Dataset == [type : {"vector", "raster", "text"}, bands : Nat, known : Nat,
            features : {"none", "some"}, object : BOOLEAN, mine : BOOLEAN]

\* A raster file has bands, and metadata is extracted from the file.
Genuine(d) ==
  /\ d.type = "raster" /\ d.object => d.bands # 0
  /\ d.known \in {0, d.bands}

\* get_raster_kind
RasterKind(bands) ==
  IF bands = 1 THEN "elevation" ELSE IF bands \in {3, 4} THEN "ortho" ELSE "raster"

ASSUME UploadedAssumption ==
  Uploaded \subseteq Dataset /\ \A d \in Uploaded : Genuine(d)

-----------------------------------------------------------------------------
(* The registry.  A parameters model is strict: it names the fields that    *)
(* must be given and those that may.                                        *)

Model(required, optional) == [required |-> required, optional |-> optional]
Fields(m) == m.required \cup m.optional

BufferParams == Model({"distance"}, {"units", "segments"})
ClipVectorParams == Model({"clip_dataset_id"}, {})
DissolveParams == Model({}, {"dissolve_field"})
CentroidParams == Model({}, {})
SimplifyParams == Model({"tolerance"}, {})
ConvexHullParams == Model({}, {"per_feature"})
HillshadeParams == Model({}, {"azimuth", "altitude", "z_factor"})
SlopeParams == Model({}, {"units", "z_factor"})
ContourParams == Model({"interval"}, {"attribute_name"})
ClipRasterParams == Model({}, {"clip_dataset_id", "clip_geometry"})
RasterCalcParams == Model({"expression"}, {"band_mapping"})

\* workflow is the class name in workflow_path without "Workflow"; importable
\* says whether the module of the path exists.
ToolDefinition(category, output, workflow, importable, params) ==
  [category |-> category, output |-> output, workflow |-> workflow,
   importable |-> importable, params |-> params]

VectorTool(workflow, params) ==
  ToolDefinition("vector", "vector", workflow, TRUE, params)

\* The path of hillshade has a blank in it and names no module.
TOOL_REGISTRY ==
  [buffer |-> VectorTool("Buffer", BufferParams),
   clip_vector |-> VectorTool("ClipVector", ClipVectorParams),
   dissolve |-> VectorTool("Dissolve", DissolveParams),
   centroid |-> VectorTool("Centroid", CentroidParams),
   simplify |-> VectorTool("Simplify", SimplifyParams),
   convex_hull |-> VectorTool("ConvexHull", ConvexHullParams),
   hillshade |->
     ToolDefinition("raster", "raster", "Hillshade", FALSE, HillshadeParams),
   slope |-> ToolDefinition("raster", "raster", "Slope", TRUE, SlopeParams),
   contour |-> ToolDefinition("raster", "vector", "Contour", TRUE, ContourParams),
   clip_raster |->
     ToolDefinition("raster", "raster", "ClipRaster", TRUE, ClipRasterParams),
   raster_calculator |->
     ToolDefinition("raster", "raster", "RasterCalc", TRUE, RasterCalcParams)]

\* input_types is the category of the tool, for each of them.
InputType(t) == TOOL_REGISTRY[t].category

\* The fields of the form the toolbox renders for a tool.
FormSchema(t) ==
  CASE t = "clip_raster" -> Model({}, {"clip_dataset_id"})
    [] t = "raster_calculator" -> Model({"expression"}, {})
    [] OTHER -> TOOL_REGISTRY[t].params

-----------------------------------------------------------------------------
(* The strict payload models of the operations.                             *)

VectorPayload(required, optional) ==
  Model(required \cup {"job_id", "input_dataset_id"}, optional)

RasterPayload(required, optional) ==
  Model(required \cup {"job_id", "input_path", "work_dir"}, optional)

BufferOpPayload == VectorPayload({"distance"}, {"units", "segments"})
ClipVectorOpPayload == VectorPayload({"clip_dataset_id"}, {})
DissolveOpPayload == VectorPayload({}, {"dissolve_field"})
CentroidOpPayload == VectorPayload({}, {})
SimplifyOpPayload == VectorPayload({"tolerance"}, {})
ConvexHullOpPayload == VectorPayload({}, {"per_feature"})
HillshadeOpPayload == RasterPayload({}, {"azimuth", "altitude", "z_factor"})
SlopeOpPayload == RasterPayload({}, {"units", "z_factor"})
ContourOpPayload == RasterPayload({"interval"}, {"attribute_name"})
ClipRasterOpPayload == RasterPayload({}, {"clip_dataset_id", "clip_geometry"})
RasterCalcOpPayload == RasterPayload({"expression"}, {"band_mapping"})
DownloadPayload == Model({"download_url"}, {"download_to_path"})
ExtractRasterMetadataPayload == Model({"path"}, {})
UploadPayload == Model({"upload_url"}, {"upload_from_path", "metadata"})

CreateOutputDatasetPayload ==
  Model({"job_id", "output_name", "output_type"},
        {"output_parent_id", "output_format", "storage_path", "file_size", "metadata"})

PayloadModel ==
  [buffer_op |-> BufferOpPayload, clip_vector_op |-> ClipVectorOpPayload,
   dissolve_op |-> DissolveOpPayload, centroid_op |-> CentroidOpPayload,
   simplify_op |-> SimplifyOpPayload, convex_hull_op |-> ConvexHullOpPayload,
   hillshade_op |-> HillshadeOpPayload, slope_op |-> SlopeOpPayload,
   contour_op |-> ContourOpPayload, clip_raster_op |-> ClipRasterOpPayload,
   raster_calc_op |-> RasterCalcOpPayload, download |-> DownloadPayload,
   extract_raster_metadata |-> ExtractRasterMetadataPayload,
   upload |-> UploadPayload, create_output_dataset |-> CreateOutputDatasetPayload]

-----------------------------------------------------------------------------
(* The operations.  h is what the earlier ones left: source and raster are   *)
(* the files of the work directory (raster: the bands of output.tif, 0 for   *)
(* none), metadata and pending the keys of ctx, staging the features         *)
(* written; d is the input, g the parameters given a value.  The value is    *)
(* the set of what may be left; it is empty when the operation raises.       *)

Nothing == [source |-> FALSE, raster |-> 0, metadata |-> 0, object |-> FALSE,
            pending |-> FALSE, staging |-> "none"]

Staged(h, f) == [h EXCEPT !.staging = f, !.pending = TRUE]

\* A vector operation reads the features of whatever dataset it is given.
BufferOp(h, d, g) == {Staged(h, d.features)}
ClipVectorOp(h, d, g) == {Staged(h, f) : f \in {"none", d.features}}
DissolveOp(h, d, g) == {Staged(h, d.features)}
CentroidOp(h, d, g) == {Staged(h, d.features)}
SimplifyOp(h, d, g) == {Staged(h, f) : f \in {"none", d.features}}
ConvexHullOp(h, d, g) == {Staged(h, d.features)}

\* The shaded and the coloured raster are written as RGBA.
HillshadeOp(h, d, g) == IF h.source THEN {[h EXCEPT !.raster = 4]} ELSE {}
SlopeOp(h, d, g) == IF h.source THEN {[h EXCEPT !.raster = 4]} ELSE {}

ContourOp(h, d, g) ==
  IF h.source THEN {Staged(h, f) : f \in {"none", "some"}} ELSE {}

ClipRasterOp(h, d, g) ==
  IF h.source /\ g \cap {"clip_geometry", "clip_dataset_id"} # {}
  THEN {[h EXCEPT !.raster = d.bands]} ELSE {}

RasterCalcOp(h, d, g) == IF h.source THEN {[h EXCEPT !.raster = 1]} ELSE {}

\* A dataset without a file has an empty key.
Download(h, d, g) == IF d.object THEN {[h EXCEPT !.source = TRUE]} ELSE {}

\* Mutant: the metadata is taken of the input instead of the output.
ExtractOfInput(h, d, g) == {[h EXCEPT !.metadata = d.bands]}

ExtractRasterMetadata(h, d, g) ==
  IF h.raster # 0 THEN {[h EXCEPT !.metadata = h.raster]} ELSE {}

Upload(h, d, g) == IF h.raster # 0 THEN {[h EXCEPT !.object = TRUE]} ELSE {}

CreateOutputDataset(h, d, g) == {h}

Execute(o, h, d, g) ==
  CASE o = "buffer_op" -> BufferOp(h, d, g)
    [] o = "clip_vector_op" -> ClipVectorOp(h, d, g)
    [] o = "dissolve_op" -> DissolveOp(h, d, g)
    [] o = "centroid_op" -> CentroidOp(h, d, g)
    [] o = "simplify_op" -> SimplifyOp(h, d, g)
    [] o = "convex_hull_op" -> ConvexHullOp(h, d, g)
    [] o = "hillshade_op" -> HillshadeOp(h, d, g)
    [] o = "slope_op" -> SlopeOp(h, d, g)
    [] o = "contour_op" -> ContourOp(h, d, g)
    [] o = "clip_raster_op" -> ClipRasterOp(h, d, g)
    [] o = "raster_calc_op" -> RasterCalcOp(h, d, g)
    [] o = "download" -> Download(h, d, g)
    [] o = "extract_raster_metadata" -> ExtractRasterMetadata(h, d, g)
    [] o = "upload" -> Upload(h, d, g)
    [] o = "create_output_dataset" -> CreateOutputDataset(h, d, g)

\* Mutant: the upload is listed before the operation.
RasterWorkflowEarly(o) ==
  <<"download", "upload", o, "extract_raster_metadata", "create_output_dataset">>

RasterWorkflow(o) ==
  <<"download", o, "extract_raster_metadata", "upload", "create_output_dataset">>

\* The operations of each workflow class, in their order.
Operations ==
  [Buffer |-> <<"buffer_op", "create_output_dataset">>,
   ClipVector |-> <<"clip_vector_op", "create_output_dataset">>,
   Dissolve |-> <<"dissolve_op", "create_output_dataset">>,
   Centroid |-> <<"centroid_op", "create_output_dataset">>,
   Simplify |-> <<"simplify_op", "create_output_dataset">>,
   ConvexHull |-> <<"convex_hull_op", "create_output_dataset">>,
   Hillshade |-> RasterWorkflow("hillshade_op"),
   Slope |-> RasterWorkflow("slope_op"),
   Contour |-> <<"download", "contour_op", "create_output_dataset">>,
   ClipRaster |-> RasterWorkflow("clip_raster_op"),
   RasterCalc |-> RasterWorkflow("raster_calc_op")]

\* _camel_to_snake of the class name with "Op" for "Workflow".
FirstOpKey(workflow) ==
  [Buffer |-> "buffer_op", ClipVector |-> "clip_vector_op",
   Dissolve |-> "dissolve_op", Centroid |-> "centroid_op",
   Simplify |-> "simplify_op", ConvexHull |-> "convex_hull_op",
   Hillshade |-> "hillshade_op", Slope |-> "slope_op",
   Contour |-> "contour_op", ClipRaster |-> "clip_raster_op",
   RasterCalc |-> "raster_calc_op"][workflow]

-----------------------------------------------------------------------------
(* Submissions.                                                             *)

\* model_validate of the parameters: given are the fields given, bad those
\* with a value of the wrong type, out of its bounds or not among its choices.
ParamsValid(t, given, bad) ==
  LET m == TOOL_REGISTRY[t].params
  IN  m.required \subseteq given /\ given \subseteq Fields(m) /\ bad = {}

\* Parameters as a client may send them, with at most one bad value and at
\* most one field the tool does not have; the toolbox sends what its form asks.
Given(by, t) ==
  IF by = "toolbox"
  THEN {g \in SUBSET Fields(FormSchema(t)) : FormSchema(t).required \subseteq g}
  ELSE SUBSET (Fields(TOOL_REGISTRY[t].params) \cup {"other"})

Bad(by, g) == IF by = "toolbox" THEN {{}} ELSE {{}} \cup {{f} : f \in g}

\* Besides a single dataset: none (an operation node without an edge), or two.
InputLists == {<<>>} \cup {<<d, e>> : d, e \in library}

DemOnly == {"hillshade", "slope", "contour"}

\* Mutant: the single-band rule is dropped.
AcceptsDemAny(t, d) == TRUE

AcceptsDem(t, d) ==
  t \in DemOnly => RasterKind(d.known) # "ortho" /\ d.known <= 1

\* ProcessingJobCreateSerializer.validate: the first reason to refuse, or "".
FormVerdict(t, inputs, given, bad) ==
  IF t \notin DOMAIN TOOL_REGISTRY THEN "tool"
  ELSE IF inputs = <<>> \/ ~IsInjective(inputs)
          \/ \E i \in DOMAIN inputs : ~inputs[i].mine THEN "inputs"
  ELSE IF \E i \in DOMAIN inputs : inputs[i].type # InputType(t) THEN "type"
  ELSE IF \E i \in DOMAIN inputs : ~AcceptsDem(t, inputs[i]) THEN "dem"
  ELSE IF ~ParamsValid(t, given, bad) THEN "parameters"
  ELSE "accepted"

\* An operation node: validate_definition when the workflow is saved, and
\* execute_workflow_run when it runs.  Its inputs come from source nodes, which
\* are the user's, or from earlier operations; their types are not looked at.
NodeVerdict(t, inputs, given, bad) ==
  IF t \notin DOMAIN TOOL_REGISTRY THEN "tool"
  ELSE IF \E i \in DOMAIN inputs : ~inputs[i].mine THEN "inputs"
  ELSE IF ~ParamsValid(t, given, bad) THEN "parameters"
  ELSE IF inputs = <<>> THEN "inputs"
  ELSE "accepted"

NoRequest == [by |-> "nobody"]

ToolInit ==
  /\ library = Uploaded
  /\ request = NoRequest
  /\ stage = "idle" /\ why = "none"
  /\ payload = <<>> /\ done = <<>> /\ have = Nothing
  /\ jobs = 0

\* The row is created with the parameters as dumped: every field of the model.
\* Of several inputs the executor takes the first, in an order nothing fixes.
Submit(by, t, inputs, given, bad) ==
  /\ stage = "idle"
  /\ jobs < MaxJobs
  /\ jobs' = jobs + 1
  /\ why' = IF by = "workflow" THEN NodeVerdict(t, inputs, given, bad)
            ELSE FormVerdict(t, inputs, given, bad)
  /\ stage' = IF why' = "accepted" THEN "queued" ELSE "refused"
  /\ \E i \in (IF inputs = <<>> THEN {0} ELSE DOMAIN inputs) :
       request' = IF why' # "accepted" THEN [by |-> by]
                  ELSE [by |-> by, tool |-> t, input |-> inputs[i],
                        given |-> given \ {"other"}]
  /\ UNCHANGED <<library, payload, done, have>>

Definition == TOOL_REGISTRY[request.tool]

FailJob(reason) ==
  /\ stage' = "failed" /\ why' = reason
  /\ UNCHANGED <<library, request, payload, done, have, jobs>>

\* load_workflow_class
Load ==
  /\ stage = "queued"
  /\ \/ ~Definition.importable /\ FailJob("import")
     \/ /\ Definition.importable
        /\ stage' = "loaded"
        /\ UNCHANGED <<library, request, why, payload, done, have, jobs>>


OutputFields(tool) ==
  {"job_id", "output_name", "output_parent_id", "output_type", "output_format"}
  \cup IF tool.category = "raster" /\ tool.output = "raster"
       THEN {"storage_path"} ELSE {}

\* _build_workflow_payload: for each operation the fields it is sent.
Keys(tool) ==
  {FirstOpKey(tool.workflow), "create_output_dataset"}
  \cup {o \in {"download", "extract_raster_metadata", "upload"} :
         tool.category = "raster" /\ (o = "download" \/ tool.output = "raster")}

Sent(tool, o) ==
  CASE o = "create_output_dataset" -> OutputFields(tool)
    [] o = "download" -> {"download_url", "download_to_path"}
    [] o = "extract_raster_metadata" -> {"path"}
    [] o = "upload" -> {"upload_url", "upload_from_path"}
    [] o = FirstOpKey(tool.workflow) ->
         {"job_id"} \cup Fields(tool.params)
         \cup IF tool.category = "vector" THEN {"input_dataset_id"}
              ELSE {"input_path", "work_dir"}

Built(tool) == [o \in Keys(tool) |-> Sent(tool, o)]

\* Workflow._build_payloads: no key without an operation, the first operation
\* has its payload, and each payload parses.
Parses(p, operations) ==
  /\ DOMAIN p \subseteq ToSet(operations)
  /\ operations[1] \in DOMAIN p
  /\ \A o \in DOMAIN p :
       PayloadModel[o].required \subseteq p[o] /\ p[o] \subseteq Fields(PayloadModel[o])

Compose ==
  /\ stage = "loaded"
  /\ LET p == Built(Definition) IN
       IF Parses(p, Operations[Definition.workflow])
       THEN /\ payload' = p
            /\ stage' = "parsed"
            /\ UNCHANGED <<library, request, why, done, have, jobs>>
       ELSE FailJob("payload")

\* Workflow._run_operations up to the output.  An operation after the first
\* that has no payload would be given the output of the one before, which is
\* none of the payload models.
RunOperation ==
  /\ stage = "parsed"
  /\ LET operations == Operations[Definition.workflow]
         o == operations[Len(done) + 1]
         results == Execute(o, have, request.input, request.given) IN
       /\ o # "create_output_dataset"
       /\ IF o \notin DOMAIN payload THEN FailJob("payload")
          ELSE IF results = {} THEN FailJob(o)
          ELSE /\ have' \in results
               /\ done' = Append(done, o)
               /\ UNCHANGED <<library, request, stage, why, payload, jobs>>

\* What is in the data may make an operation raise: no elevation, a geometry
\* that does not overlap, an expression that is refused, a lost connection.
DataFails ==
  /\ stage = "parsed"
  /\ FailJob("data")

\* CreateOutputDataset: the row takes its type and format from the registry,
\* its metadata from ctx, its features from the staging dataset.
NewDataset ==
  [type |-> Definition.output, bands |-> have.raster, known |-> have.metadata,
   features |-> IF have.pending THEN have.staging ELSE "none",
   object |-> have.object, mine |-> TRUE]

CreateOutput ==
  /\ stage = "parsed"
  /\ Len(done) + 1 = Len(Operations[Definition.workflow])
  /\ library' = library \cup {NewDataset}
  /\ done' = Append(done, "create_output_dataset")
  /\ stage' = "completed"
  /\ UNCHANGED <<request, why, payload, have, jobs>>

\* The user goes on with the library as it is now.
Close ==
  /\ stage \in {"refused", "failed", "completed"}
  /\ stage' = "idle" /\ why' = "none" /\ request' = NoRequest
  /\ payload' = <<>> /\ done' = <<>> /\ have' = Nothing
  /\ UNCHANGED <<library, jobs>>

Clients == {"toolbox", "api", "workflow"}

\* Any parameters with one dataset, and plain ones with any list of datasets.
SubmitAny ==
  \E by \in Clients, t \in DOMAIN TOOL_REGISTRY :
    \/ \E d \in library : \E given \in Given(by, t) : \E bad \in Bad(by, given) :
         Submit(by, t, <<d>>, given, bad)
    \/ \E inputs \in InputLists :
         Submit(by, t, inputs, TOOL_REGISTRY[t].params.required, {})
    \/ Submit(by, "unknown", <<>>, {}, {})

ToolNext ==
  \/ SubmitAny \/ Load \/ Compose \/ RunOperation \/ DataFails \/ CreateOutput
  \/ Close

ToolSpec == ToolInit /\ [][ToolNext]_toolVars


-----------------------------------------------------------------------------
(* Properties.                                                             *)

\* The four lists of fields agree: what the toolbox asks for passes the
\* parameters model, and what passes it is composed into payloads every
\* operation of the tool parses, with the keys its workflow knows
\* (tool_registry.py, job_executor.py _build_workflow_payload, base_workflow.py).
\* And each operation finds what the ones before it must leave: a job of the
\* form fails only for its data, except a hillshade, whose class cannot be
\* loaded, and a raster clip without a geometry, which the model lets pass.
AcceptedJobRuns ==
  /\ stage = "refused" /\ request.by = "toolbox" => why # "parameters"
  /\ stage = "failed" =>
       /\ why # "payload"
       /\ request.by # "workflow" =>
            \/ why = "data"
            \/ why = "import" /\ request.tool = "hillshade"
            \/ why = "clip_raster_op"
               /\ request.given \cap {"clip_dataset_id", "clip_geometry"} = {}
            \/ why = "download" /\ ~request.input.object

\* A completed job leaves what the registry promises of its tool: a raster with
\* its object and metadata of the file that was written, or the features the
\* operation computed.  A vector tool that a workflow feeds a raster completes
\* without any feature (dag_executor.py does not look at types).
OutputAsPromised ==
  stage = "completed" =>
    IF Definition.output = "raster"
    THEN have.object /\ have.raster # 0 /\ NewDataset.known = NewDataset.bands
    ELSE /\ have.pending /\ ~have.object
         /\ have.staging = "none" =>
              \/ request.input.features = "none"
              \/ request.tool \in {"clip_vector", "simplify", "contour"}

\* An elevation tool never runs on a coloured raster through the form: neither
\* on an upload whose metadata is there, nor on the output of another tool.
DemToolsReadElevation ==
  stage \in {"parsed", "completed"} /\ request.by # "workflow"
    /\ request.tool \in DemOnly /\ request.input.known # 0 =>
      request.input.bands = 1
=============================================================================
