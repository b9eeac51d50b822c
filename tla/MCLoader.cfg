SPECIFICATION LoaderSpec
CONSTANTS
    SectorSize = 4
    EntrySize = 2
    ReadLens = {3, 9}
    FaultLimit = 1
    FatVolumes <- MCFatVolumes
    SeekTargets <- MCSeekTargets
    RdPage = 64
    RdFaultLimit = 1
    RdTrees <- MCRdTrees
    RdPaths <- MCRdPaths
    HdMaps <- MCHdMaps
    HdKernels <- MCHdKernels
    HdImages = {256, 300}
    HdArgvs <- MCHdArgvs
    HdHeap = {1, 2}
    HdHeapLimit = 3
    HdTryLimit = 2
    PageBytes = 128
    TablePages = 32
    LowFrame = 8
    LoaderFrames = 3
    TrampFrames = 2
    KernelVpn = 96
    KernelTables = 1
    DspVgaCols <- MCDspVgaCols
    DspVgaRows = 2
    DspMachines <- MCDspMachines
    DspStates = {"default", "csi"}
    DspTexts <- MCDspTexts
    DspPiece = 2
    DspSwitches = 1
  VolMachines <- MCVolMachines
  VolBuffer = 4
  VolLbas = {0, 3, 6}
  VolCounts = {1, 3}
  VolTables = 3
  VolParts = 6
  VolRequests = 1
  HeapSizes = {0, 24000, 40000, 65456, 65457}
  HeapPages = 36
  HeapHolds = 4
  HeapCalls = 6
  MdFiles <- MdAll
  MdExports <- MdSyms
  MdFaults <- MdFails
  MdPage = 8
  MdWord = 1000
  MdCalls = 3
  CfDocs <- CfCatalogue
  CfShort <- CfCuts
  CfPast <- CfBehind
  CfKeys <- CfMaxKeys
  ShLines <- ShLinesDef
  ShTrees <- ShTreesDef
  ShFiles <- ShFilesDef
  ShBuiltin <- ShBuiltinDef
  ShModule = {"boot"}
  ShAlnum <- ShAlnumDef
  ShChr <- ShChrDef
  ShProbes <- ShProbesDef
  ShRead = 12
  ShLine = 15
  ShElem = 12
  ShArgs = 4
  ShKey = 3
  ShPath = 8
  ShMaxCalls = 4
  ShMaxDepth = 3
  ShMaxFaults = 1
INVARIANTS
    FatExact
    RamdiskExact
    
    DisplayExact
    
    HeapExact
    
    
    
CHECK_DEADLOCK FALSE
