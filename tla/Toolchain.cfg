CONSTANTS
  MaxName = 5
  Files <- MCFiles
  Features <- MCFeatures
  OneFeature <- MCOne
  Compilers = {"clang++"}
  DefaultCxx = "g++"
  DefaultCc = "cc"
  MaxRev = 1
SPECIFICATION ToolchainSpec
INVARIANTS NamesSplit StubsAgree BuildIsCurrent RerunRepairs
CHECK_DEADLOCK FALSE
