\* T1Block: NsSequencing (expected to be violated).
CONSTANTS
  ReaderPcbs <- MCReaderPcbs
  UndefPcbs <- MCUndefPcbs
  IfsValues = {1, 3}
  DefaultIFS = 2
  Responses = {1, 3}
  MaxReads = 4
  MaxResponses = 2
  MaxWtx = 2
SPECIFICATION Spec
PROPERTY NsSequencing
\* prot_t1 stops for good when the host never answers (read_usb_uart_apdu
\* blocks); once the reader is silent its loop only times out.
CHECK_DEADLOCK FALSE
